--------------------------- MODULE TransactionOps ---------------------------
(***************************************************************************)
(* One confirmable request as wakaama/transaction.c keeps it, as operators *)
(* on records.  Transaction.tla runs them against a network and            *)
(* Registration.tla inside the client's step loop.                         *)
(*                                                                         *)
(* The code compares retrans_time only with the current time, so a record  *)
(* keeps the difference: wait = retrans_time - lwm2m_gettime().  Zero or   *)
(* less means "due".  The buffer of a request is NULL exactly until its    *)
(* first successful transaction_send, that is while retrans_counter = 0.   *)
(* Every request of the client carries a token built from its message ID,  *)
(* and lwm2m_gettime never fails on the board (it reads the RTC).          *)
(*                                                                         *)
(* A definition named D_Something is a mutated form of D, the way a slip   *)
(* in the code would change it; no specification uses it.                  *)
(***************************************************************************)
EXTENDS Integers

CONSTANTS
  COAP_RESPONSE_TIMEOUT,  \* seconds, 2 in er-coap-13.h
  COAP_MAX_RETRANSMIT,    \* 4 in er-coap-13.h: here the number of transmissions
  None                    \* no token, or a message ID the client never uses

ASSUME TransactionConstants ==
  /\ COAP_RESPONSE_TIMEOUT \in Nat \ {0}
  /\ COAP_MAX_RETRANSMIT \in Nat \ {0}

\* lwm2m_transaction_t: the fields that drive retransmission.  State "acked" is
\* ack_received = true; a "free" record is a place of the list that holds nothing.
TransactionRecord ==
  [state : {"free", "pending", "acked"},
   retrans_counter : 0 .. COAP_MAX_RETRANSMIT + 1, wait : Int]

Free == [state |-> "free", retrans_counter |-> 0, wait |-> 0]

Live(t) == t.state # "free"
ack_received(t) == t.state = "acked"

\* A request just built and put on the list: memset leaves every field zero.
transaction_new == [Free EXCEPT !.state = "pending"]

-----------------------------------------------------------------------------
(* Sending. *)

\* lwm2m_step hands a request to transaction_send when its time has come; one
\* that was never serialised has retrans_time 0 and is always due.
Due_StrictComparison(t) == Live(t) /\ (t.retrans_counter = 0 \/ t.wait < 0)
Due(t) == Live(t) /\ (t.retrans_counter = 0 \/ t.wait <= 0)

\* The branch of transaction_send that puts a datagram on the wire.
Transmits_NoLimit(t) == ~ack_received(t)
Transmits(t) == ~ack_received(t) /\ t.retrans_counter <= COAP_MAX_RETRANSMIT

\* What transaction_send leaves of a request whose buffer is there: removed
\* after callback(transac, NULL), or armed for the next try.  The first try
\* starts from the current time and counts for two: set to 1, then incremented.
transaction_send_NoRearm(t) ==
  IF Transmits(t) THEN [t EXCEPT !.retrans_counter = (IF @ = 0 THEN 1 ELSE @) + 1] ELSE Free
transaction_send_KeepsGivenUp(t) ==
  IF Transmits(t)
    THEN [t EXCEPT !.retrans_counter = (IF @ = 0 THEN 1 ELSE @) + 1,
                   !.wait = @ + COAP_RESPONSE_TIMEOUT]
    ELSE [t EXCEPT !.wait = 1]
transaction_send(t) ==
  IF ~Transmits(t) THEN Free
  ELSE IF t.retrans_counter = 0
    THEN [t EXCEPT !.retrans_counter = 2, !.wait = COAP_RESPONSE_TIMEOUT]
    ELSE [t EXCEPT !.retrans_counter = t.retrans_counter + 1,
                   !.wait = t.wait + COAP_RESPONSE_TIMEOUT * t.retrans_counter]

\* Datagrams put on the wire for a request so far.
Tries(t) == IF t.retrans_counter = 0 THEN 0 ELSE t.retrans_counter - 1

-----------------------------------------------------------------------------
(* Receiving: m is the message ID of t, r a datagram of t's peer. *)

\* An ACK or a RST with the request's message ID, the first one.
Acknowledges(m, t, r) ==
  /\ ~ack_received(t)
  /\ r.type \in {"ACK", "RST"}
  /\ r.mid = m

\* The token of the datagram is the request's, whatever the message ID.
prv_transaction_check_finished_AnyToken(m, r) == r.token # None
prv_transaction_check_finished(m, r) == r.token = m

IsReset(m, t, r) == Acknowledges(m, t, r) /\ r.type = "RST"

\* The loop of transaction_handle_response stops at this request.
Concerns(m, t, r) ==
  Live(t) /\ (Acknowledges(m, t, r) \/ prv_transaction_check_finished(m, r))

Finishes(m, t, r) == IsReset(m, t, r) \/ prv_transaction_check_finished(m, r)

\* A refusal for lack of authentication is retried while transmissions are left.
RetriesUnauthorized(m, t, r) ==
  /\ ~IsReset(m, t, r)
  /\ prv_transaction_check_finished(m, r)
  /\ r.code = "4.01"
  /\ COAP_MAX_RETRANSMIT > t.retrans_counter

\* The callback is called with the datagram and the request is removed.
Concludes(m, t, r) == Finishes(m, t, r) /\ ~RetriesUnauthorized(m, t, r)

\* What transaction_handle_response leaves of the request it stopped at.
transaction_handle_response(m, t, r) ==
  IF RetriesUnauthorized(m, t, r)
    THEN [t EXCEPT !.state = "pending", !.wait = t.wait + COAP_RESPONSE_TIMEOUT]
  ELSE IF Finishes(m, t, r)
    THEN Free
  ELSE [t EXCEPT !.state = "acked",
                 !.wait = COAP_RESPONSE_TIMEOUT * t.retrans_counter]

\* One second of the clock: every armed request is one second nearer.
Second(t) == IF Live(t) /\ t.retrans_counter > 0 THEN [t EXCEPT !.wait = @ - 1] ELSE t

-----------------------------------------------------------------------------
\* What a peer may send about request m: an empty ACK, a RST, a response on
\* the ACK, or a response of its own with a message ID it chose itself.
Replies(m, codes, mids) ==
       [type : {"ACK"}, mid : {m}, token : {None}, code : {"0.00"}]
  \cup [type : {"RST"}, mid : {m}, token : {None}, code : {"0.00"}]
  \cup [type : {"ACK"}, mid : {m}, token : {m}, code : codes]
  \cup [type : {"CON", "NON"}, mid : mids, token : {m}, code : codes]
=============================================================================
