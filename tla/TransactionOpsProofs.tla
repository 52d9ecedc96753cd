------------------------- MODULE TransactionOpsProofs -------------------------
(***************************************************************************)
(* What the operators of TransactionOps do to one request, for every       *)
(* timeout and number of transmissions: the lemmas the proofs about the    *)
(* transaction list and about the registrations rest on.                   *)
(***************************************************************************)
EXTENDS TransactionOps, TLAPS

\* A place that holds nothing is a well-formed record.
LEMMA FreeType == Free \in TransactionRecord
  BY TransactionConstants DEF Free, TransactionRecord

\* The multiplication of transaction_send, bounded below.
LEMMA TimeoutGrows ==
  ASSUME NEW c \in Nat, c >= 2
  PROVE  /\ COAP_RESPONSE_TIMEOUT * c \in Nat
         /\ COAP_RESPONSE_TIMEOUT * c >= 2 * COAP_RESPONSE_TIMEOUT
  BY TransactionConstants

\* A request just built is pending and was never sent.
LEMMA NewType ==
  /\ transaction_new \in TransactionRecord
  /\ transaction_new.state = "pending" /\ transaction_new.retrans_counter = 0
  BY FreeType DEF transaction_new, Free, TransactionRecord

\* transaction_send either removes the request or counts one more transmission
\* and arms it for a moment after the old deadline.
LEMMA SendEffect ==
  ASSUME NEW t \in TransactionRecord, NEW u, u = transaction_send(t)
  PROVE  /\ u \in TransactionRecord
         /\ ~Transmits(t) => u = Free
         /\ Transmits(t) =>
              /\ u.state = t.state
              /\ u.retrans_counter = (IF t.retrans_counter = 0 THEN 2
                                                              ELSE t.retrans_counter + 1)
              /\ u.wait = (IF t.retrans_counter = 0 THEN COAP_RESPONSE_TIMEOUT
                            ELSE t.wait + COAP_RESPONSE_TIMEOUT * t.retrans_counter)
<1>1. CASE ~Transmits(t)
  BY <1>1, FreeType DEF transaction_send
<1>2. CASE Transmits(t) /\ t.retrans_counter = 0
  <2>1. u = [t EXCEPT !.retrans_counter = 2, !.wait = COAP_RESPONSE_TIMEOUT]
    BY <1>2 DEF transaction_send
  <2>2. 2 \in 0 .. COAP_MAX_RETRANSMIT + 1 /\ COAP_RESPONSE_TIMEOUT \in Int
    BY TransactionConstants
  <2>3. QED BY <1>2, <2>1, <2>2, TransactionConstants DEF TransactionRecord
<1>3. CASE Transmits(t) /\ t.retrans_counter # 0
  <2> DEFINE w == t.wait + COAP_RESPONSE_TIMEOUT * t.retrans_counter
             c == t.retrans_counter + 1
  <2>1. u = [t EXCEPT !.retrans_counter = c, !.wait = w]
    BY <1>3 DEF transaction_send
  <2>2. c \in 0 .. COAP_MAX_RETRANSMIT + 1
    BY <1>3, TransactionConstants DEF TransactionRecord, Transmits
  <2>3. w \in Int
    BY TransactionConstants DEF TransactionRecord
  <2> HIDE DEF c, w
  <2>4. u \in TransactionRecord /\ u.state = t.state
        /\ u.wait = w /\ u.retrans_counter = c
    BY <2>1, <2>2, <2>3, TransactionConstants DEF TransactionRecord
  <2>5. QED BY <1>3, <2>4 DEF c, w
<1>4. QED BY <1>1, <1>2, <1>3

\* Whatever a datagram does to a request, the record stays well formed.
LEMMA ResponseEffect ==
  ASSUME NEW t \in TransactionRecord, NEW m, NEW r,
         NEW u, u = transaction_handle_response(m, t, r)
  PROVE  /\ u \in TransactionRecord
         /\ Concludes(m, t, r) => u = Free
         /\ ~Concludes(m, t, r) =>
              /\ u.retrans_counter = t.retrans_counter
              /\ \/ u.state = "pending"
                    /\ u.wait = t.wait + COAP_RESPONSE_TIMEOUT
                 \/ u.state = "acked"
                    /\ u.wait = COAP_RESPONSE_TIMEOUT * t.retrans_counter
<1>1. CASE RetriesUnauthorized(m, t, r)
  <2> DEFINE w == t.wait + COAP_RESPONSE_TIMEOUT
  <2>1. u = [t EXCEPT !.state = "pending", !.wait = w]
    BY <1>1 DEF transaction_handle_response
  <2>2. ~Concludes(m, t, r)
    BY <1>1 DEF Concludes
  <2>3. w \in Int
    BY TransactionConstants DEF TransactionRecord
  <2> HIDE DEF w
  <2>4. QED BY <2>1, <2>2, <2>3, TransactionConstants DEF TransactionRecord, w
<1>2. CASE ~RetriesUnauthorized(m, t, r) /\ Finishes(m, t, r)
  BY <1>2, FreeType DEF transaction_handle_response, Concludes
<1>3. CASE ~RetriesUnauthorized(m, t, r) /\ ~Finishes(m, t, r)
  <2> DEFINE w == COAP_RESPONSE_TIMEOUT * t.retrans_counter
  <2>1. u = [t EXCEPT !.state = "acked", !.wait = w]
    BY <1>3 DEF transaction_handle_response
  <2>2. ~Concludes(m, t, r)
    BY <1>3 DEF Concludes
  <2>3. w \in Int
    BY TransactionConstants DEF TransactionRecord
  <2> HIDE DEF w
  <2>4. QED BY <2>1, <2>2, <2>3, TransactionConstants DEF TransactionRecord, w
<1>4. QED BY <1>1, <1>2, <1>3

\* A second of the clock only moves the deadline of an armed request.
LEMMA SecondEffect ==
  ASSUME NEW t \in TransactionRecord
  PROVE  /\ Second(t) \in TransactionRecord
         /\ Second(t).state = t.state
         /\ Second(t).retrans_counter = t.retrans_counter
         /\ Live(t) /\ t.retrans_counter > 0 => Second(t).wait = t.wait - 1
  BY DEF Second, Live, TransactionRecord
=============================================================================
