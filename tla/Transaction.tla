----------------------------- MODULE Transaction -----------------------------
(***************************************************************************)
(* The transaction list of wakaama/transaction.c under lwm2m_step and      *)
(* lwm2m_handle_packet, over a network that loses, duplicates, delays and  *)
(* reorders datagrams.                                                     *)
(*                                                                         *)
(* Identities.  A request is named by its message ID, from which its token *)
(* is built; an ID is reused only once its request is gone.                *)
(* Network.  Each transmission may bring back up to Copies datagrams, in   *)
(* any order with those of other transmissions and at any later time, or   *)
(* never: inFlight counts those that may still come.                       *)
(* Time.  Tick is one second.  The main loop calls lwm2m_step at least     *)
(* once every MaxLag seconds; lag counts the seconds since the last call.  *)
(***************************************************************************)
EXTENDS TransactionOps, FiniteSets

CONSTANTS
  Mids,     \* message IDs
  Codes,    \* response codes told apart: "4.01" and any other
  Copies,   \* datagrams one transmission may bring back
  MaxLag    \* seconds between two calls of lwm2m_step

ASSUME TransactionAssumption ==
  /\ None \notin Mids
  /\ "0.00" \notin Codes
  /\ Copies \in Nat \ {0}
  /\ MaxLag \in Nat \ {0}
  /\ MaxLag < 2 * COAP_RESPONSE_TIMEOUT

VARIABLES
  tx,        \* contextP->transactionList, by message ID
  verdict,   \* what the callback of the last request with this ID was called with
  inFlight,  \* datagrams about a request that may still reach the client
  lag        \* seconds since lwm2m_step was last called

vars == <<tx, verdict, inFlight, lag>>

Open == {m \in Mids : Live(tx[m])}

TypeOK ==
  /\ tx \in [Mids -> TransactionRecord]
  /\ verdict \in [Mids -> {"none", "response", "reset", "timeout"}]
  /\ inFlight \in [Mids -> Nat]
  /\ lag \in 0 .. MaxLag

Init ==
  /\ tx = [m \in Mids |-> Free]
  /\ verdict = [m \in Mids |-> "none"]
  /\ inFlight = [m \in Mids |-> 0]
  /\ lag = 0

-----------------------------------------------------------------------------
\* A caller builds a request, puts it on the list and sends it once; the
\* buffer may not be allocated, and the request then stays on the list unsent.
Request(m) ==
  /\ ~Live(tx[m])
  /\ \E sent \in BOOLEAN :
       /\ tx' = [tx EXCEPT ![m] = IF sent THEN transaction_send(transaction_new)
                                          ELSE transaction_new]
       /\ inFlight' = [inFlight EXCEPT ![m] = IF sent THEN Copies ELSE 0]
  /\ verdict' = [verdict EXCEPT ![m] = "none"]
  /\ UNCHANGED lag

\* The loop of lwm2m_step: every due request goes through transaction_send,
\* except those in failed, whose buffer could not be allocated.
Step(failed) ==
  LET due == {m \in Mids : Due(tx[m])} \ failed
  IN  /\ \A m \in failed : Due(tx[m]) /\ tx[m].retrans_counter = 0
      /\ tx' = [m \in Mids |-> IF m \in due THEN transaction_send(tx[m]) ELSE tx[m]]
      /\ verdict' = [m \in Mids |->
                       IF m \in due /\ ~Transmits(tx[m]) THEN "timeout" ELSE verdict[m]]
      /\ inFlight' = [m \in Mids |->
                        IF m \in due /\ Transmits(tx[m]) THEN inFlight[m] + Copies
                                                         ELSE inFlight[m]]
      /\ lag' = 0

\* lwm2m_handle_packet on a datagram r about request m that is not a request.
Receive(m, r) ==
  /\ inFlight[m] > 0
  /\ inFlight' = [inFlight EXCEPT ![m] = @ - 1]
  /\ \/ /\ \A k \in Mids : ~Concerns(k, tx[k], r)
        /\ UNCHANGED <<tx, verdict>>
     \/ \E k \in Mids :
          /\ Concerns(k, tx[k], r)
          /\ tx' = [tx EXCEPT ![k] = transaction_handle_response(k, tx[k], r)]
          /\ verdict' = [verdict EXCEPT
                           ![k] = IF ~Concludes(k, tx[k], r) THEN @
                                  ELSE IF IsReset(k, tx[k], r) THEN "reset" ELSE "response"]
  /\ UNCHANGED lag

Tick ==
  /\ lag < MaxLag
  /\ lag' = lag + 1
  /\ tx' = [m \in Mids |-> Second(tx[m])]
  /\ UNCHANGED <<verdict, inFlight>>

Next ==
  \/ \E m \in Mids : Request(m)
  \/ \E failed \in SUBSET Mids : Step(failed)
  \/ \E m \in Mids : \E r \in Replies(m, Codes, Mids \cup {None}) : Receive(m, r)
  \/ Tick

Spec == Init /\ [][Next]_vars

\* The main loop never stops calling lwm2m_step, time goes on, and memory is
\* not exhausted for ever.  Nothing is assumed of the network or of the peer.
Fairness == WF_vars(Step({})) /\ WF_vars(Tick)

FairSpec == Spec /\ Fairness

-----------------------------------------------------------------------------
(* Properties. *)

\* Between two calls of lwm2m_step a request is never overdue by more than the
\* time the loop took: lwm2m_step leaves no due request behind it, though
\* transaction_send adds to the old deadline and not to the current time.
NotOverdue ==
  \A m \in Mids : Live(tx[m]) /\ tx[m].retrans_counter > 0 => tx[m].wait + lag >= 1

\* Two transmissions of a request are never sent by two calls of lwm2m_step
\* with no time between them: whenever one is sent the next is in the future.
PacedTransmissions ==
  [][\A m \in Mids :
       Live(tx'[m]) /\ tx'[m].retrans_counter > tx[m].retrans_counter => tx'[m].wait > 0]_vars

\* The transaction list implements the exchange of Exchange.tla.
X == INSTANCE Exchange WITH
       MaxTries <- COAP_MAX_RETRANSMIT,
       open     <- Open,
       tries    <- [m \in Mids |-> Tries(tx[m])]

ImplementsExchange == X!Spec

\* Every request put on the list leaves it with one verdict.
EveryRequestConcluded == X!Concluded
=============================================================================
