-------------------------- MODULE TransactionProofs --------------------------
(***************************************************************************)
(* Proofs about Transaction for every set of message IDs, every timeout,   *)
(* number of transmissions, number of copies and lag of the loop.          *)
(***************************************************************************)
EXTENDS Transaction, TransactionOpsProofs, TLAPS

\* A datagram of the exchange of m can only stop the loop at m.
LEMMA OneConcerned ==
  ASSUME NEW m \in Mids, NEW r \in Replies(m, Codes, Mids \cup {None}),
         NEW k \in Mids, Concerns(k, tx[k], r)
  PROVE  k = m
<1>1. r.token = m \/ (r.token = None /\ r.mid = m)
  BY DEF Replies
<1>2. r.type \in {"ACK", "RST"} => r.mid = m
  BY DEF Replies
<1>3. k # None
  BY TransactionAssumption
<1>4. r.token = k \/ (r.type \in {"ACK", "RST"} /\ r.mid = k)
  BY DEF Concerns, Acknowledges, prv_transaction_check_finished
<1>5. QED BY <1>1, <1>2, <1>3, <1>4

-----------------------------------------------------------------------------
(* The inductive invariant.  NotOverdue alone is not inductive: that the   *)
(* next deadline lies in the future needs the counter to be at least two   *)
(* when a request is retransmitted, so that the delay added exceeds the    *)
(* lag of the loop.                                                        *)

NeverOne == \A m \in Mids : tx[m].retrans_counter # 1

IInv == TypeOK /\ NeverOne /\ NotOverdue

\* A request that lwm2m_step has just transmitted is armed for the future.
LEMMA SentInFuture ==
  ASSUME IInv, NEW m \in Mids, Live(tx[m]), Transmits(tx[m]),
         NEW u, u = transaction_send(tx[m])
  PROVE  u \in TransactionRecord /\ u.wait >= 1 /\ u.retrans_counter >= 2
<1>1. tx[m] \in TransactionRecord
  BY DEF IInv, TypeOK
<1>2. /\ u \in TransactionRecord
      /\ u.retrans_counter = (IF tx[m].retrans_counter = 0 THEN 2
                                                          ELSE tx[m].retrans_counter + 1)
      /\ u.wait = (IF tx[m].retrans_counter = 0 THEN COAP_RESPONSE_TIMEOUT
                    ELSE tx[m].wait + COAP_RESPONSE_TIMEOUT * tx[m].retrans_counter)
  BY <1>1, SendEffect
<1>3. CASE tx[m].retrans_counter = 0
  BY <1>2, <1>3, TransactionConstants
<1>4. CASE tx[m].retrans_counter # 0
  <2>1. tx[m].retrans_counter \in Nat /\ tx[m].retrans_counter >= 2 /\ tx[m].wait \in Int
    BY <1>1, <1>4, TransactionConstants DEF IInv, NeverOne, TransactionRecord
  <2> DEFINE delay == COAP_RESPONSE_TIMEOUT * tx[m].retrans_counter
  <2>2. delay \in Nat /\ delay >= 2 * COAP_RESPONSE_TIMEOUT
    BY <2>1, TimeoutGrows
  <2>3. tx[m].wait + lag >= 1 /\ lag \in Nat /\ lag <= MaxLag
    BY <2>1, TransactionAssumption DEF IInv, NotOverdue, TypeOK
  <2>4. u.wait = tx[m].wait + delay
    BY <1>2, <1>4
  <2> HIDE DEF delay
  <2>5. u.wait >= 1
    BY <2>1, <2>2, <2>3, <2>4, TransactionAssumption, TransactionConstants
  <2>6. QED BY <1>2, <2>1, <2>5
<1>5. QED BY <1>3, <1>4

\* The empty list satisfies the invariant.
LEMMA InitInv == Init => IInv
  BY FreeType, TransactionAssumption
     DEF Init, IInv, TypeOK, NeverOne, NotOverdue, Free, Live

\* What each action does to the records, in the terms the invariant needs.
LEMMA RequestEffect ==
  ASSUME IInv, NEW m \in Mids, Request(m)
  PROVE  /\ tx'[m] \in TransactionRecord
         /\ tx'[m].retrans_counter \in {0, 2}
         /\ tx'[m].retrans_counter = 2 => tx'[m].wait = COAP_RESPONSE_TIMEOUT
         /\ inFlight'[m] = Tries(tx'[m]) * Copies
         /\ tx'[m].state = "pending"
         /\ \A k \in Mids : k # m => tx'[k] = tx[k] /\ inFlight'[k] = inFlight[k]
<1>1. tx \in [Mids -> TransactionRecord] /\ inFlight \in [Mids -> Nat]
  BY DEF IInv, TypeOK
<1>2. PICK sent \in BOOLEAN :
        /\ tx' = [tx EXCEPT ![m] = IF sent THEN transaction_send(transaction_new)
                                           ELSE transaction_new]
        /\ inFlight' = [inFlight EXCEPT ![m] = IF sent THEN Copies ELSE 0]
  BY DEF Request
<1>3. CASE ~sent
  BY <1>1, <1>2, <1>3, NewType, TransactionAssumption DEF Tries
<1>4. CASE sent
  <2>1. Transmits(transaction_new)
    BY NewType, TransactionConstants DEF Transmits, ack_received
  <2>2. tx'[m] = transaction_send(transaction_new) /\ inFlight'[m] = Copies
    BY <1>1, <1>2, <1>4
  <2>3. /\ tx'[m] \in TransactionRecord /\ tx'[m].retrans_counter = 2
        /\ tx'[m].state = "pending" /\ tx'[m].wait = COAP_RESPONSE_TIMEOUT
    BY <2>1, <2>2, NewType, SendEffect
  <2>4. Tries(tx'[m]) * Copies = Copies
    BY <2>3, TransactionAssumption DEF Tries
  <2>5. QED BY <1>1, <1>2, <2>2, <2>3, <2>4
<1>5. QED BY <1>3, <1>4

\* A new request, sent or left unsent, preserves the invariant.
LEMMA RequestInv ==
  ASSUME IInv, NEW m \in Mids, Request(m)
  PROVE  IInv'
<1>1. TypeOK'
  <2>1. tx' \in [Mids -> TransactionRecord]
    BY RequestEffect DEF Request, IInv, TypeOK
  <2>2. inFlight' \in [Mids -> Nat]
    BY TransactionAssumption DEF Request, IInv, TypeOK
  <2>3. QED BY <2>1, <2>2 DEF Request, IInv, TypeOK
<1>2. NeverOne'
  BY RequestEffect DEF IInv, NeverOne
<1>3. NotOverdue'
  <2> SUFFICES ASSUME NEW k \in Mids, tx'[k].retrans_counter > 0, Live(tx'[k])
               PROVE  tx'[k].wait + lag' >= 1
    BY DEF NotOverdue
  <2>1. lag' = lag /\ lag \in Nat
    BY TransactionAssumption DEF Request, IInv, TypeOK
  <2>2. CASE k = m
    <3>1. tx'[m].wait = COAP_RESPONSE_TIMEOUT
      BY <2>2, RequestEffect
    <3>2. QED BY <2>1, <2>2, <3>1, TransactionConstants
  <2>3. CASE k # m
    BY <2>1, <2>3, RequestEffect DEF IInv, NotOverdue
  <2>4. QED BY <2>2, <2>3
<1>4. QED BY <1>1, <1>2, <1>3 DEF IInv

\* lwm2m_step removes a request, leaves it because it is not due, or sends it
\* and arms it for the future.
LEMMA StepEffect ==
  ASSUME IInv, NEW failed \in SUBSET Mids, Step(failed), NEW k \in Mids
  PROVE  \/ tx'[k] = Free
         \/ tx'[k] = tx[k] /\ (tx[k].retrans_counter = 0 \/ ~Live(tx[k]) \/ tx[k].wait >= 1)
         \/ /\ Live(tx[k]) /\ Transmits(tx[k]) /\ tx'[k] = transaction_send(tx[k])
            /\ tx'[k] \in TransactionRecord /\ tx'[k].wait >= 1
            /\ tx'[k].retrans_counter >= 2
<1>1. tx[k] \in TransactionRecord
  BY DEF IInv, TypeOK
<1>2. tx'[k] = IF Due(tx[k]) /\ k \notin failed THEN transaction_send(tx[k]) ELSE tx[k]
  BY DEF Step
<1>3. k \in failed => tx[k].retrans_counter = 0
  BY DEF Step
<1>4. CASE ~Due(tx[k]) \/ k \in failed
  BY <1>1, <1>2, <1>3, <1>4 DEF Due, TransactionRecord
<1>5. CASE Due(tx[k]) /\ k \notin failed /\ ~Transmits(tx[k])
  BY <1>1, <1>2, <1>5, SendEffect
<1>6. CASE Due(tx[k]) /\ k \notin failed /\ Transmits(tx[k])
  BY <1>2, <1>6, SentInFuture DEF Due
<1>7. QED BY <1>4, <1>5, <1>6

\* lwm2m_step preserves the invariant.
LEMMA StepInv ==
  ASSUME IInv, NEW failed \in SUBSET Mids, Step(failed)
  PROVE  IInv'
<1>1. TypeOK'
  <2>1. tx' \in [Mids -> TransactionRecord]
    BY StepEffect, FreeType DEF Step, IInv, TypeOK
  <2>2. inFlight' \in [Mids -> Nat] /\ verdict' \in [Mids -> {"none", "response", "reset", "timeout"}]
    BY TransactionAssumption DEF Step, IInv, TypeOK
  <2>3. QED BY <2>1, <2>2, TransactionAssumption DEF Step, IInv, TypeOK
<1>2. NeverOne'
  BY StepEffect, <1>1 DEF IInv, NeverOne, Free, TypeOK, TransactionRecord
<1>3. NotOverdue'
  <2> SUFFICES ASSUME NEW k \in Mids, tx'[k].retrans_counter > 0, Live(tx'[k])
               PROVE  tx'[k].wait + lag' >= 1
    BY DEF NotOverdue
  <2>1. lag' = 0
    BY DEF Step
  <2>2. tx'[k] \in TransactionRecord /\ tx'[k] # Free
    BY <1>1 DEF TypeOK, Free, Live
  <2>3. tx'[k].wait >= 1
    BY <2>2, StepEffect DEF TransactionRecord
  <2>4. QED BY <2>1, <2>2, <2>3 DEF TransactionRecord
<1>4. QED BY <1>1, <1>2, <1>3 DEF IInv

\* A datagram either leaves the records alone or acts on the request it is about.
LEMMA ReceiveEffect ==
  ASSUME IInv, NEW m \in Mids, NEW r \in Replies(m, Codes, Mids \cup {None}),
         Receive(m, r)
  PROVE  \/ UNCHANGED <<tx, verdict>>
         \/ /\ Live(tx[m])
            /\ tx' = [tx EXCEPT ![m] = transaction_handle_response(m, tx[m], r)]
            /\ tx'[m] = transaction_handle_response(m, tx[m], r)
            /\ \A j \in Mids : j # m => tx'[j] = tx[j]
            /\ verdict' = [verdict EXCEPT
                             ![m] = IF ~Concludes(m, tx[m], r) THEN @
                                    ELSE IF IsReset(m, tx[m], r) THEN "reset" ELSE "response"]
<1>1. CASE UNCHANGED <<tx, verdict>>
  BY <1>1
<1>2. CASE ~UNCHANGED <<tx, verdict>>
  <2>1. PICK k \in Mids :
          /\ Concerns(k, tx[k], r)
          /\ tx' = [tx EXCEPT ![k] = transaction_handle_response(k, tx[k], r)]
          /\ verdict' = [verdict EXCEPT
                           ![k] = IF ~Concludes(k, tx[k], r) THEN @
                                  ELSE IF IsReset(k, tx[k], r) THEN "reset" ELSE "response"]
    BY <1>2 DEF Receive
  <2>2. k = m
    BY <2>1, OneConcerned
  <2>3. Live(tx[m])
    BY <2>1, <2>2 DEF Concerns
  <2>4. QED BY <2>1, <2>2, <2>3 DEF IInv, TypeOK
<1>3. QED BY <1>1, <1>2

\* A datagram preserves the invariant.
LEMMA ReceiveInv ==
  ASSUME IInv, NEW m \in Mids, NEW r \in Replies(m, Codes, Mids \cup {None}),
         Receive(m, r)
  PROVE  IInv'
<1>1. lag' = lag /\ inFlight' \in [Mids -> Nat]
  BY DEF Receive, IInv, TypeOK
<1>2. CASE UNCHANGED <<tx, verdict>>
  BY <1>1, <1>2 DEF IInv, TypeOK, NeverOne, NotOverdue
<1>3. CASE ~UNCHANGED <<tx, verdict>>
  <2>1. /\ tx[m] \in TransactionRecord /\ Live(tx[m])
        /\ tx' = [tx EXCEPT ![m] = transaction_handle_response(m, tx[m], r)]
        /\ tx'[m] = transaction_handle_response(m, tx[m], r)
        /\ verdict' \in [Mids -> {"none", "response", "reset", "timeout"}]
    BY <1>3, ReceiveEffect DEF IInv, TypeOK
  <2>2. /\ tx'[m] \in TransactionRecord
        /\ Concludes(m, tx[m], r) => tx'[m] = Free
        /\ ~Concludes(m, tx[m], r) =>
             /\ tx'[m].retrans_counter = tx[m].retrans_counter
             /\ \/ tx'[m].wait = tx[m].wait + COAP_RESPONSE_TIMEOUT
                \/ tx'[m].wait = COAP_RESPONSE_TIMEOUT * tx[m].retrans_counter
    BY <2>1, ResponseEffect
  <2>3. TypeOK'
    BY <1>1, <2>1, <2>2 DEF IInv, TypeOK
  <2>4. tx'[m].retrans_counter # 1
    BY <2>2 DEF IInv, NeverOne, Free
  <2>5. NeverOne'
    BY <2>1, <2>4 DEF IInv, NeverOne, TypeOK
  <2>6. ASSUME Live(tx'[m]), tx'[m].retrans_counter > 0
        PROVE  tx'[m].wait + lag >= 1
    <3>1. tx'[m] # Free /\ tx[m].retrans_counter > 0 /\ lag \in Nat
      BY <2>2, <2>6, TransactionAssumption DEF Live, Free, IInv, TypeOK
    <3>2. CASE tx'[m].wait = tx[m].wait + COAP_RESPONSE_TIMEOUT
      BY <2>1, <3>1, <3>2, TransactionConstants DEF IInv, NotOverdue, TransactionRecord
    <3>3. CASE tx'[m].wait = COAP_RESPONSE_TIMEOUT * tx[m].retrans_counter
      <4>1. tx[m].retrans_counter \in Nat /\ tx[m].retrans_counter >= 2
        BY <2>1, <3>1, TransactionConstants DEF IInv, NeverOne, TransactionRecord
      <4> DEFINE delay == COAP_RESPONSE_TIMEOUT * tx[m].retrans_counter
      <4>2. delay \in Nat /\ delay >= 2 * COAP_RESPONSE_TIMEOUT
        BY <4>1, TimeoutGrows
      <4> HIDE DEF delay
      <4>3. tx'[m].wait = delay
        BY <3>3 DEF delay
      <4>4. QED BY <3>1, <4>2, <4>3, TransactionConstants
    <3>4. QED BY <2>2, <3>1, <3>2, <3>3
  <2>7. NotOverdue'
    BY <1>1, <2>1, <2>6 DEF IInv, NotOverdue, TypeOK
  <2>8. QED BY <2>3, <2>5, <2>7 DEF IInv
<1>4. QED BY <1>2, <1>3

\* A second of the clock preserves the invariant.
LEMMA TickInv ==
  ASSUME IInv, Tick
  PROVE  IInv'
<1>1. tx' \in [Mids -> TransactionRecord]
  BY SecondEffect DEF Tick, IInv, TypeOK
<1>2. TypeOK'
  BY <1>1, TransactionAssumption DEF Tick, IInv, TypeOK
<1>3. NeverOne'
  BY SecondEffect DEF Tick, IInv, TypeOK, NeverOne
<1>4. NotOverdue'
  <2> SUFFICES ASSUME NEW k \in Mids, tx'[k].retrans_counter > 0, Live(tx'[k])
               PROVE  tx'[k].wait + lag' >= 1
    BY DEF NotOverdue
  <2>1. /\ tx[k] \in TransactionRecord /\ tx'[k] = Second(tx[k])
        /\ lag' = lag + 1 /\ lag \in Nat
    BY TransactionAssumption DEF Tick, IInv, TypeOK
  <2>2. tx'[k].wait = tx[k].wait - 1 /\ Live(tx[k]) /\ tx[k].retrans_counter > 0
    BY <2>1, SecondEffect DEF Live
  <2>3. tx[k].wait + lag >= 1 /\ tx[k].wait \in Int
    BY <2>1, <2>2 DEF IInv, NotOverdue, TransactionRecord
  <2>4. QED BY <2>1, <2>2, <2>3
<1>5. QED BY <1>2, <1>3, <1>4 DEF IInv

\* Every step preserves the invariant.
LEMMA NextInv == IInv /\ [Next]_vars => IInv'
<1> SUFFICES ASSUME IInv, [Next]_vars PROVE IInv'
  OBVIOUS
<1>1. CASE \E m \in Mids : Request(m)
  BY <1>1, RequestInv
<1>2. CASE \E failed \in SUBSET Mids : Step(failed)
  BY <1>2, StepInv
<1>3. CASE \E m \in Mids : \E r \in Replies(m, Codes, Mids \cup {None}) : Receive(m, r)
  BY <1>3, ReceiveInv
<1>4. CASE Tick
  BY <1>4, TickInv
<1>5. CASE UNCHANGED vars
  BY <1>5 DEF vars, IInv, TypeOK, NeverOne, NotOverdue
<1>6. QED BY <1>1, <1>2, <1>3, <1>4, <1>5 DEF Next

\* The invariant holds in every reachable state.
LEMMA Invariant == Spec => []IInv
  BY InitInv, NextInv, PTL DEF Spec

\* The records, verdicts and counts keep their types: no request is counted
\* beyond COAP_MAX_RETRANSMIT transmissions.
THEOREM TypeCorrect == Spec => []TypeOK
  BY Invariant, PTL DEF IInv

\* No request is overdue by more than the lag of the main loop.
THEOREM DeadlinesKept == Spec => []NotOverdue
  BY Invariant, PTL DEF IInv

-----------------------------------------------------------------------------
(* Paced transmissions: an action property, from the same invariant.       *)

\* A step that transmits a request leaves its next deadline in the future.
LEMMA PacedStep ==
  ASSUME IInv, IInv', [Next]_vars, NEW m \in Mids,
         Live(tx'[m]), tx'[m].retrans_counter > tx[m].retrans_counter
  PROVE  tx'[m].wait > 0
<1>1. tx[m] \in TransactionRecord /\ tx'[m] \in TransactionRecord
  BY DEF IInv, TypeOK
<1>2. ASSUME NEW k \in Mids, Request(k) PROVE tx'[m].wait > 0
  <2>1. k = m
    BY <1>1, <1>2, RequestEffect DEF TransactionRecord
  <2>2. tx'[m].retrans_counter = 2
    BY <1>1, <1>2, <2>1, RequestEffect DEF TransactionRecord
  <2>3. QED BY <1>2, <2>1, <2>2, RequestEffect, TransactionConstants
<1>3. ASSUME NEW failed \in SUBSET Mids, Step(failed) PROVE tx'[m].wait > 0
  <2>1. tx'[m] # Free /\ tx'[m] # tx[m]
    BY <1>1 DEF Live, Free, TransactionRecord
  <2>2. QED BY <1>1, <1>3, <2>1, StepEffect DEF TransactionRecord
<1>4. ASSUME NEW k \in Mids, NEW r \in Replies(k, Codes, Mids \cup {None}), Receive(k, r)
      PROVE  tx'[m].wait > 0
  <2>1. tx'[m].retrans_counter = tx[m].retrans_counter \/ tx'[m] = Free
    <3>1. CASE UNCHANGED <<tx, verdict>>
      BY <3>1
    <3>2. CASE ~UNCHANGED <<tx, verdict>> /\ k # m
      BY <1>4, <3>2, ReceiveEffect
    <3>3. CASE ~UNCHANGED <<tx, verdict>> /\ k = m
      <4>1. tx'[m] = transaction_handle_response(m, tx[m], r)
        BY <1>4, <3>3, ReceiveEffect
      <4>2. QED BY <1>1, <4>1, ResponseEffect
    <3>4. QED BY <3>1, <3>2, <3>3
  <2>2. QED BY <1>1, <2>1 DEF Live, Free, TransactionRecord
<1>5. ASSUME Tick PROVE tx'[m].wait > 0
  BY <1>1, <1>5, SecondEffect DEF Tick, TransactionRecord
<1>6. ASSUME UNCHANGED vars PROVE tx'[m].wait > 0
  BY <1>1, <1>6 DEF vars, TransactionRecord
<1>7. QED BY <1>2, <1>3, <1>4, <1>5, <1>6 DEF Next

\* No two transmissions of a request without time between them.
THEOREM TransmissionsPaced == Spec => PacedTransmissions
<1>1. IInv /\ IInv' /\ [Next]_vars =>
        [\A m \in Mids :
           Live(tx'[m]) /\ tx'[m].retrans_counter > tx[m].retrans_counter
             => tx'[m].wait > 0]_vars
  BY PacedStep
<1>2. QED BY <1>1, Invariant, PTL DEF Spec, PacedTransmissions

-----------------------------------------------------------------------------
(* The refinement of Exchange.  A request is given up either after all its *)
(* transmissions or because it was acknowledged, and an acknowledgement is *)
(* a datagram of the exchange that is no longer in flight.                 *)

Most(m) == Tries(tx[m]) * Copies

FlightBound ==
  \A m \in Mids : Live(tx[m]) =>
     /\ inFlight[m] <= Most(m)
     /\ ack_received(tx[m]) => inFlight[m] < Most(m)

\* One transmission more may bring back Copies datagrams more.
LEMMA OneMoreTry ==
  ASSUME NEW n \in Nat
  PROVE  /\ n * Copies \in Nat
         /\ (n + 1) * Copies = n * Copies + Copies
  BY TransactionAssumption

\* The transmissions of a request, and what they may bring back, are numbers.
LEMMA TriesType ==
  ASSUME NEW t \in TransactionRecord
  PROVE  /\ Tries(t) \in Nat
         /\ Tries(t) * Copies \in Nat
  <1>1. Tries(t) \in Nat
    BY TransactionConstants DEF Tries, TransactionRecord
  <1>2. QED BY <1>1, TransactionAssumption

\* Every step preserves the bound on the datagrams in flight.
LEMMA FlightNext == IInv /\ IInv' /\ FlightBound /\ [Next]_vars => FlightBound'
<1> SUFFICES ASSUME IInv, IInv', FlightBound, [Next]_vars, NEW m \in Mids, Live(tx'[m])
             PROVE  /\ inFlight'[m] <= Tries(tx'[m]) * Copies
                    /\ ack_received(tx'[m]) => inFlight'[m] < Tries(tx'[m]) * Copies
  BY DEF FlightBound, Most
<1>1. /\ tx[m] \in TransactionRecord /\ tx'[m] \in TransactionRecord
      /\ inFlight[m] \in Nat /\ inFlight'[m] \in Nat
      /\ Tries(tx[m]) \in Nat /\ Tries(tx[m]) * Copies \in Nat
      /\ Tries(tx'[m]) * Copies \in Nat
  BY TriesType DEF IInv, TypeOK
<1>2. Live(tx[m]) => /\ inFlight[m] <= Tries(tx[m]) * Copies
                     /\ ack_received(tx[m]) => inFlight[m] < Tries(tx[m]) * Copies
  BY DEF FlightBound, Most
<1>3. CASE tx'[m] = tx[m] /\ inFlight'[m] = inFlight[m]
  BY <1>2, <1>3
<1>4. ASSUME NEW k \in Mids, Request(k)
      PROVE  /\ inFlight'[m] <= Tries(tx'[m]) * Copies
             /\ ack_received(tx'[m]) => inFlight'[m] < Tries(tx'[m]) * Copies
  <2>1. CASE k = m
    BY <1>1, <1>4, <2>1, RequestEffect DEF ack_received
  <2>2. CASE k # m
    BY <1>3, <1>4, <2>2, RequestEffect
  <2>3. QED BY <2>1, <2>2
<1>5. ASSUME NEW failed \in SUBSET Mids, Step(failed)
      PROVE  /\ inFlight'[m] <= Tries(tx'[m]) * Copies
             /\ ack_received(tx'[m]) => inFlight'[m] < Tries(tx'[m]) * Copies
  <2>1. CASE Due(tx[m]) /\ m \notin failed /\ Transmits(tx[m])
    <3>1. /\ tx'[m] = transaction_send(tx[m])
          /\ inFlight'[m] = inFlight[m] + Copies
      BY <1>5, <2>1 DEF Step, IInv, TypeOK
    <3>2. Live(tx[m]) /\ ~ack_received(tx[m])
      BY <2>1 DEF Due, Transmits
    <3>3. tx'[m].state = tx[m].state /\ Tries(tx'[m]) = Tries(tx[m]) + 1
      <4>1. /\ tx'[m].state = tx[m].state
            /\ tx'[m].retrans_counter = (IF tx[m].retrans_counter = 0 THEN 2
                                         ELSE tx[m].retrans_counter + 1)
        BY <1>1, <2>1, <3>1, SendEffect
      <4>2. QED BY <1>1, <4>1 DEF Tries, TransactionRecord
    <3>4. Tries(tx'[m]) * Copies = Tries(tx[m]) * Copies + Copies
      BY <1>1, <3>3, OneMoreTry
    <3>5. QED
      BY <1>1, <1>2, <3>1, <3>2, <3>3, <3>4, TransactionAssumption DEF ack_received
  <2>2. CASE Due(tx[m]) /\ m \notin failed /\ ~Transmits(tx[m])
    <3>1. tx'[m] = transaction_send(tx[m])
      BY <1>5, <2>2 DEF Step
    <3>2. tx'[m] = Free
      BY <1>1, <2>2, <3>1, SendEffect
    <3>3. QED BY <3>2 DEF Free, Live
  <2>3. CASE ~(Due(tx[m]) /\ m \notin failed)
    BY <1>3, <1>5, <2>3 DEF Step
  <2>4. QED BY <2>1, <2>2, <2>3
<1>6. ASSUME NEW k \in Mids, NEW r \in Replies(k, Codes, Mids \cup {None}), Receive(k, r)
      PROVE  /\ inFlight'[m] <= Tries(tx'[m]) * Copies
             /\ ack_received(tx'[m]) => inFlight'[m] < Tries(tx'[m]) * Copies
  <2>1. CASE k # m
    <3>1. tx'[m] = tx[m]
      BY <1>6, <2>1, ReceiveEffect DEF IInv, TypeOK
    <3>2. inFlight'[m] = inFlight[m]
      BY <1>6, <2>1 DEF Receive, IInv, TypeOK
    <3>3. QED BY <1>3, <3>1, <3>2
  <2>2. CASE k = m
    <3>1. inFlight'[m] = inFlight[m] - 1
      BY <1>6, <2>2 DEF Receive, IInv, TypeOK
    <3>2. CASE tx'[m] = tx[m]
      BY <1>1, <1>2, <3>1, <3>2
    <3>3. CASE tx'[m] # tx[m]
      <4>1. Live(tx[m]) /\ tx'[m] = transaction_handle_response(m, tx[m], r)
        BY <1>6, <2>2, <3>3, ReceiveEffect
      <4>2. tx'[m] # Free
        BY DEF Live, Free
      <4>3. tx'[m].retrans_counter = tx[m].retrans_counter
        BY <1>1, <4>1, <4>2, ResponseEffect
      <4>4. Tries(tx'[m]) = Tries(tx[m])
        BY <4>3 DEF Tries
      <4>5. QED BY <1>1, <1>2, <3>1, <4>1, <4>4
    <3>4. QED BY <3>2, <3>3
  <2>3. QED BY <2>1, <2>2
<1>7. ASSUME Tick
      PROVE  /\ inFlight'[m] <= Tries(tx'[m]) * Copies
             /\ ack_received(tx'[m]) => inFlight'[m] < Tries(tx'[m]) * Copies
  <2>1. tx'[m] = Second(tx[m]) /\ inFlight'[m] = inFlight[m]
    BY <1>7 DEF Tick
  <2>2. tx'[m].state = tx[m].state /\ Tries(tx'[m]) = Tries(tx[m])
    BY <1>1, <2>1, SecondEffect DEF Tries
  <2>3. QED BY <1>2, <2>1, <2>2 DEF Live, ack_received
<1>8. QED BY <1>3, <1>4, <1>5, <1>6, <1>7 DEF Next, vars

\* The bound on the datagrams in flight holds in every reachable state.
LEMMA FlightInvariant == Spec => []FlightBound
<1>1. Init => FlightBound
  BY DEF Init, FlightBound, Live, Free
<1>2. QED BY <1>1, FlightNext, Invariant, PTL DEF Spec

\* The empty list is an exchange in which nothing is open.
LEMMA RefineInit == Init => X!Init
  BY DEF Init, X!Init, Open, Live, Free, Tries

\* A new request opens its exchange.
LEMMA RefineRequest ==
  ASSUME IInv, IInv', NEW m \in Mids, Request(m)
  PROVE  X!Begin(m)
<1>1. m \notin Open /\ verdict' = [verdict EXCEPT ![m] = "none"]
  BY DEF Request, Open
<1>2. Open' = Open \cup {m}
  BY RequestEffect DEF Open, Live
<1>3. PICK n \in {0, 1} : Tries(tx'[m]) = n
  BY RequestEffect DEF Tries
<1>4. [k \in Mids |-> Tries(tx[k])]' = [[k \in Mids |-> Tries(tx[k])] EXCEPT ![m] = n]
  BY <1>3, RequestEffect
<1>5. inFlight' = [inFlight EXCEPT ![m] = n * Copies]
  <2>1. inFlight' \in [Mids -> Nat] /\ inFlight \in [Mids -> Nat]
    BY DEF IInv, TypeOK
  <2>2. QED BY <1>3, <2>1, RequestEffect
<1>6. QED BY <1>1, <1>2, <1>3, <1>4, <1>5 DEF X!Begin

\* lwm2m_step polls the exchanges: it transmits some and gives up others.
LEMMA RefineStep ==
  ASSUME IInv, IInv', FlightBound, NEW failed \in SUBSET Mids, Step(failed)
  PROVE  \E S, T \in SUBSET Open : X!Poll(S, T)
<1> DEFINE due == {m \in Mids : Due(tx[m])} \ failed
           S == {m \in due : Transmits(tx[m])}
           T == {m \in due : ~Transmits(tx[m])}
<1>1. S \in SUBSET Open /\ T \in SUBSET Open /\ S \cap T = {}
  BY DEF Due, Open
<1>2. ASSUME NEW m \in Mids
      PROVE  /\ tx[m] \in TransactionRecord
             /\ tx'[m] = IF m \in due THEN transaction_send(tx[m]) ELSE tx[m]
  BY DEF Step, IInv, TypeOK
<1>3. ASSUME NEW m \in S
      PROVE  /\ Tries(tx[m]) < COAP_MAX_RETRANSMIT
             /\ Tries(tx'[m]) = Tries(tx[m]) + 1
             /\ Live(tx'[m])
  <2>1. /\ tx[m] \in TransactionRecord /\ tx[m].retrans_counter <= COAP_MAX_RETRANSMIT
        /\ Transmits(tx[m]) /\ Live(tx[m]) /\ tx'[m] = transaction_send(tx[m])
    BY <1>2 DEF Transmits, Due
  <2>2. /\ tx'[m].state = tx[m].state
        /\ tx'[m].retrans_counter = (IF tx[m].retrans_counter = 0 THEN 2
                                     ELSE tx[m].retrans_counter + 1)
    BY <2>1, SendEffect
  <2>3. QED BY <2>1, <2>2, TransactionConstants DEF Tries, TransactionRecord, Live
<1>4. ASSUME NEW m \in T
      PROVE  /\ Tries(tx[m]) = COAP_MAX_RETRANSMIT \/ inFlight[m] < Tries(tx[m]) * Copies
             /\ tx'[m] = Free
  <2>1. /\ tx[m] \in TransactionRecord /\ Live(tx[m]) /\ ~Transmits(tx[m])
        /\ tx'[m] = transaction_send(tx[m])
    BY <1>2 DEF Due
  <2>2. tx'[m] = Free
    BY <2>1, SendEffect
  <2>3. CASE ack_received(tx[m])
    BY <2>1, <2>2, <2>3 DEF FlightBound, Most
  <2>4. CASE ~ack_received(tx[m])
    BY <2>1, <2>2, <2>4, TransactionConstants DEF Transmits, TransactionRecord, Tries
  <2>5. QED BY <2>3, <2>4
<1>5. Open' = Open \ T
  <2>1. \A m \in T : ~Live(tx'[m])
    BY <1>4 DEF Free, Live
  <2>2. \A m \in S : Live(tx[m]) /\ Live(tx'[m])
    BY <1>3 DEF Due
  <2>3. \A m \in Mids : m \notin S /\ m \notin T => tx'[m] = tx[m]
    BY <1>2
  <2>4. S \cap T = {}
    OBVIOUS
  <2> HIDE DEF S, T, due
  <2>5. QED BY <2>1, <2>2, <2>3, <2>4 DEF Open
<1>6. verdict' = [m \in Mids |-> IF m \in T THEN "timeout" ELSE verdict[m]]
  BY DEF Step
<1>7. [k \in Mids |-> Tries(tx[k])]'
        = [m \in Mids |-> IF m \in S THEN [k \in Mids |-> Tries(tx[k])][m] + 1
                         ELSE IF m \in T THEN 0 ELSE [k \in Mids |-> Tries(tx[k])][m]]
  <2>1. \A m \in T : Tries(tx'[m]) = 0
    BY <1>4 DEF Free, Tries
  <2>2. \A m \in Mids : m \notin S /\ m \notin T => tx'[m] = tx[m]
    BY <1>2
  <2>3. QED BY <1>3, <2>1, <2>2
<1>8. inFlight' = [m \in Mids |-> IF m \in S THEN inFlight[m] + Copies ELSE inFlight[m]]
  BY DEF Step
<1> HIDE DEF S, T, due
<1>9. X!Poll(S, T)
  <2>1. \A m \in S : m \in Mids /\ [k \in Mids |-> Tries(tx[k])][m] = Tries(tx[m])
    BY <1>1 DEF Open
  <2>2. \A m \in T : m \in Mids /\ [k \in Mids |-> Tries(tx[k])][m] = Tries(tx[m])
    BY <1>1 DEF Open
  <2>3. \A m \in S : [k \in Mids |-> Tries(tx[k])][m] < COAP_MAX_RETRANSMIT
    BY <1>3, <2>1
  <2>4. \A m \in T : \/ [k \in Mids |-> Tries(tx[k])][m] = COAP_MAX_RETRANSMIT
                    \/ inFlight[m] < [k \in Mids |-> Tries(tx[k])][m] * Copies
    BY <1>4, <2>2
  <2>5. QED BY <1>1, <1>5, <1>6, <1>7, <1>8, <2>3, <2>4 DEF X!Poll, X!Heard
<1>10. QED BY <1>1, <1>9

\* A datagram is taken by its own exchange or ignored.
LEMMA RefineReceive ==
  ASSUME IInv, IInv', NEW m \in Mids, NEW r \in Replies(m, Codes, Mids \cup {None}),
         Receive(m, r)
  PROVE  X!Datagram(m)
<1> DEFINE tries == [k \in Mids |-> Tries(tx[k])]
<1>1. /\ tx \in [Mids -> TransactionRecord] /\ tx' \in [Mids -> TransactionRecord]
      /\ inFlight[m] > 0 /\ inFlight' = [inFlight EXCEPT ![m] = @ - 1]
  BY DEF Receive, IInv, TypeOK
<1>2. CASE UNCHANGED <<tx, verdict>>
  <2>1. UNCHANGED <<Open, verdict, tries>>
    BY <1>2 DEF Open
  <2>2. QED BY <1>1, <2>1 DEF X!Datagram
<1>3. CASE ~UNCHANGED <<tx, verdict>>
  <2>1. /\ Live(tx[m]) /\ tx'[m] = transaction_handle_response(m, tx[m], r)
        /\ \A j \in Mids : j # m => tx'[j] = tx[j]
        /\ verdict' = [verdict EXCEPT
                         ![m] = IF ~Concludes(m, tx[m], r) THEN @
                                ELSE IF IsReset(m, tx[m], r) THEN "reset" ELSE "response"]
    BY <1>3, ReceiveEffect
  <2>2. CASE Concludes(m, tx[m], r)
    <3>1. tx'[m] = Free
      BY <1>1, <2>1, <2>2, ResponseEffect
    <3>2. m \in Open /\ Open' = Open \ {m}
      BY <2>1, <3>1 DEF Open, Live, Free
    <3>3. tries' = [tries EXCEPT ![m] = 0]
      <4>1. Tries(tx'[m]) = 0
        BY <3>1 DEF Free, Tries
      <4>2. \A j \in Mids : Tries(tx'[j]) = IF j = m THEN 0 ELSE Tries(tx[j])
        BY <2>1, <4>1
      <4>3. QED BY <4>2
    <3>4. \E v \in {"response", "reset"} : verdict' = [verdict EXCEPT ![m] = v]
      BY <2>1, <2>2
    <3>5. QED BY <1>1, <3>2, <3>3, <3>4 DEF X!Datagram
  <2>3. CASE ~Concludes(m, tx[m], r)
    <3>1. /\ tx'[m].retrans_counter = tx[m].retrans_counter
          /\ tx'[m].state \in {"pending", "acked"}
      BY <1>1, <2>1, <2>3, ResponseEffect
    <3>2. Open' = Open
      BY <2>1, <3>1 DEF Open, Live
    <3>3. tries' = tries
      BY <2>1, <3>1 DEF Tries
    <3>4. verdict' = verdict
      BY <2>1, <2>3 DEF IInv, TypeOK
    <3>5. QED BY <1>1, <3>2, <3>3, <3>4 DEF X!Datagram
  <2>4. QED BY <2>2, <2>3
<1>4. QED BY <1>2, <1>3

\* Time is invisible to the exchange.
LEMMA RefineTick ==
  ASSUME IInv, Tick
  PROVE  UNCHANGED X!vars
<1>1. ASSUME NEW m \in Mids
      PROVE  Live(tx'[m]) = Live(tx[m]) /\ Tries(tx'[m]) = Tries(tx[m])
  <2>1. tx[m] \in TransactionRecord /\ tx'[m] = Second(tx[m])
    BY <1>1 DEF Tick, IInv, TypeOK
  <2>2. tx'[m].state = tx[m].state /\ tx'[m].retrans_counter = tx[m].retrans_counter
    BY <2>1, SecondEffect
  <2>3. QED BY <2>2 DEF Live, Tries
<1>2. Open' = Open
  BY <1>1 DEF Open
<1>3. [k \in Mids |-> Tries(tx[k])]' = [k \in Mids |-> Tries(tx[k])]
  BY <1>1
<1>4. QED BY <1>2, <1>3 DEF Tick, X!vars

\* Every step of the list is a step of the exchange or none.
LEMMA RefineNext == IInv /\ IInv' /\ FlightBound /\ [Next]_vars => [X!Next]_(X!vars)
<1> SUFFICES ASSUME IInv, IInv', FlightBound, [Next]_vars PROVE [X!Next]_(X!vars)
  OBVIOUS
<1>1. CASE \E m \in Mids : Request(m)
  BY <1>1, RefineRequest DEF X!Next
<1>2. CASE \E failed \in SUBSET Mids : Step(failed)
  BY <1>2, RefineStep DEF X!Next
<1>3. CASE \E m \in Mids : \E r \in Replies(m, Codes, Mids \cup {None}) : Receive(m, r)
  BY <1>3, RefineReceive DEF X!Next
<1>4. CASE Tick
  BY <1>4, RefineTick
<1>5. CASE UNCHANGED vars
  BY <1>5 DEF vars, X!vars, Open
<1>6. QED BY <1>1, <1>2, <1>3, <1>4, <1>5 DEF Next

\* The transaction list implements the abstract exchange: at most
\* COAP_MAX_RETRANSMIT transmissions, one verdict per request, and no request
\* given up before its transmissions are spent unless its peer was heard.
THEOREM TransactionImplementsExchange == Spec => ImplementsExchange
  BY RefineInit, RefineNext, Invariant, FlightInvariant, PTL
     DEF Spec, ImplementsExchange, X!Spec
=============================================================================
