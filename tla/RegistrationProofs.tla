-------------------------- MODULE RegistrationProofs --------------------------
(***************************************************************************)
(* Proofs about Registration and RegistrationSystem for every set of       *)
(* servers, all lifetimes and timeouts, whatever allocations fail and      *)
(* whatever the application calls.                                         *)
(***************************************************************************)
EXTENDS RegistrationSystem, RegistrationClock, TransactionOpsProofs, TLAPS

\* The parts of a request's identity.
LEMMA RequestParts ==
  ASSUME NEW x \in Requests
  PROVE  x[1] \in Servers /\ x[2] \in Kinds /\ x[3] \in 1 .. Places
  BY DEF Requests

\* The bound of an age is a number.
LEMMA MaxAgeType == \A s \in Servers : MaxAge(s) \in Nat
  BY RegistrationAssumption DEF MaxAge

\* A callback given the NULL message ends the pending state of its kind and
\* leaves every other status alone.
LEMMA GivenUp ==
  ASSUME NEW st, NEW kind \in Kinds, NEW u, u = callback(kind, st, None)
  PROVE  /\ st = Pending[kind] => u = "REG_FAILED"
         /\ st # Pending[kind] => u = st
  BY RegistrationAssumption DEF callback, Kinds, Pending, prv_handleRegistrationReply,
         prv_handleRegistrationUpdateReply

\* A callback given an answer ends the pending state of its kind.
LEMMA Answered ==
  ASSUME NEW st, NEW kind \in Kinds, NEW code, NEW u, u = callback(kind, st, code)
  PROVE  /\ st = Pending[kind] => u \in {"REGISTERED", "REG_FAILED"}
         /\ st # Pending[kind] => u = st
  BY DEF callback, Kinds, Pending, prv_handleRegistrationReply,
         prv_handleRegistrationUpdateReply

\* A server needs at most one request at a time.
LEMMA NeedsOne ==
  ASSUME NEW s, NEW st, NEW a, NEW kind \in Needs(s, st, a)
  PROVE  kind \in Kinds /\ Needs(s, st, a) = {kind}
  BY DEF Needs, Kinds

-----------------------------------------------------------------------------
(* PendingHasRequest is inductive together with the types of the           *)
(* variables: the callback of a concluded request ends the pending state   *)
(* of its kind, so a state that goes on pending keeps the request that     *)
(* justified it.  Nothing in this depends on dates, which is why it also   *)
(* holds on a clock that is set back and forth (RegistrationClock).        *)

\* The type invariant without the bounds of the ages.
ClientTypes ==
  /\ status \in [Servers -> {"DEREGISTERED", "REG_PENDING", "REGISTERED",
                             "REG_UPDATE_PENDING", "REG_FAILED"}]
  /\ age \in [Servers -> Int]
  /\ location \in [Servers -> Requests \cup {None}]
  /\ tx \in [Requests -> TransactionRecord]
  /\ inFlight \in [Requests -> Nat]
  /\ lag \in 0 .. MaxLag

PInv == ClientTypes /\ PendingHasRequest

\* What the type invariant adds while nobody moves the clock.
AgeOK == age \in [Servers -> Nat] /\ \A s \in Servers : age[s] <= MaxAge(s)

IInv == TypeOK /\ PendingHasRequest

\* The two halves of the invariant.
LEMMA Halves == IInv <=> PInv /\ AgeOK
<1>1. AgeOK => age \in [Servers -> Int]
  BY DEF AgeOK
<1>2. QED BY <1>1 DEF IInv, PInv, TypeOK, ClientTypes, AgeOK

\* lwm2m_start leaves no request and nothing pending.
LEMMA InitPending == Init => PInv
  BY FreeType, RegistrationAssumption DEF Init, PInv, ClientTypes, PendingHasRequest

\* A request sent for the first time is live, counted and well formed.
LEMMA FirstSend ==
  ASSUME NEW u, u = transaction_send(transaction_new)
  PROVE  /\ u \in TransactionRecord /\ Live(u) /\ u.retrans_counter = 2
<1>1. Transmits(transaction_new)
  BY NewType, TransactionConstants DEF Transmits, ack_received
<1>2. QED BY <1>1, NewType, SendEffect DEF Live

\* The loop keeps a request, sends it again with a higher count, or removes it.
LEMMA LoopEffect ==
  ASSUME PInv, NEW due, NEW x \in Requests, NEW list, list = listAfter(due)
  PROVE  /\ list[x] \in TransactionRecord
         /\ \/ list[x] = tx[x]
            \/ /\ x \in due /\ Transmits(tx[x])
               /\ list[x].state = tx[x].state /\ list[x].retrans_counter > 0
            \/ x \in due /\ ~Transmits(tx[x])
<1>1. tx[x] \in TransactionRecord
  BY DEF PInv, ClientTypes
<1>2. CASE x \notin due
  BY <1>1, <1>2 DEF listAfter
<1>3. CASE x \in due
  <2>1. list[x] = transaction_send(tx[x])
    BY <1>3 DEF listAfter
  <2>2. CASE Transmits(tx[x])
    <3>1. /\ list[x] \in TransactionRecord /\ list[x].state = tx[x].state
          /\ list[x].retrans_counter = (IF tx[x].retrans_counter = 0 THEN 2
                                         ELSE tx[x].retrans_counter + 1)
      BY <1>1, <2>1, <2>2, SendEffect
    <3>2. QED BY <1>1, <1>3, <2>2, <3>1, TransactionConstants DEF TransactionRecord
  <2>3. CASE ~Transmits(tx[x])
    BY <1>1, <1>3, <2>1, <2>3, SendEffect
  <2>4. QED BY <2>2, <2>3
<1>4. QED BY <1>2, <1>3

\* The callbacks of the requests given up leave a status alone or end its pending
\* state; a state that stays pending lost no request of its kind.
LEMMA TimeoutEffect ==
  ASSUME PInv, NEW gone \in SUBSET Requests, NEW s \in Servers,
         NEW st, st = statusAfter(gone)
  PROVE  /\ st[s] = status[s] \/ st[s] = "REG_FAILED"
         /\ \A x \in gone : x[1] = s => st[s] # Pending[x[2]]
<1> DEFINE lost(kind) == \E x \in gone : x[1] = s /\ x[2] = kind
           mid == IF lost("register") THEN callback("register", status[s], None) ELSE status[s]
<1>1. st[s] = IF lost("update") THEN callback("update", mid, None) ELSE mid
  BY DEF statusAfter
<1>2. /\ mid = status[s] \/ mid = "REG_FAILED"
      /\ lost("register") => mid # "REG_PENDING"
  BY RegistrationAssumption DEF callback, prv_handleRegistrationReply
<1>3. /\ st[s] = mid \/ st[s] = "REG_FAILED"
      /\ lost("update") => st[s] # "REG_UPDATE_PENDING"
  <2> HIDE DEF lost, mid
  <2>1. QED BY <1>1, RegistrationAssumption DEF callback, prv_handleRegistrationUpdateReply
<1>4. ASSUME NEW x \in gone, x[1] = s PROVE st[s] # Pending[x[2]]
  <2>1. x[2] \in Kinds
    BY RequestParts
  <2>2. CASE x[2] = "register"
    <3>1. lost("register")
      BY <1>4, <2>2
    <3>2. QED BY <1>2, <1>3, <2>2, <3>1 DEF Pending
  <2>3. CASE x[2] = "update"
    <3>1. lost("update")
      BY <1>4, <2>3
    <3>2. QED BY <1>3, <2>3, <3>1 DEF Pending
  <2>4. QED BY <2>1, <2>2, <2>3 DEF Kinds
<1>5. QED BY <1>2, <1>3, <1>4

\* lwm2m_step preserves the invariant.
LEMMA StepPending ==
  ASSUME PInv, NEW failed \in SUBSET Requests, NEW outcome, lwm2m_step(failed, outcome)
  PROVE  PInv'
<1> DEFINE due == {x \in Requests : Due(tx[x])} \ failed
           gone == {x \in due : ~Transmits(tx[x])}
           list == listAfter(due)
           st == statusAfter(gone)
           a == [s \in Servers |-> IF st[s] = status[s] THEN age[s] ELSE 0]
           new == {x \in Requests : /\ x[2] \in Needs(x[1], st[x[1]], a[x[1]])
                                    /\ IsNew(list, x) /\ outcome[x[1]] # "none"}
           sent == {x \in new : outcome[x[1]] = "sent"}
<1>1. /\ tx' = [x \in Requests |-> IF x \in sent THEN transaction_send(transaction_new)
                                   ELSE IF x \in new THEN transaction_new ELSE list[x]]
      /\ inFlight' = [x \in Requests |-> IF x \in sent THEN Copies
                                         ELSE IF x \in gone \cup new THEN 0
                                         ELSE IF x \in due THEN inFlight[x] + Copies
                                         ELSE inFlight[x]]
      /\ status' = [s \in Servers |->
                      IF \E x \in sent : x[1] = s
                        THEN Pending[CHOOSE kind \in Needs(s, st[s], a[s]) : TRUE] ELSE st[s]]
      /\ age' = a /\ lag' = 0 /\ location' = location
  BY DEF lwm2m_step
<1>2. /\ gone \in SUBSET Requests /\ sent \subseteq new /\ new \subseteq Requests
      /\ \A x \in due : Live(tx[x])
      /\ \A x \in new : ~Live(list[x]) /\ x[2] \in Needs(x[1], st[x[1]], a[x[1]])
  BY DEF IsNew, Due
<1>3. ASSUME NEW x \in Requests
      PROVE  /\ list[x] \in TransactionRecord
             /\ x \notin gone /\ Live(tx[x]) =>
                  /\ Live(list[x])
                  /\ tx[x].retrans_counter > 0 => list[x].retrans_counter > 0
  BY LoopEffect DEF Live
<1>4. ASSUME NEW s \in Servers
      PROVE  /\ st[s] = status[s] \/ st[s] = "REG_FAILED"
             /\ \A x \in gone : x[1] = s => st[s] # Pending[x[2]]
  BY <1>2, TimeoutEffect
<1>5. a \in [Servers -> Int]
  BY DEF PInv, ClientTypes
<1> HIDE DEF due, gone, list, st, a, new, sent
<1>6. ASSUME NEW s \in Servers
      PROVE  \/ status'[s] = st[s]
             \/ \E x \in sent : x[1] = s /\ status'[s] = Pending[x[2]]
  <2>1. CASE \E x \in sent : x[1] = s
    <3>1. PICK x \in sent : x[1] = s
      BY <2>1
    <3>2. x[2] \in Needs(s, st[s], a[s])
      BY <1>2, <3>1
    <3>3. Needs(s, st[s], a[s]) = {x[2]}
      BY <3>2, NeedsOne
    <3>4. QED BY <1>1, <3>1, <3>3
  <2>2. CASE ~\E x \in sent : x[1] = s
    BY <1>1, <2>2
  <2>3. QED BY <2>1, <2>2
<1>7. tx' \in [Requests -> TransactionRecord]
  BY <1>1, <1>3, NewType, FirstSend
<1>8. inFlight' \in [Requests -> Nat]
  BY <1>1, RegistrationAssumption DEF PInv, ClientTypes
<1>9. status' \in [Servers -> {"DEREGISTERED", "REG_PENDING", "REGISTERED",
                              "REG_UPDATE_PENDING", "REG_FAILED"}]
  <2>1. \A x \in sent : Pending[x[2]] \in {"REG_PENDING", "REG_UPDATE_PENDING"}
    BY <1>2, RequestParts DEF Kinds, Pending
  <2>2. \A s \in Servers : status'[s] \in {"DEREGISTERED", "REG_PENDING", "REGISTERED",
                                           "REG_UPDATE_PENDING", "REG_FAILED"}
    BY <1>4, <1>6, <2>1 DEF PInv, ClientTypes
  <2>3. QED BY <1>1, <2>2
<1>10. ClientTypes'
  <2>1. age' \in [Servers -> Int]
    BY <1>1, <1>5
  <2>2. lag' \in 0 .. MaxLag
    BY <1>1, RegistrationAssumption
  <2>3. location' \in [Servers -> Requests \cup {None}]
    BY <1>1 DEF PInv, ClientTypes
  <2>4. QED BY <1>7, <1>8, <1>9, <2>1, <2>2, <2>3 DEF ClientTypes
<1>11. PendingHasRequest'
  <2> SUFFICES ASSUME NEW s \in Servers, status'[s] \in {"REG_PENDING", "REG_UPDATE_PENDING"}
               PROVE  \E x \in Requests : /\ x[1] = s /\ Live(tx'[x])
                        /\ Pending[x[2]] = status'[s] /\ tx'[x].retrans_counter > 0
    BY DEF PendingHasRequest, OpenRequests
  <2>1. CASE \E x \in sent : x[1] = s /\ status'[s] = Pending[x[2]]
    <3>1. PICK x \in sent : x[1] = s /\ status'[s] = Pending[x[2]]
      BY <2>1
    <3>2. x \in Requests /\ tx'[x] = transaction_send(transaction_new)
      BY <1>1, <1>2
    <3>3. Live(tx'[x]) /\ tx'[x].retrans_counter > 0
      BY <3>2, FirstSend
    <3>4. QED BY <3>1, <3>2, <3>3
  <2>2. CASE status'[s] = st[s]
    <3>1. st[s] = status[s]
      BY <1>4, <2>2
    <3>2. PICK x \in Requests : /\ x[1] = s /\ Live(tx[x]) /\ Pending[x[2]] = status[s]
                               /\ tx[x].retrans_counter > 0
      BY <2>2, <3>1 DEF PInv, PendingHasRequest, OpenRequests
    <3>3. x \notin gone
      BY <1>4, <3>1, <3>2
    <3>4. Live(list[x]) /\ list[x].retrans_counter > 0
      BY <1>3, <3>2, <3>3
    <3>5. tx'[x] = list[x]
      BY <1>1, <1>2, <3>4
    <3>6. QED BY <2>2, <3>1, <3>2, <3>4, <3>5
  <2>3. QED BY <1>6, <2>1, <2>2
<1>12. QED BY <1>10, <1>11 DEF PInv

\* A datagram preserves the invariant.
LEMMA PacketPending ==
  ASSUME PInv, NEW x \in Requests, NEW r, lwm2m_handle_packet(x, r)
  PROVE  PInv'
<1> DEFINE s == x[1]
           st == callback(x[2], status[s], r.code)
           concludes == Concerns(x, tx[x], r) /\ Concludes(x, tx[x], r)
<1>1. /\ inFlight[x] > 0
      /\ tx' = [tx EXCEPT ![x] = IF Concerns(x, @, r)
                                   THEN transaction_handle_response(x, @, r) ELSE @]
      /\ inFlight' = [inFlight EXCEPT ![x] = IF concludes THEN 0 ELSE @ - 1]
      /\ IF concludes /\ status[s] = Pending[x[2]]
           THEN /\ status' = [status EXCEPT ![s] = st]
                /\ age' = [age EXCEPT ![s] = 0]
                /\ \E l \in locations(x, st) : location' = [location EXCEPT ![s] = l]
           ELSE UNCHANGED <<status, age, location>>
      /\ lag' = lag
  BY DEF lwm2m_handle_packet
<1>2. s \in Servers /\ x[2] \in Kinds
  BY RequestParts
<1>3. /\ status[s] = Pending[x[2]] => st \in {"REGISTERED", "REG_FAILED"}
      /\ locations(x, st) \subseteq Requests \cup {None}
  <2>1. status[s] = Pending[x[2]] => st \in {"REGISTERED", "REG_FAILED"}
    BY <1>2, Answered
  <2>2. location[x[1]] \in Requests \cup {None}
    BY <1>2 DEF PInv, ClientTypes
  <2>3. QED BY <2>1, <2>2 DEF locations
<1>4. /\ tx[x] \in TransactionRecord /\ inFlight[x] \in Nat
      /\ \A y \in Requests : y # x => tx'[y] = tx[y]
      /\ tx'[x] = IF Concerns(x, tx[x], r) THEN transaction_handle_response(x, tx[x], r)
                                          ELSE tx[x]
  BY <1>1 DEF PInv, ClientTypes
<1>5. /\ tx'[x] \in TransactionRecord
      /\ ~concludes /\ Live(tx[x]) => /\ Live(tx'[x])
                                       /\ tx'[x].retrans_counter = tx[x].retrans_counter
  <2>1. CASE Concerns(x, tx[x], r)
    <3>1. tx'[x] = transaction_handle_response(x, tx[x], r)
      BY <1>4, <2>1
    <3>2. /\ tx'[x] \in TransactionRecord
          /\ ~Concludes(x, tx[x], r) => /\ tx'[x].state \in {"pending", "acked"}
                                        /\ tx'[x].retrans_counter = tx[x].retrans_counter
      BY <1>4, <3>1, ResponseEffect
    <3>3. QED BY <2>1, <3>2 DEF Live
  <2>2. CASE ~Concerns(x, tx[x], r)
    BY <1>4, <2>2
  <2>3. QED BY <2>1, <2>2
<1> HIDE DEF st, concludes
<1>6. ClientTypes'
  <2>1. tx' \in [Requests -> TransactionRecord]
    BY <1>1, <1>4, <1>5 DEF PInv, ClientTypes
  <2>2. inFlight' \in [Requests -> Nat]
    BY <1>1, <1>4 DEF PInv, ClientTypes
  <2>3. CASE UNCHANGED <<status, age, location>>
    BY <1>1, <2>1, <2>2, <2>3 DEF PInv, ClientTypes
  <2>4. CASE concludes /\ status[s] = Pending[x[2]]
    <3>1. PICK l \in Requests \cup {None} : location' = [location EXCEPT ![s] = l]
      BY <1>1, <1>3, <2>4
    <3>2. /\ status' = [status EXCEPT ![s] = st] /\ age' = [age EXCEPT ![s] = 0]
          /\ st \in {"REGISTERED", "REG_FAILED"}
      BY <1>1, <1>3, <2>4
    <3>3. age' \in [Servers -> Int]
      BY <1>2, <3>2 DEF PInv, ClientTypes
    <3>4. QED BY <1>1, <1>2, <2>1, <2>2, <3>1, <3>2, <3>3 DEF PInv, ClientTypes
  <2>5. QED BY <1>1, <2>3, <2>4
<1>7. PendingHasRequest'
  <2> SUFFICES ASSUME NEW k \in Servers, status'[k] \in {"REG_PENDING", "REG_UPDATE_PENDING"}
               PROVE  \E y \in Requests : /\ y[1] = k /\ Live(tx'[y])
                        /\ Pending[y[2]] = status'[k] /\ tx'[y].retrans_counter > 0
    BY DEF PendingHasRequest, OpenRequests
  <2>1. /\ status'[k] = status[k]
        /\ ~(concludes /\ s = k /\ status[k] = Pending[x[2]])
    BY <1>1, <1>2, <1>3 DEF PInv, ClientTypes
  <2>2. PICK y \in Requests : /\ y[1] = k /\ Live(tx[y]) /\ Pending[y[2]] = status[k]
                             /\ tx[y].retrans_counter > 0
    BY <2>1 DEF PInv, PendingHasRequest, OpenRequests
  <2>3. Live(tx'[y]) /\ tx'[y].retrans_counter > 0
    BY <1>4, <1>5, <2>1, <2>2
  <2>4. QED BY <2>1, <2>2, <2>3
<1>8. QED BY <1>6, <1>7 DEF PInv

\* An update asked for by the application preserves the invariant.
LEMMA UpdatePending ==
  ASSUME PInv, NEW s \in Servers, lwm2m_update_registration(s)
  PROVE  PInv'
<1>1. PICK outcome \in Outcomes(tx, s, "update"), x \in Requests :
        /\ x[1] = s /\ x[2] = "update" /\ IsNew(tx, x)
        /\ tx' = [tx EXCEPT ![x] = IF outcome = "sent" THEN transaction_send(transaction_new)
                                                       ELSE transaction_new]
        /\ inFlight' = [inFlight EXCEPT ![x] = IF outcome = "sent" THEN Copies ELSE 0]
        /\ status' = [status EXCEPT ![s] = IF outcome = "sent" THEN "REG_UPDATE_PENDING" ELSE @]
        /\ UNCHANGED <<age, location, lag>>
  BY DEF lwm2m_update_registration
<1>2. ~Live(tx[x]) /\ \A y \in Requests : y # x => tx'[y] = tx[y]
  BY <1>1 DEF IsNew, PInv, ClientTypes
<1>3. ClientTypes'
  <2>1. tx' \in [Requests -> TransactionRecord]
    BY <1>1, FirstSend, NewType DEF PInv, ClientTypes
  <2>2. inFlight' \in [Requests -> Nat]
    BY <1>1, RegistrationAssumption DEF PInv, ClientTypes
  <2>3. QED BY <1>1, <2>1, <2>2 DEF PInv, ClientTypes
<1>4. PendingHasRequest'
  <2> SUFFICES ASSUME NEW k \in Servers, status'[k] \in {"REG_PENDING", "REG_UPDATE_PENDING"}
               PROVE  \E y \in Requests : /\ y[1] = k /\ Live(tx'[y])
                        /\ Pending[y[2]] = status'[k] /\ tx'[y].retrans_counter > 0
    BY DEF PendingHasRequest, OpenRequests
  <2>1. CASE k = s /\ outcome = "sent"
    <3>1. tx'[x] = transaction_send(transaction_new) /\ status'[k] = "REG_UPDATE_PENDING"
      BY <1>1, <2>1 DEF PInv, ClientTypes
    <3>2. Live(tx'[x]) /\ tx'[x].retrans_counter > 0
      BY <3>1, FirstSend
    <3>3. QED BY <1>1, <2>1, <3>1, <3>2 DEF Pending
  <2>2. CASE ~(k = s /\ outcome = "sent")
    <3>1. status'[k] = status[k]
      BY <1>1, <2>2 DEF PInv, ClientTypes
    <3>2. PICK y \in Requests : /\ y[1] = k /\ Live(tx[y]) /\ Pending[y[2]] = status[k]
                               /\ tx[y].retrans_counter > 0
      BY <3>1 DEF PInv, PendingHasRequest, OpenRequests
    <3>3. tx'[y] = tx[y]
      BY <1>2, <3>2
    <3>4. QED BY <3>1, <3>2, <3>3
  <2>3. QED BY <2>1, <2>2
<1>5. QED BY <1>3, <1>4 DEF PInv

\* A second of the clock preserves the invariant.
LEMMA TickPending ==
  ASSUME PInv, Tick
  PROVE  PInv'
<1>1. ASSUME NEW x \in Requests
      PROVE  /\ tx'[x] \in TransactionRecord /\ tx'[x].state = tx[x].state
             /\ tx'[x].retrans_counter = tx[x].retrans_counter
  <2>1. tx'[x] = Second(tx[x]) /\ tx[x] \in TransactionRecord
    BY DEF Tick, PInv, ClientTypes
  <2>2. QED BY <2>1, SecondEffect
<1>2. ClientTypes'
  <2>1. tx' \in [Requests -> TransactionRecord]
    BY <1>1 DEF Tick
  <2>2. age' \in [Servers -> Int]
    BY MaxAgeType DEF Tick, PInv, ClientTypes
  <2>3. lag' \in 0 .. MaxLag
    BY RegistrationAssumption DEF Tick, PInv, ClientTypes
  <2>4. QED BY <2>1, <2>2, <2>3 DEF Tick, PInv, ClientTypes
<1>3. PendingHasRequest'
  <2> SUFFICES ASSUME NEW k \in Servers, status'[k] \in {"REG_PENDING", "REG_UPDATE_PENDING"}
               PROVE  \E y \in Requests : /\ y[1] = k /\ Live(tx'[y])
                        /\ Pending[y[2]] = status'[k] /\ tx'[y].retrans_counter > 0
    BY DEF PendingHasRequest, OpenRequests
  <2>1. status'[k] = status[k]
    BY DEF Tick
  <2>2. PICK y \in Requests : /\ y[1] = k /\ Live(tx[y]) /\ Pending[y[2]] = status[k]
                             /\ tx[y].retrans_counter > 0
    BY <2>1 DEF PInv, PendingHasRequest, OpenRequests
  <2>3. QED BY <1>1, <2>1, <2>2 DEF Live
<1>4. QED BY <1>2, <1>3 DEF PInv

\* A restart leaves nothing pending.
LEMMA RestartPending ==
  ASSUME PInv, lwm2m_start
  PROVE  PInv'
  BY FreeType DEF lwm2m_start, PInv, ClientTypes, PendingHasRequest

\* Every step of the client preserves the half that needs no steady clock.
LEMMA NextPending == PInv /\ [Next]_vars => PInv'
<1> SUFFICES ASSUME PInv, [Next]_vars PROVE PInv'
  OBVIOUS
<1>1. CASE AnyStep
  BY <1>1, StepPending DEF AnyStep
<1>2. CASE \E x \in Requests : \E r \in Replies(x, Codes, {None}) : lwm2m_handle_packet(x, r)
  BY <1>2, PacketPending
<1>3. CASE \E s \in Servers : lwm2m_update_registration(s)
  BY <1>3, UpdatePending
<1>4. CASE lwm2m_start
  BY <1>4, RestartPending
<1>5. CASE Tick
  BY <1>5, TickPending
<1>6. CASE UNCHANGED vars
  BY <1>6 DEF vars, PInv, ClientTypes, PendingHasRequest, OpenRequests
<1>7. QED BY <1>1, <1>2, <1>3, <1>4, <1>5, <1>6 DEF Next

\* A step starts an age again, lets it grow up to its bound or leaves it alone.
LEMMA NextAge == AgeOK /\ [Next]_vars => AgeOK'
<1> SUFFICES ASSUME AgeOK, [Next]_vars PROVE AgeOK'
  OBVIOUS
<1>1. CASE AnyStep
  <2>1. PICK failed, outcome : lwm2m_step(failed, outcome)
    BY <1>1 DEF AnyStep
  <2> DEFINE st == statusAfter({x \in {y \in Requests : Due(tx[y])} \ failed : ~Transmits(tx[x])})
  <2>2. age' = [s \in Servers |-> IF st[s] = status[s] THEN age[s] ELSE 0]
    BY <2>1 DEF lwm2m_step
  <2> HIDE DEF st
  <2>3. QED BY <2>2, MaxAgeType DEF AgeOK
<1>2. CASE \E x \in Requests : \E r \in Replies(x, Codes, {None}) : lwm2m_handle_packet(x, r)
  <2>1. PICK x \in Requests : \E r \in Replies(x, Codes, {None}) : lwm2m_handle_packet(x, r)
    BY <1>2
  <2>2. age' = age \/ age' = [age EXCEPT ![x[1]] = 0]
    BY <2>1 DEF lwm2m_handle_packet
  <2>3. QED BY <2>2, MaxAgeType DEF AgeOK
<1>3. CASE \E s \in Servers : lwm2m_update_registration(s)
  BY <1>3 DEF lwm2m_update_registration, AgeOK
<1>4. CASE lwm2m_start
  BY <1>4, MaxAgeType DEF lwm2m_start, AgeOK
<1>5. CASE Tick
  BY <1>5, MaxAgeType DEF Tick, AgeOK
<1>6. CASE UNCHANGED vars
  BY <1>6 DEF vars, AgeOK
<1>7. QED BY <1>1, <1>2, <1>3, <1>4, <1>5, <1>6 DEF Next

\* The whole invariant holds at the start.
LEMMA InitInv == Init => IInv
<1>1. Init => AgeOK
  BY MaxAgeType DEF Init, AgeOK
<1>2. QED BY <1>1, InitPending, Halves

\* Every step preserves the whole invariant.
LEMMA NextInv == IInv /\ [Next]_vars => IInv'
<1>1. IInv' <=> PInv' /\ AgeOK'
  <2>1. AgeOK' => age' \in [Servers -> Int]
    BY DEF AgeOK
  <2>2. QED BY <2>1 DEF IInv, PInv, TypeOK, ClientTypes, AgeOK
<1>2. QED BY <1>1, Halves, NextPending, NextAge

\* The invariant holds in every reachable state.
LEMMA Invariant == Spec => []IInv
  BY InitInv, NextInv, PTL DEF Spec

\* The state of the client keeps its type: requests are never counted beyond
\* COAP_MAX_RETRANSMIT transmissions, whatever fails and whoever calls.
THEOREM RegistrationTypeCorrect == Spec => []TypeOK
  BY Invariant, PTL DEF IInv

\* A pending registration or update always has a request on the list whose
\* callback ends it: no server is left pending for want of a transaction.
THEOREM NothingPendingForNothing == Spec => []PendingHasRequest
  BY Invariant, PTL DEF IInv

\* A write of the Current Time moves every age and every deadline and leaves the
\* requests, their number of transmissions and the pending states alone.
LEMMA JumpPending ==
  ASSUME PInv, NEW d \in Jumps, set_time(d)
  PROVE  PInv'
<1>1. d \in Int
  BY ClockAssumption
<1>2. ASSUME NEW x \in Requests
      PROVE  /\ tx'[x] \in TransactionRecord /\ tx'[x].state = tx[x].state
             /\ tx'[x].retrans_counter = tx[x].retrans_counter
  <2>1. /\ tx[x] \in TransactionRecord
        /\ \/ tx'[x] = [tx[x] EXCEPT !.wait = @ - d]
           \/ tx'[x] = tx[x]
    BY DEF set_time, PInv, ClientTypes
  <2>2. QED BY <1>1, <2>1 DEF TransactionRecord
<1>3. ClientTypes'
  <2>1. tx' \in [Requests -> TransactionRecord]
    BY <1>2 DEF set_time
  <2>2. age' \in [Servers -> Int]
    <3>1. ASSUME NEW k \in Servers PROVE Moved(k, d) \subseteq Int
      <4>1. age[k] \in Int /\ MaxAge(k) \in Int
        BY RegistrationAssumption DEF PInv, ClientTypes, MaxAge
      <4>2. QED BY <1>1, <4>1 DEF Moved
    <3>2. UNION {Moved(k, d) : k \in Servers} \subseteq Int
      BY <3>1
    <3>3. QED BY <3>2 DEF set_time
  <2>3. QED BY <2>1, <2>2 DEF set_time, PInv, ClientTypes
<1>4. PendingHasRequest'
  <2> SUFFICES ASSUME NEW k \in Servers, status'[k] \in {"REG_PENDING", "REG_UPDATE_PENDING"}
               PROVE  \E y \in Requests : /\ y[1] = k /\ Live(tx'[y])
                        /\ Pending[y[2]] = status'[k] /\ tx'[y].retrans_counter > 0
    BY DEF PendingHasRequest, OpenRequests
  <2>1. status'[k] = status[k]
    BY DEF set_time
  <2>2. PICK y \in Requests : /\ y[1] = k /\ Live(tx[y]) /\ Pending[y[2]] = status[k]
                             /\ tx[y].retrans_counter > 0
    BY <2>1 DEF PInv, PendingHasRequest, OpenRequests
  <2>3. QED BY <1>2, <2>1, <2>2 DEF Live
<1>5. QED BY <1>3, <1>4 DEF PInv

\* The same while a server sets the clock the dates are compared with, by any number
\* of seconds forwards or back: no jump leaves a server pending without a request.
THEOREM NothingPendingWhateverTheClock == ClockSpec => []PendingHasRequest
<1>1. PInv /\ [ClockNext]_vars => PInv'
  <2> SUFFICES ASSUME PInv, [ClockNext]_vars PROVE PInv'
    OBVIOUS
  <2>1. CASE \E d \in Jumps : set_time(d)
    BY <2>1, JumpPending
  <2>2. CASE [Next]_vars
    BY <2>2, NextPending
  <2>3. QED BY <2>1, <2>2 DEF ClockNext
<1>2. PInv => PendingHasRequest
  BY DEF PInv
<1>3. QED BY <1>1, <1>2, InitPending, PTL DEF ClockSpec

-----------------------------------------------------------------------------
(* The program as main.cpp drives it, while memory lasts: nobody asks for  *)
(* an update and no allocation fails.  Then a server has one request while *)
(* it is waited for and none while it is not, so that registration_update  *)
(* always finds a place for the request it needs and no deadline passes.   *)

Board == Failing = {} /\ "update" \notin Calls

BoardInv == TypeOK /\ OneRequestAtATime /\ RegistrationFresh

\* A server without requests has one place for a new one.
LEMMA OnePlace ==
  ASSUME IInv, NEW s \in Servers, NEW kind \in Kinds, NEW list,
         \A x \in Requests : x[1] = s => ~Live(list[x])
  PROVE  \E x \in Requests : /\ x[1] = s /\ x[2] = kind
                             /\ \A y \in Requests : y[1] = s /\ y[2] = kind =>
                                  (IsNew(list, y) <=> y = x)
<1> DEFINE At(i) == <<s, kind, i>>
           p == IF location[s] = At(1) /\ Places >= 2 THEN 2 ELSE 1
<1>1. /\ p \in 1 .. Places /\ \A i \in 1 .. Places : At(i) \in Requests
  BY RegistrationAssumption DEF Requests
<1>2. ASSUME NEW j \in 1 .. Places
      PROVE  IsNew(list, At(j)) <=> j = p
  <2>1. IsNew(list, At(j)) <=> \A i \in 1 .. Places : ~Before(At(i), At(j))
    BY <1>1 DEF IsNew
  <2>2. \A i \in 1 .. Places : Before(At(i), At(j)) <=>
          IF (At(i) = location[s]) = (At(j) = location[s]) THEN i < j ELSE At(j) = location[s]
    BY DEF Before
  <2>3. /\ \A i, k \in 1 .. Places : At(i) = At(k) => i = k
        /\ Places \in Nat /\ Places >= 1
    BY RegistrationAssumption
  <2>4. p = IF location[s] = At(1) /\ Places >= 2 THEN 2 ELSE 1
    OBVIOUS
  <2> HIDE DEF At, p
  <2>5. CASE location[s] # At(1)
    <3>1. p = 1
      BY <2>4, <2>5
    <3>2. ASSUME j = 1, NEW i \in 1 .. Places PROVE ~Before(At(i), At(j))
      BY <2>2, <2>5, <3>2
    <3>3. ASSUME j # 1 PROVE Before(At(1), At(j))
      BY <2>2, <2>3, <2>5, <3>3
    <3>4. QED BY <2>1, <2>3, <3>1, <3>2, <3>3
  <2>6. CASE location[s] = At(1) /\ Places >= 2
    <3>1. p = 2 /\ \A i \in 1 .. Places : i = 1 \/ At(i) # location[s]
      BY <2>3, <2>4, <2>6
    <3>2. ASSUME j = 2, NEW i \in 1 .. Places PROVE ~Before(At(i), At(j))
      BY <2>2, <2>6, <3>1, <3>2
    <3>3. ASSUME j # 2 PROVE Before(At(2), At(j))
      BY <2>2, <2>3, <2>6, <3>1, <3>3
    <3>4. QED BY <2>1, <2>3, <2>6, <3>1, <3>2, <3>3
  <2>7. CASE location[s] = At(1) /\ ~(Places >= 2)
    BY <2>1, <2>2, <2>3, <2>4, <2>7
  <2>8. QED BY <2>5, <2>6, <2>7
<1>3. \A y \in Requests : y[1] = s /\ y[2] = kind => y = At(y[3]) /\ y[3] \in 1 .. Places
  BY DEF Requests
<1>4. \A y \in Requests : y[1] = s /\ y[2] = kind => (IsNew(list, y) <=> y = At(p))
  BY <1>1, <1>2, <1>3
<1>5. At(p) \in Requests /\ At(p)[1] = s /\ At(p)[2] = kind
  BY <1>1
<1> HIDE DEF p, At
<1>6. QED BY <1>4, <1>5

\* lwm2m_start leaves one request to nobody.
LEMMA BoardInit == Init => BoardInv
  BY InitInv DEF Init, IInv, BoardInv, OneRequestAtATime, RegistrationFresh, OpenRequests, Live, Free

\* One request at a time is stronger than a request for each pending state, but for
\* the count.
LEMMA BoardStep ==
  ASSUME Board, IInv, TypeOK', BoardInv, NEW outcome, lwm2m_step({}, outcome)
  PROVE  BoardInv'
<1> DEFINE due == {x \in Requests : Due(tx[x])} \ {}
           gone == {x \in due : ~Transmits(tx[x])}
           list == listAfter(due)
           st == statusAfter(gone)
           a == [s \in Servers |-> IF st[s] = status[s] THEN age[s] ELSE 0]
           new == {x \in Requests : /\ x[2] \in Needs(x[1], st[x[1]], a[x[1]])
                                    /\ IsNew(list, x) /\ outcome[x[1]] # "none"}
           sent == {x \in new : outcome[x[1]] = "sent"}
<1>1. /\ \A s \in Servers :
           IF Needs(s, st[s], a[s]) = {} THEN outcome[s] = "none"
           ELSE \A kind \in Needs(s, st[s], a[s]) : outcome[s] \in Outcomes(list, s, kind)
      /\ tx' = [x \in Requests |-> IF x \in sent THEN transaction_send(transaction_new)
                                   ELSE IF x \in new THEN transaction_new ELSE list[x]]
      /\ status' = [s \in Servers |->
                      IF \E x \in sent : x[1] = s
                        THEN Pending[CHOOSE kind \in Needs(s, st[s], a[s]) : TRUE] ELSE st[s]]
      /\ age' = a /\ lag' = 0
  BY DEF lwm2m_step
<1>2. /\ gone \in SUBSET Requests /\ gone \subseteq due /\ sent \subseteq new
      /\ \A x \in Requests : x \in due <=> Due(tx[x])
      /\ \A x \in gone : ~Transmits(tx[x]) /\ Due(tx[x])
      /\ \A x \in due : x \in Requests
  OBVIOUS
<1>3. \A s \in Servers : /\ a[s] = IF st[s] = status[s] THEN age[s] ELSE 0
                         /\ age[s] \in Nat /\ lag \in Nat
  BY RegistrationAssumption DEF IInv, TypeOK
<1>4. \A x \in Requests :
        /\ x \in new <=> /\ x[2] \in Needs(x[1], st[x[1]], a[x[1]])
                         /\ IsNew(list, x) /\ outcome[x[1]] # "none"
        /\ x \in sent <=> x \in new /\ outcome[x[1]] = "sent"
  OBVIOUS
\* A request on the list is given up, and its server is waited for no more, or stays.
<1>5. ASSUME NEW x \in Requests
      PROVE  /\ Live(list[x]) <=> Live(tx[x]) /\ x \notin gone
  <2>1. CASE x \in gone
    <3>1. list[x] = transaction_send(tx[x]) /\ tx[x] \in TransactionRecord
      BY <1>2, <2>1 DEF listAfter, IInv, TypeOK
    <3>2. list[x] = Free
      BY <1>2, <2>1, <3>1, SendEffect
    <3>3. QED BY <2>1, <3>2 DEF Live, Free
  <2>2. CASE x \notin gone
    <3>1. /\ list[x] = tx[x] \/ (Transmits(tx[x]) /\ list[x].state = tx[x].state)
      BY <2>2, Halves, LoopEffect
    <3>2. QED BY <2>2, <3>1 DEF Live
  <2>3. QED BY <2>1, <2>2
<1>6. ASSUME NEW s \in Servers
      PROVE  /\ st[s] = status[s] \/ st[s] = "REG_FAILED"
             /\ \A x \in gone : x[1] = s => st[s] # Pending[x[2]]
             /\ (\A x \in gone : x[1] # s) => st[s] = status[s]
  <2>1. (\A x \in gone : x[1] # s) => st[s] = status[s]
    BY DEF statusAfter
  <2>2. QED BY <1>2, <2>1, Halves, TimeoutEffect
<1> HIDE DEF due, gone, list, st, a, new, sent
\* After the loop: nobody is on the list, or one request of a pending state.
<1>7. ASSUME NEW s \in Servers
      PROVE  \/ /\ st[s] \notin {"REG_PENDING", "REG_UPDATE_PENDING"}
                /\ \A x \in Requests : x[1] = s => ~Live(list[x])
             \/ /\ st[s] = status[s]
                /\ \E x \in Requests : /\ x[1] = s /\ Live(list[x]) /\ Pending[x[2]] = st[s]
                                       /\ \A y \in Requests : y[1] = s /\ Live(list[y]) => y = x
  <2>1. CASE status[s] \notin {"REG_PENDING", "REG_UPDATE_PENDING"} /\ OpenRequests(s) = {}
    BY <2>1, <1>5, <1>6 DEF OpenRequests
  <2>2. CASE \E x \in OpenRequests(s) : OpenRequests(s) = {x} /\ Pending[x[2]] = status[s]
    <3>1. PICK x \in Requests : /\ x[1] = s /\ Live(tx[x]) /\ Pending[x[2]] = status[s]
                                /\ \A y \in Requests : y[1] = s /\ Live(tx[y]) => y = x
      BY <2>2 DEF OpenRequests
    <3>2. CASE x \in gone
      <4>1. st[s] = "REG_FAILED"
        BY <1>6, <3>1, <3>2
      <4>2. QED BY <1>5, <3>1, <3>2, <4>1
    <3>3. CASE x \notin gone
      <4>1. \A y \in gone : y[1] # s
        BY <1>2, <3>1, <3>3 DEF Due
      <4>2. QED BY <1>5, <1>6, <3>1, <3>3, <4>1
    <3>4. QED BY <3>2, <3>3
  <2>3. QED BY <2>1, <2>2 DEF BoardInv, OneRequestAtATime
\* Then: a server that needs nothing has what it had, one that needs something gets it.
<1>8. ASSUME NEW s \in Servers, Needs(s, st[s], a[s]) = {}
      PROVE  /\ status'[s] = st[s]
             /\ \A x \in Requests : x[1] = s => tx'[x] = list[x]
  <2>1. \A x \in Requests : x[1] = s => x \notin new
    BY <1>4, <1>8
  <2>2. ~\E x \in sent : x[1] = s
    BY <1>2, <1>4, <2>1 DEF new
  <2>3. QED BY <1>1, <1>4, <2>1, <2>2
<1>9. ASSUME NEW s \in Servers, NEW kind \in Needs(s, st[s], a[s])
      PROVE  /\ status'[s] = Pending[kind]
             /\ \E x \in Requests : /\ x[1] = s /\ x[2] = kind /\ Live(tx'[x])
                                    /\ \A y \in Requests : y[1] = s /\ Live(tx'[y]) => y = x
  <2>1. kind \in Kinds /\ Needs(s, st[s], a[s]) = {kind}
    BY <1>9, NeedsOne
  <2>2. \A x \in Requests : x[1] = s => ~Live(list[x])
    <3>1. st[s] \notin {"REG_PENDING", "REG_UPDATE_PENDING"}
      BY <2>1 DEF Needs
    <3>2. \A x \in Requests : Pending[x[2]] \in {"REG_PENDING", "REG_UPDATE_PENDING"}
      BY RequestParts DEF Kinds, Pending
    <3>3. QED BY <1>7, <3>1, <3>2
  <2>3. outcome[s] = "sent"
    <3>1. outcome[s] \in Outcomes(list, s, kind)
      BY <1>1, <2>1
    <3>2. 1 \in {i \in 1 .. Places : ~Live(list[<<s, kind, i>>])}
      BY <2>1, <2>2, RegistrationAssumption DEF Requests
    <3>3. QED BY <3>1, <3>2 DEF Outcomes, Board
  <2>4. PICK x \in Requests : /\ x[1] = s /\ x[2] = kind
                              /\ \A y \in Requests : y[1] = s /\ y[2] = kind =>
                                   (IsNew(list, y) <=> y = x)
    BY <2>1, <2>2, OnePlace
  <2>5. \A y \in Requests : y[1] = s => (y \in sent <=> y = x)
    BY <1>4, <2>1, <2>3, <2>4
  <2>6. \A y \in Requests : y[1] = s => (y \in new <=> y = x)
    BY <1>4, <2>1, <2>3, <2>4
  <2>7. Live(tx'[x])
    BY <1>1, <2>4, <2>5, FirstSend
  <2>8. \A y \in Requests : y[1] = s /\ y # x => tx'[y] = list[y]
    BY <1>1, <2>5, <2>6
  <2>9. status'[s] = Pending[kind]
    BY <1>1, <2>1, <2>4, <2>5
  <2>10. QED BY <2>2, <2>4, <2>7, <2>8, <2>9
<1>10. OneRequestAtATime'
  <2> SUFFICES ASSUME NEW s \in Servers
               PROVE  \/ /\ status'[s] \notin {"REG_PENDING", "REG_UPDATE_PENDING"}
                         /\ \A x \in Requests : x[1] = s => ~Live(tx'[x])
                      \/ \E x \in Requests : /\ x[1] = s /\ Live(tx'[x]) /\ Pending[x[2]] = status'[s]
                           /\ \A y \in Requests : y[1] = s /\ Live(tx'[y]) => y = x
    BY DEF OneRequestAtATime, OpenRequests
  <2>1. CASE Needs(s, st[s], a[s]) = {}
    BY <1>7, <1>8, <2>1
  <2>2. CASE \E kind \in Needs(s, st[s], a[s]) : TRUE
    BY <1>9, <2>2
  <2>3. QED BY <2>1, <2>2
<1>11. RegistrationFresh'
  <2> SUFFICES ASSUME NEW s \in Servers
               PROVE  /\ status'[s] = "REGISTERED" /\ nextUpdate(s) > 0 => a[s] < nextUpdate(s)
                      /\ status'[s] = "REG_FAILED" /\ Lifetime[s] > 0 => a[s] < Lifetime[s]
    <3>1. \A s \in Servers : nextUpdate(s) \in Nat /\ Lifetime[s] \in Nat
      BY RegistrationAssumption DEF nextUpdate
    <3>2. age' = a /\ lag' = 0
      BY <1>1
    <3>3. QED BY <3>1, <3>2 DEF RegistrationFresh, nextUpdate
  <2>1. nextUpdate(s) \in Nat /\ Lifetime[s] \in Nat /\ a[s] \in Nat
    BY <1>3, RegistrationAssumption DEF nextUpdate
  <2>2. CASE Needs(s, st[s], a[s]) = {}
    BY <1>8, <2>1, <2>2 DEF Needs
  <2>3. CASE \E kind \in Needs(s, st[s], a[s]) : TRUE
    <3>1. status'[s] \in {"REG_PENDING", "REG_UPDATE_PENDING"}
      BY <1>9, <2>3, NeedsOne DEF Kinds, Pending
    <3>2. QED BY <3>1
  <2>4. QED BY <2>2, <2>3
<1>12. QED BY <1>10, <1>11 DEF BoardInv

\* A datagram that concludes the request of a server ends its pending state.
LEMMA BoardPacket ==
  ASSUME IInv, TypeOK', BoardInv, NEW x \in Requests, NEW r, lwm2m_handle_packet(x, r)
  PROVE  BoardInv'
<1> DEFINE s == x[1]
           st == callback(x[2], status[s], r.code)
           concludes == Concerns(x, tx[x], r) /\ Concludes(x, tx[x], r)
<1>1. /\ tx' = [tx EXCEPT ![x] = IF Concerns(x, @, r)
                                   THEN transaction_handle_response(x, @, r) ELSE @]
      /\ IF concludes /\ status[s] = Pending[x[2]]
           THEN /\ status' = [status EXCEPT ![s] = st]
                /\ age' = [age EXCEPT ![s] = 0]
           ELSE UNCHANGED <<status, age>>
      /\ lag' = lag
  BY DEF lwm2m_handle_packet
<1>2. s \in Servers /\ x[2] \in Kinds /\ lag \in Nat
  BY RequestParts, RegistrationAssumption DEF IInv, TypeOK
<1>3. status[s] = Pending[x[2]] => st \in {"REGISTERED", "REG_FAILED"}
  BY <1>2, Answered
<1>4. /\ tx[x] \in TransactionRecord
      /\ \A y \in Requests : y # x => tx'[y] = tx[y]
      /\ tx'[x] = IF Concerns(x, tx[x], r) THEN transaction_handle_response(x, tx[x], r)
                                          ELSE tx[x]
  BY <1>1 DEF IInv, TypeOK
<1>5. /\ concludes => Live(tx[x]) /\ ~Live(tx'[x])
      /\ ~concludes => (Live(tx'[x]) <=> Live(tx[x]))
  <2>1. CASE Concerns(x, tx[x], r)
    <3>1. tx'[x] = transaction_handle_response(x, tx[x], r) /\ Live(tx[x])
      BY <1>4, <2>1 DEF Concerns
    <3>2. /\ Concludes(x, tx[x], r) => tx'[x] = Free
          /\ ~Concludes(x, tx[x], r) => tx'[x].state \in {"pending", "acked"}
      BY <1>4, <3>1, ResponseEffect
    <3>3. QED BY <2>1, <3>1, <3>2 DEF Live, Free
  <2>2. CASE ~Concerns(x, tx[x], r)
    BY <1>4, <2>2
  <2>3. QED BY <2>1, <2>2
<1> HIDE DEF st, concludes
<1>6. OneRequestAtATime'
  <2> SUFFICES ASSUME NEW k \in Servers
               PROVE  \/ /\ status'[k] \notin {"REG_PENDING", "REG_UPDATE_PENDING"}
                         /\ \A y \in Requests : y[1] = k => ~Live(tx'[y])
                      \/ \E z \in Requests : /\ z[1] = k /\ Live(tx'[z]) /\ Pending[z[2]] = status'[k]
                           /\ \A y \in Requests : y[1] = k /\ Live(tx'[y]) => y = z
    BY DEF OneRequestAtATime, OpenRequests
  <2>1. \/ /\ status[k] \notin {"REG_PENDING", "REG_UPDATE_PENDING"}
           /\ \A y \in Requests : y[1] = k => ~Live(tx[y])
        \/ \E z \in Requests : /\ z[1] = k /\ Live(tx[z]) /\ Pending[z[2]] = status[k]
                               /\ \A y \in Requests : y[1] = k /\ Live(tx[y]) => y = z
    BY DEF BoardInv, OneRequestAtATime, OpenRequests
  <2>2. CASE k = s /\ concludes
    <3>1. status[s] = Pending[x[2]] /\ \A y \in Requests : y[1] = s /\ Live(tx[y]) => y = x
      BY <1>5, <2>1, <2>2
    <3>2. status'[s] \in {"REGISTERED", "REG_FAILED"}
      BY <1>1, <1>2, <1>3, <2>2, <3>1 DEF IInv, TypeOK
    <3>3. \A y \in Requests : y[1] = s => ~Live(tx'[y])
      BY <1>4, <1>5, <2>2, <3>1
    <3>4. QED BY <2>2, <3>2, <3>3
  <2>3. CASE ~(k = s /\ concludes)
    <3>1. status'[k] = status[k]
      BY <1>1, <1>2, <2>3 DEF IInv, TypeOK
    <3>2. \A y \in Requests : y[1] = k => (Live(tx'[y]) <=> Live(tx[y]))
      BY <1>4, <1>5, <2>3
    <3>3. QED BY <2>1, <3>1, <3>2
  <2>4. QED BY <2>2, <2>3
<1>7. RegistrationFresh'
  <2> SUFFICES ASSUME NEW k \in Servers
               PROVE  /\ status'[k] = "REGISTERED" /\ nextUpdate(k) > 0 => age'[k] < nextUpdate(k) + lag
                      /\ status'[k] = "REG_FAILED" /\ Lifetime[k] > 0 => age'[k] < Lifetime[k] + lag
    BY <1>1 DEF RegistrationFresh, nextUpdate
  <2>1. nextUpdate(k) \in Nat /\ Lifetime[k] \in Nat
    BY RegistrationAssumption DEF nextUpdate
  <2>2. \/ status'[k] = status[k] /\ age'[k] = age[k]
        \/ age'[k] = 0
    BY <1>1, <1>2 DEF IInv, TypeOK
  <2>3. QED BY <1>2, <2>1, <2>2 DEF BoardInv, RegistrationFresh
<1>8. QED BY <1>6, <1>7 DEF BoardInv

\* A second makes no registration older than the lag of the loop allows.
LEMMA BoardTick ==
  ASSUME IInv, TypeOK', BoardInv, Tick
  PROVE  BoardInv'
<1>1. \A x \in Requests : Live(tx'[x]) <=> Live(tx[x])
  BY SecondEffect DEF Tick, IInv, TypeOK, Live
<1>2. OneRequestAtATime'
  <2>1. status' = status /\ \A s \in Servers : OpenRequests(s)' = OpenRequests(s)
    BY <1>1 DEF Tick, OpenRequests
  <2>2. QED BY <2>1 DEF BoardInv, OneRequestAtATime
<1>3. RegistrationFresh'
  <2> SUFFICES ASSUME NEW k \in Servers
               PROVE  /\ status'[k] = "REGISTERED" /\ nextUpdate(k) > 0 => age'[k] < nextUpdate(k) + lag'
                      /\ status'[k] = "REG_FAILED" /\ Lifetime[k] > 0 => age'[k] < Lifetime[k] + lag'
    BY DEF RegistrationFresh, nextUpdate
  <2>1. nextUpdate(k) \in Nat /\ Lifetime[k] \in Nat /\ age[k] \in Nat /\ lag \in Nat
    BY RegistrationAssumption DEF nextUpdate, IInv, TypeOK
  <2>2. status' = status /\ lag' = lag + 1 /\ age'[k] \in {age[k], age[k] + 1}
    BY DEF Tick
  <2>3. QED BY <2>1, <2>2 DEF BoardInv, RegistrationFresh
<1>4. QED BY <1>2, <1>3 DEF BoardInv

\* Every step of the program as main.cpp drives it.
LEMMA BoardNext == Board /\ IInv /\ BoardInv /\ [Next]_vars => BoardInv'
<1> SUFFICES ASSUME Board, IInv, BoardInv, [Next]_vars PROVE BoardInv'
  OBVIOUS
<1>0. TypeOK'
  BY NextInv DEF IInv
<1>1. CASE AnyStep
  <2>1. PICK failed \in SUBSET {x \in Requests : Due(tx[x]) /\ "buffer" \in Failing},
             outcome \in [Servers -> {"sent", "unsent", "none"}] : lwm2m_step(failed, outcome)
    BY <1>1 DEF AnyStep
  <2>2. failed = {}
    BY DEF Board
  <2>3. QED BY <1>0, <2>1, <2>2, BoardStep
<1>2. CASE \E x \in Requests : \E r \in Replies(x, Codes, {None}) : lwm2m_handle_packet(x, r)
  BY <1>0, <1>2, BoardPacket
<1>3. CASE \E s \in Servers : lwm2m_update_registration(s)
  BY <1>3 DEF lwm2m_update_registration, Board
<1>4. CASE lwm2m_start
  BY <1>0, <1>4 DEF lwm2m_start, BoardInv, OneRequestAtATime, RegistrationFresh, OpenRequests, Live, Free
<1>5. CASE Tick
  BY <1>0, <1>5, BoardTick
<1>6. CASE UNCHANGED vars
  BY <1>0, <1>6 DEF vars, BoardInv, OneRequestAtATime, OpenRequests, RegistrationFresh, nextUpdate
<1>7. QED BY <1>1, <1>2, <1>3, <1>4, <1>5, <1>6 DEF Next

\* As main.cpp drives the client, with memory left, no server ever has two requests
\* on the list, and none is waited for without one: for any servers and lifetimes.
THEOREM OneRequest ==
  ASSUME Board
  PROVE  Spec => []OneRequestAtATime
<1>1. Init => BoardInv
  BY BoardInit
<1>2. Board /\ IInv /\ BoardInv /\ [Next]_vars => BoardInv'
  BY BoardNext
<1>3. BoardInv => OneRequestAtATime
  BY DEF BoardInv
<1>4. QED BY <1>1, <1>2, <1>3, Invariant, PTL DEF Spec

\* As main.cpp drives the client, with memory left, no registration grows older than
\* its next update by more than the lag of the loop, and no failure waits longer.
THEOREM AlwaysFresh ==
  ASSUME Board
  PROVE  Spec => []RegistrationFresh
<1>1. Init => BoardInv
  BY BoardInit
<1>2. Board /\ IInv /\ BoardInv /\ [Next]_vars => BoardInv'
  BY BoardNext
<1>3. BoardInv => RegistrationFresh
  BY DEF BoardInv
<1>4. QED BY <1>1, <1>2, <1>3, Invariant, PTL DEF Spec

-----------------------------------------------------------------------------
(* UpdateInTime counts seconds over all retransmissions of an update.  Two *)
(* parts strengthen BoardInv: no request is overdue by as much as the lag  *)
(* of the loop, and an update still waiting keeps to a schedule, counted   *)
(* from the age it was first sent at.                                      *)

\* Twice the seconds from the first transmission of a request to the deadline set
\* with transmission c - 1: 1 + 2 + ... + (c - 1) timeouts.
Schedule(c) == COAP_RESPONSE_TIMEOUT * (c * (c - 1))

\* The age an update is first sent at, at the latest.
FirstAge(s) == Lifetime[s] - UPDATE_MARGIN + MaxLag - 1

Armed(x) == Live(tx[x]) => tx[x].retrans_counter >= 2 /\ tx[x].wait + lag > 0

OnSchedule(x) ==
  x[2] = "update" /\ tx[x].state = "pending" /\ Lifetime[x[1]] > UPDATE_FLOOR =>
    2 * (age[x[1]] + tx[x].wait) <= 2 * FirstAge(x[1]) + Schedule(tx[x].retrans_counter)

TimerInv == \A x \in Requests : Armed(x) /\ OnSchedule(x)

\* The margin of an update leaves room for all its transmissions, each as late as
\* the loop can make it: with the numbers of the sources, 28 of 30 half seconds.
Timely == 4 * (MaxLag - 1) + Schedule(COAP_MAX_RETRANSMIT) < 2 * UPDATE_MARGIN

\* The schedule adds c timeouts with transmission c, and never shrinks.
LEMMA ScheduleStep ==
  ASSUME NEW c \in Nat, c >= 1
  PROVE  /\ Schedule(c) \in Nat
         /\ COAP_RESPONSE_TIMEOUT * c \in Nat
         /\ Schedule(c + 1) = Schedule(c) + 2 * (COAP_RESPONSE_TIMEOUT * c)
<1>1. COAP_RESPONSE_TIMEOUT \in Nat
  BY TransactionConstants
<1>2. c * (c - 1) \in Nat
  OBVIOUS
<1>3. (c + 1) * (c + 1 - 1) = c * (c - 1) + 2 * c
  OBVIOUS
<1>4. QED BY <1>1, <1>2, <1>3 DEF Schedule

\* A later transmission is not earlier on the schedule.
LEMMA ScheduleGrows ==
  ASSUME NEW c \in Nat, NEW d \in Nat, 1 <= c, c <= d
  PROVE  Schedule(c) <= Schedule(d)
<1>1. COAP_RESPONSE_TIMEOUT \in Nat
  BY TransactionConstants
<1>2. c * (c - 1) \in Nat /\ d * (d - 1) \in Nat /\ c * (c - 1) <= d * (d - 1)
  OBVIOUS
<1>3. QED BY <1>1, <1>2 DEF Schedule

\* What lwm2m_step does to each request: it is put on the list, sent again or given
\* up because it is due, or left alone.  Ages only fall.
LEMMA StepRequests ==
  ASSUME Board, IInv, NEW outcome, lwm2m_step({}, outcome)
  PROVE  /\ lag' = 0
         /\ \A s \in Servers : age'[s] \in Nat /\ age'[s] <= age[s]
         /\ \A x \in Requests :
              \/ /\ tx'[x] = transaction_send(transaction_new)
                 /\ x[2] = "update" => /\ status[x[1]] = "REGISTERED"
                                       /\ age'[x[1]] = age[x[1]]
              \/ Due(tx[x]) /\ tx'[x] = transaction_send(tx[x])
              \/ ~Due(tx[x]) /\ tx'[x] = tx[x]
<1> DEFINE due == {x \in Requests : Due(tx[x])} \ {}
           gone == {x \in due : ~Transmits(tx[x])}
           list == listAfter(due)
           st == statusAfter(gone)
           a == [s \in Servers |-> IF st[s] = status[s] THEN age[s] ELSE 0]
           new == {x \in Requests : /\ x[2] \in Needs(x[1], st[x[1]], a[x[1]])
                                    /\ IsNew(list, x) /\ outcome[x[1]] # "none"}
           sent == {x \in new : outcome[x[1]] = "sent"}
<1>1. /\ \A s \in Servers :
           IF Needs(s, st[s], a[s]) = {} THEN outcome[s] = "none"
           ELSE \A kind \in Needs(s, st[s], a[s]) : outcome[s] \in Outcomes(list, s, kind)
      /\ tx' = [x \in Requests |-> IF x \in sent THEN transaction_send(transaction_new)
                                   ELSE IF x \in new THEN transaction_new ELSE list[x]]
      /\ age' = a /\ lag' = 0
  BY DEF lwm2m_step
<1>2. \A s \in Servers : age'[s] \in Nat /\ age'[s] <= age[s]
  BY <1>1 DEF IInv, TypeOK
<1>3. /\ gone \in SUBSET Requests /\ sent \subseteq new
      /\ \A x \in Requests : /\ x \in due <=> Due(tx[x])
                             /\ list[x] = IF x \in due THEN transaction_send(tx[x]) ELSE tx[x]
      /\ \A x \in new : /\ x[2] \in Needs(x[1], st[x[1]], a[x[1]]) /\ outcome[x[1]] # "none"
                        /\ outcome[x[1]] = "sent" => x \in sent
      /\ \A s \in Servers : a[s] = IF st[s] = status[s] THEN age[s] ELSE 0
  BY DEF listAfter
<1>4. \A s \in Servers : st[s] = status[s] \/ st[s] = "REG_FAILED"
  BY <1>3, Halves, TimeoutEffect
<1> HIDE DEF due, gone, list, st, a, new, sent
<1>5. ASSUME NEW x \in new, x \in Requests
      PROVE  /\ x \in sent
             /\ x[2] = "update" => status[x[1]] = "REGISTERED" /\ age'[x[1]] = age[x[1]]
  <2>1. x[1] \in Servers /\ x[2] \in Needs(x[1], st[x[1]], a[x[1]])
    BY <1>3, <1>5, RequestParts
  <2>2. outcome[x[1]] \in Outcomes(list, x[1], x[2])
    BY <1>1, <2>1
  <2>3. outcome[x[1]] = "sent"
    BY <1>3, <1>5, <2>2 DEF Outcomes, Board
  <2>4. x[2] = "update" => st[x[1]] = "REGISTERED"
    BY <2>1 DEF Needs
  <2>5. QED BY <1>1, <1>3, <1>4, <2>1, <2>3, <2>4
<1>6. ASSUME NEW x \in Requests
      PROVE  \/ /\ tx'[x] = transaction_send(transaction_new)
                /\ x[2] = "update" => /\ status[x[1]] = "REGISTERED"
                                      /\ age'[x[1]] = age[x[1]]
             \/ Due(tx[x]) /\ tx'[x] = transaction_send(tx[x])
             \/ ~Due(tx[x]) /\ tx'[x] = tx[x]
  <2>1. CASE x \in new
    BY <1>1, <1>5, <2>1
  <2>2. CASE x \notin new
    BY <1>1, <1>3, <2>2
  <2>3. QED BY <2>1, <2>2
<1>7. QED BY <1>1, <1>2, <1>6

\* The numbers of a server, as arithmetic needs them.
LEMMA ServerNumbers ==
  ASSUME IInv, NEW s \in Servers
  PROVE  /\ Lifetime[s] \in Nat /\ UPDATE_MARGIN \in Nat /\ UPDATE_FLOOR \in Nat
         /\ UPDATE_MARGIN <= UPDATE_FLOOR /\ MaxLag \in Nat \ {0}
         /\ COAP_RESPONSE_TIMEOUT \in Nat \ {0} /\ MaxLag < 2 * COAP_RESPONSE_TIMEOUT
         /\ age[s] \in Nat /\ lag \in Nat /\ lag <= MaxLag /\ FirstAge(s) \in Int
  BY RegistrationAssumption, TransactionConstants DEF IInv, TypeOK, FirstAge

\* A fresh registration is updated before FirstAge.
LEMMA FirstInTime ==
  ASSUME IInv, BoardInv, NEW s \in Servers, Lifetime[s] > UPDATE_FLOOR,
         status[s] = "REGISTERED"
  PROVE  age[s] <= FirstAge(s)
<1>1. nextUpdate(s) = Lifetime[s] - UPDATE_MARGIN /\ nextUpdate(s) > 0
  BY ServerNumbers DEF nextUpdate
<1>2. age[s] < nextUpdate(s) + lag
  BY <1>1 DEF BoardInv, RegistrationFresh
<1>3. QED BY <1>1, <1>2, ServerNumbers DEF FirstAge

\* lwm2m_step keeps requests to their schedule.
LEMMA TimerStep ==
  ASSUME Board, IInv, BoardInv, TimerInv, NEW outcome, lwm2m_step({}, outcome)
  PROVE  TimerInv'
<1> SUFFICES ASSUME NEW x \in Requests PROVE Armed(x)' /\ OnSchedule(x)'
  BY DEF TimerInv
<1> DEFINE s == x[1]
           t == tx[x]
           u == tx'[x]
<1>1. /\ s \in Servers /\ x[2] \in Kinds /\ t \in TransactionRecord
  BY RequestParts DEF IInv, TypeOK
<1>2. /\ lag' = 0 /\ age'[s] \in Nat /\ age'[s] <= age[s]
      /\ \/ /\ u = transaction_send(transaction_new)
            /\ x[2] = "update" => status[s] = "REGISTERED" /\ age'[s] = age[s]
         \/ Due(t) /\ u = transaction_send(t)
         \/ ~Due(t) /\ u = t
  BY <1>1, StepRequests
<1>3. Armed(x) /\ OnSchedule(x)
  BY DEF TimerInv
<1>4. /\ Armed(x)' <=> (Live(u) => u.retrans_counter >= 2 /\ u.wait + lag' > 0)
      /\ OnSchedule(x)' <=> (x[2] = "update" /\ u.state = "pending" /\ Lifetime[s] > UPDATE_FLOOR =>
           2 * (age'[s] + u.wait) <= 2 * FirstAge(s) + Schedule(u.retrans_counter))
  BY DEF Armed, OnSchedule, Live, FirstAge, Schedule
<1> HIDE DEF s, t, u
<1>5. CASE /\ u = transaction_send(transaction_new)
           /\ x[2] = "update" => status[s] = "REGISTERED" /\ age'[s] = age[s]
  <2>1. /\ u.retrans_counter = 2 /\ u.wait = COAP_RESPONSE_TIMEOUT
    <3>1. Transmits(transaction_new)
      BY NewType, TransactionConstants DEF Transmits, ack_received
    <3>2. QED BY <1>5, <3>1, NewType, SendEffect
  <2>2. Schedule(2) = 2 * COAP_RESPONSE_TIMEOUT
    BY TransactionConstants DEF Schedule
  <2>3. QED BY <1>1, <1>2, <1>4, <1>5, <2>1, <2>2, ServerNumbers, FirstInTime
<1>6. CASE Due(t) /\ u = transaction_send(t)
  <2>1. CASE ~Transmits(t)
    <3>1. u = Free
      BY <1>1, <1>6, <2>1, SendEffect
    <3>2. QED BY <1>4, <3>1 DEF Live, Free
  <2>2. CASE Transmits(t)
    <3> DEFINE c == t.retrans_counter
    <3>1. /\ Live(t) /\ c \in Nat /\ c >= 2 /\ t.wait \in Int /\ t.wait + lag > 0
      BY <1>1, <1>3, <1>6 DEF Armed, Due, TransactionRecord, t
    <3>2. /\ u.state = t.state /\ u.retrans_counter = c + 1
          /\ u.wait = t.wait + COAP_RESPONSE_TIMEOUT * c
      BY <1>1, <1>6, <2>2, <3>1, SendEffect
    <3>3. /\ COAP_RESPONSE_TIMEOUT * c \in Nat /\ Schedule(c) \in Nat
          /\ COAP_RESPONSE_TIMEOUT * c >= 2 * COAP_RESPONSE_TIMEOUT
          /\ Schedule(c + 1) = Schedule(c) + 2 * (COAP_RESPONSE_TIMEOUT * c)
      BY <3>1, TimeoutGrows, ScheduleStep
    <3>4. x[2] = "update" /\ t.state = "pending" /\ Lifetime[s] > UPDATE_FLOOR =>
            2 * (age[s] + t.wait) <= 2 * FirstAge(s) + Schedule(c)
      BY <1>3 DEF OnSchedule, s, t
    <3> DEFINE g == COAP_RESPONSE_TIMEOUT * c
    <3> HIDE DEF c, g
    <3>5. u.wait + lag' > 0
      BY <1>1, <1>2, <3>1, <3>2, <3>3, ServerNumbers DEF g
    <3>6. x[2] = "update" /\ u.state = "pending" /\ Lifetime[s] > UPDATE_FLOOR =>
            2 * (age'[s] + u.wait) <= 2 * FirstAge(s) + Schedule(c + 1)
      BY <1>1, <1>2, <3>1, <3>2, <3>3, <3>4, ServerNumbers DEF g
    <3>7. QED BY <1>4, <3>1, <3>2, <3>5, <3>6
  <2>3. QED BY <2>1, <2>2
<1>7. CASE ~Due(t) /\ u = t
  <2>1. t.retrans_counter \in Nat /\ t.wait \in Int
    BY <1>1 DEF TransactionRecord
  <2>2. Live(t) => t.wait > 0 /\ t.retrans_counter >= 2
    BY <1>3, <1>7, <2>1 DEF Due, Armed, t
  <2>3. Schedule(t.retrans_counter) \in Int
    BY <2>1, TransactionConstants DEF Schedule
  <2>4. x[2] = "update" /\ t.state = "pending" /\ Lifetime[s] > UPDATE_FLOOR =>
          2 * (age[s] + t.wait) <= 2 * FirstAge(s) + Schedule(t.retrans_counter)
    BY <1>3 DEF OnSchedule, s, t
  <2>5. Armed(x)'
    BY <1>2, <1>4, <1>7, <2>1, <2>2
  <2>6. OnSchedule(x)'
    BY <1>1, <1>2, <1>4, <1>7, <2>1, <2>3, <2>4, ServerNumbers
  <2>7. QED BY <2>5, <2>6
<1>8. QED BY <1>2, <1>5, <1>6, <1>7

\* A datagram concludes a request, acknowledges it or changes nothing of it, unless it
\* is a 4.01, which puts the next transmission off.
LEMMA TimerPacket ==
  ASSUME IInv, TimerInv, NEW x \in Requests, NEW r, r.code # "4.01", lwm2m_handle_packet(x, r)
  PROVE  TimerInv'
<1> SUFFICES ASSUME NEW y \in Requests PROVE Armed(y)' /\ OnSchedule(y)'
  BY DEF TimerInv
<1> DEFINE s == y[1]
<1>1. /\ s \in Servers /\ lag' = lag /\ age[s] \in Nat
      /\ age'[s] = age[s] \/ age'[s] = 0
  BY RequestParts DEF lwm2m_handle_packet, IInv, TypeOK
<1>2. /\ tx[y] \in TransactionRecord /\ Armed(y) /\ OnSchedule(y)
      /\ tx[y].wait \in Int /\ tx[y].retrans_counter \in Nat
  BY DEF IInv, TypeOK, TimerInv, TransactionRecord
<1>3. /\ y # x => tx'[y] = tx[y]
      /\ y = x => tx'[y] = IF Concerns(x, tx[x], r) THEN transaction_handle_response(x, tx[x], r)
                           ELSE tx[x]
  BY DEF lwm2m_handle_packet, IInv, TypeOK
<1>4. CASE tx'[y] = tx[y]
  <2>1. Schedule(tx[y].retrans_counter) \in Int
    BY <1>2, TransactionConstants DEF Schedule
  <2>2. 2 * (age'[s] + tx[y].wait) <= 2 * (age[s] + tx[y].wait)
    BY <1>1, <1>2
  <2>3. FirstAge(s) \in Int /\ age'[s] \in Nat
    BY <1>1, ServerNumbers
  <2>4. x \in Requests /\ (y[2] = "update" /\ tx[y].state = "pending" /\ Lifetime[s] > UPDATE_FLOOR =>
          2 * (age'[s] + tx[y].wait) <= 2 * FirstAge(s) + Schedule(tx[y].retrans_counter))
    BY <1>1, <1>2, <2>1, <2>2, <2>3 DEF OnSchedule
  <2>5. OnSchedule(y)'
    BY <1>4, <2>4 DEF OnSchedule, FirstAge, Schedule
  <2>6. Armed(y)'
    BY <1>1, <1>2, <1>4 DEF Armed, Live
  <2>7. QED BY <2>5, <2>6
<1>5. CASE y = x /\ Concerns(x, tx[x], r)
  <2>1. tx'[y] = transaction_handle_response(x, tx[x], r) /\ Live(tx[x])
    BY <1>3, <1>5 DEF Concerns
  <2>2. CASE Concludes(x, tx[x], r)
    <3>1. tx'[y] = Free
      BY <1>2, <1>5, <2>1, <2>2, ResponseEffect
    <3>2. QED BY <3>1 DEF Armed, OnSchedule, Live, Free
  <2>3. CASE ~Concludes(x, tx[x], r)
    <3>1. ~RetriesUnauthorized(x, tx[x], r)
      BY DEF RetriesUnauthorized
    <3>2. tx'[y] = [tx[x] EXCEPT !.state = "acked",
                              !.wait = COAP_RESPONSE_TIMEOUT * tx[x].retrans_counter]
      BY <2>1, <2>3, <3>1 DEF transaction_handle_response, Concludes
    <3>3. tx[x].retrans_counter \in Nat /\ tx[x].retrans_counter >= 2
      BY <1>2, <1>5, <2>1 DEF Armed
    <3>4. /\ tx'[y].state = "acked" /\ tx'[y].retrans_counter = tx[x].retrans_counter
          /\ tx'[y].wait = COAP_RESPONSE_TIMEOUT * tx[x].retrans_counter
      BY <1>2, <1>5, <3>2 DEF TransactionRecord
    <3>5. tx'[y].wait + lag' > 0
      <4>1. /\ COAP_RESPONSE_TIMEOUT * tx[x].retrans_counter \in Nat
            /\ COAP_RESPONSE_TIMEOUT * tx[x].retrans_counter >= 2 * COAP_RESPONSE_TIMEOUT
        BY <3>3, TimeoutGrows
      <4>2. QED BY <1>1, <3>4, <4>1, ServerNumbers
    <3>6. QED BY <3>3, <3>4, <3>5 DEF Armed, OnSchedule
  <2>4. QED BY <2>2, <2>3
<1>6. QED BY <1>3, <1>4, <1>5

\* A second makes a registration older and a deadline nearer.
LEMMA TimerTick ==
  ASSUME IInv, TimerInv, Tick
  PROVE  TimerInv'
<1> SUFFICES ASSUME NEW y \in Requests PROVE Armed(y)' /\ OnSchedule(y)'
  BY DEF TimerInv
<1> DEFINE s == y[1]
<1>1. /\ s \in Servers /\ lag' = lag + 1 /\ lag \in Nat /\ age[s] \in Nat
      /\ age'[s] = age[s] \/ age'[s] = age[s] + 1
  BY RequestParts, RegistrationAssumption DEF Tick, IInv, TypeOK
<1>2. /\ tx[y] \in TransactionRecord /\ Armed(y) /\ OnSchedule(y)
      /\ tx[y].wait \in Int /\ tx[y].retrans_counter \in Nat
  BY DEF IInv, TypeOK, TimerInv, TransactionRecord
<1>3. tx'[y] = Second(tx[y])
  BY DEF Tick
<1>4. CASE Live(tx[y])
  <2>1. tx[y].retrans_counter >= 2 /\ tx[y].wait + lag > 0
    BY <1>2, <1>4 DEF Armed
  <2>2. /\ tx'[y].state = tx[y].state /\ tx'[y].wait = tx[y].wait - 1
        /\ tx'[y].retrans_counter = tx[y].retrans_counter
    BY <1>2, <1>3, <1>4, <2>1, SecondEffect
  <2>3. Schedule(tx[y].retrans_counter) \in Int /\ FirstAge(s) \in Int
    BY <1>1, <1>2, TransactionConstants, ServerNumbers DEF Schedule
  <2>4. y[2] = "update" /\ tx[y].state = "pending" /\ Lifetime[s] > UPDATE_FLOOR =>
          2 * (age'[s] + tx'[y].wait) <= 2 * FirstAge(s) + Schedule(tx[y].retrans_counter)
    BY <1>1, <1>2, <2>2, <2>3 DEF OnSchedule
  <2>5. OnSchedule(y)'
    BY <2>2, <2>4 DEF OnSchedule, FirstAge, Schedule
  <2>6. Armed(y)'
    BY <1>1, <1>2, <2>1, <2>2 DEF Armed
  <2>7. QED BY <2>5, <2>6
<1>5. CASE ~Live(tx[y])
  BY <1>2, <1>3, <1>5, SecondEffect DEF Armed, OnSchedule, Live
<1>6. QED BY <1>4, <1>5

\* What an update is sent at: the first time before FirstAge, then by the schedule.
LEMMA SentInTime ==
  ASSUME Board, IInv, BoardInv, TimerInv, NEW outcome, lwm2m_step({}, outcome),
         NEW x \in Requests, x[2] = "update", Lifetime[x[1]] > UPDATE_FLOOR, Transmitted(x)
  PROVE  /\ status[x[1]] = "REGISTERED" /\ age[x[1]] <= FirstAge(x[1])
         \/ /\ Live(tx[x])
            /\ \E c \in 2 .. COAP_MAX_RETRANSMIT :
                 /\ tx'[x].retrans_counter = c + 1
                 /\ 2 * age[x[1]] <= 2 * (FirstAge(x[1]) + MaxLag - 1) + Schedule(c)
<1> DEFINE s == x[1]
<1>1. /\ s \in Servers /\ tx[x] \in TransactionRecord /\ Armed(x) /\ OnSchedule(x)
  BY RequestParts DEF IInv, TypeOK, TimerInv
<1>2. \/ /\ status[s] = "REGISTERED"
      \/ Due(tx[x]) /\ tx'[x] = transaction_send(tx[x])
      \/ ~Due(tx[x]) /\ tx'[x] = tx[x]
  BY StepRequests
<1>3. Live(tx'[x]) /\ tx'[x].retrans_counter > tx[x].retrans_counter
  BY DEF Transmitted
<1>4. CASE status[s] = "REGISTERED"
  BY <1>1, <1>4, FirstInTime
<1>5. CASE Due(tx[x]) /\ tx'[x] = transaction_send(tx[x])
  <2> DEFINE c == tx[x].retrans_counter
  <2>1. Transmits(tx[x])
    BY <1>1, <1>3, <1>5, SendEffect DEF Live, Free
  <2>2. /\ Live(tx[x]) /\ tx[x].state = "pending" /\ c \in Nat /\ c >= 2
        /\ tx[x].wait \in Int /\ tx[x].wait + lag > 0 /\ c <= COAP_MAX_RETRANSMIT
    BY <1>1, <1>5, <2>1 DEF Armed, Due, Transmits, ack_received, Live, TransactionRecord
  <2>3. tx'[x].retrans_counter = c + 1
    BY <1>1, <1>5, <2>1, <2>2, SendEffect
  <2>4. 2 * (age[s] + tx[x].wait) <= 2 * FirstAge(s) + Schedule(c)
    BY <1>1, <2>2 DEF OnSchedule
  <2>5. Schedule(c) \in Nat
    BY <2>2, ScheduleStep
  <2>6. 2 * age[s] <= 2 * (FirstAge(s) + MaxLag - 1) + Schedule(c)
    BY <1>1, <2>2, <2>4, <2>5, ServerNumbers
  <2>7. c \in 2 .. COAP_MAX_RETRANSMIT
    BY <2>2, TransactionConstants
  <2>8. QED BY <2>2, <2>3, <2>6, <2>7
<1>6. CASE ~Due(tx[x]) /\ tx'[x] = tx[x]
  BY <1>1, <1>3, <1>6 DEF TransactionRecord
<1>7. QED BY <1>2, <1>4, <1>5, <1>6

\* Every step of the board keeps to the schedule while no server answers 4.01.
LEMMA TimerNext ==
  ASSUME Board, "4.01" \notin Codes, IInv, BoardInv, TimerInv, [Next]_vars
  PROVE  TimerInv'
<1>1. CASE AnyStep
  <2>1. PICK failed \in SUBSET {x \in Requests : Due(tx[x]) /\ "buffer" \in Failing},
             outcome \in [Servers -> {"sent", "unsent", "none"}] : lwm2m_step(failed, outcome)
    BY <1>1 DEF AnyStep
  <2>2. failed = {}
    BY DEF Board
  <2>3. QED BY <2>1, <2>2, TimerStep
<1>2. ASSUME NEW x \in Requests, NEW r \in Replies(x, Codes, {None}), lwm2m_handle_packet(x, r)
      PROVE  TimerInv'
  <2>1. r.code # "4.01"
    BY DEF Replies
  <2>2. QED BY <1>2, <2>1, TimerPacket
<1>3. CASE \E s \in Servers : lwm2m_update_registration(s)
  BY <1>3 DEF lwm2m_update_registration, Board
<1>4. CASE lwm2m_start
  BY <1>4 DEF lwm2m_start, TimerInv, Armed, OnSchedule, Live, Free
<1>5. CASE Tick
  BY <1>5, TimerTick
<1>6. CASE UNCHANGED vars
  BY <1>6 DEF vars, TimerInv, Armed, OnSchedule, FirstAge, Schedule
<1>7. QED BY <1>1, <1>2, <1>3, <1>4, <1>5, <1>6 DEF Next

\* Only lwm2m_step sends, so every transmission of an update is in time.
LEMMA NextInTime ==
  ASSUME Board, Timely, IInv, BoardInv, TimerInv, [Next]_vars, NEW x \in Requests,
         x[2] = "update", Lifetime[x[1]] > UPDATE_FLOOR, Transmitted(x)
  PROVE  age[x[1]] < Lifetime[x[1]]
<1>1. x[1] \in Servers /\ tx[x] \in TransactionRecord
  BY RequestParts DEF IInv, TypeOK
<1>2. ASSUME NEW outcome, lwm2m_step({}, outcome)
      PROVE  age[x[1]] < Lifetime[x[1]]
  <2> DEFINE n == COAP_MAX_RETRANSMIT
  <2>1. n \in Nat /\ n >= 1 /\ Schedule(n) \in Nat
    BY TransactionConstants, ScheduleStep
  <2>2. 4 * (MaxLag - 1) + Schedule(n) < 2 * UPDATE_MARGIN
    BY DEF Timely
  <2>3. CASE age[x[1]] <= FirstAge(x[1])
    <3>1. QED BY <1>1, <2>1, <2>2, <2>3, ServerNumbers DEF FirstAge
  <2>4. CASE \E c \in 2 .. n : 2 * age[x[1]] <= 2 * (FirstAge(x[1]) + MaxLag - 1) + Schedule(c)
    <3>1. PICK c \in 2 .. n : 2 * age[x[1]] <= 2 * (FirstAge(x[1]) + MaxLag - 1) + Schedule(c)
      BY <2>4
    <3>2. Schedule(c) \in Nat /\ Schedule(c) <= Schedule(n)
      BY <2>1, ScheduleStep, ScheduleGrows
    <3> HIDE DEF n
    <3>3. QED BY <1>1, <2>1, <2>2, <3>1, <3>2, ServerNumbers DEF FirstAge
  <2>5. QED BY <1>2, <2>3, <2>4, SentInTime
<1>3. CASE AnyStep
  <2>1. PICK failed \in SUBSET {y \in Requests : Due(tx[y]) /\ "buffer" \in Failing},
             outcome \in [Servers -> {"sent", "unsent", "none"}] : lwm2m_step(failed, outcome)
    BY <1>3 DEF AnyStep
  <2>2. failed = {}
    BY DEF Board
  <2>3. QED BY <1>2, <2>1, <2>2
<1>4. ASSUME NEW y \in Requests, NEW r, lwm2m_handle_packet(y, r)
      PROVE  FALSE
  <2>1. tx'[x] = tx[x] \/ (x = y /\ Concerns(x, tx[x], r)
                            /\ tx'[x] = transaction_handle_response(x, tx[x], r))
    BY <1>4 DEF lwm2m_handle_packet, IInv, TypeOK
  <2>2. tx'[x].retrans_counter = tx[x].retrans_counter \/ tx'[x] = Free
    BY <1>1, <2>1, ResponseEffect
  <2>3. QED BY <1>1, <2>2 DEF Transmitted, Live, Free, TransactionRecord
<1>5. CASE lwm2m_start
  BY <1>5 DEF lwm2m_start, Transmitted, Live, Free
<1>6. CASE Tick
  BY <1>1, <1>6, SecondEffect DEF Tick, Transmitted, TransactionRecord
<1>7. CASE UNCHANGED vars
  BY <1>1, <1>7 DEF vars, Transmitted, TransactionRecord
<1>8. CASE \E s \in Servers : lwm2m_update_registration(s)
  BY <1>8 DEF lwm2m_update_registration, Board
<1>9. QED BY <1>3, <1>4, <1>5, <1>6, <1>7, <1>8 DEF Next

\* As main.cpp drives the client, with memory left, and while no server answers 4.01:
\* every transmission of an update of a long lifetime goes out before the registration
\* has run out, whatever the timeouts and the lifetime, if the margin leaves room.
THEOREM UpdatesInTime ==
  ASSUME Board, Timely, "4.01" \notin Codes
  PROVE  Spec => UpdateInTime
<1> DEFINE Inv == IInv /\ BoardInv /\ TimerInv
           InTime == \A x \in Requests :
             x[2] = "update" /\ Lifetime[x[1]] > UPDATE_FLOOR /\ Transmitted(x)
               => age[x[1]] < Lifetime[x[1]]
<1>1. Init => Inv
  BY InitInv, BoardInit DEF Init, TimerInv, Armed, OnSchedule, Live, Free
<1>2. Inv /\ [Next]_vars => Inv'
  BY NextInv, BoardNext, TimerNext
<1>3. Inv /\ [Next]_vars => [InTime]_vars
  BY NextInTime
<1>4. UpdateInTime <=> [][InTime]_vars
  BY DEF UpdateInTime
<1> HIDE DEF Inv, InTime
<1>5. QED BY <1>1, <1>2, <1>3, <1>4, PTL DEF Spec

\* lwm2m_step makes no server registered: one that is, or is being updated, was
\* registered before, and its age is the one it had.
LEMMA StepStatus ==
  ASSUME Board, IInv, NEW outcome, lwm2m_step({}, outcome), NEW s \in Servers,
         status'[s] \in {"REGISTERED", "REG_UPDATE_PENDING"}
  PROVE  status[s] \in {"REGISTERED", "REG_UPDATE_PENDING"} /\ age'[s] = age[s]
<1> DEFINE due == {x \in Requests : Due(tx[x])} \ {}
           gone == {x \in due : ~Transmits(tx[x])}
           list == listAfter(due)
           st == statusAfter(gone)
           a == [k \in Servers |-> IF st[k] = status[k] THEN age[k] ELSE 0]
           new == {x \in Requests : /\ x[2] \in Needs(x[1], st[x[1]], a[x[1]])
                                    /\ IsNew(list, x) /\ outcome[x[1]] # "none"}
           sent == {x \in new : outcome[x[1]] = "sent"}
<1>1. /\ status' = [k \in Servers |->
                      IF \E x \in sent : x[1] = k
                        THEN Pending[CHOOSE kind \in Needs(k, st[k], a[k]) : TRUE] ELSE st[k]]
      /\ age' = a
  BY DEF lwm2m_step
<1>2. /\ gone \in SUBSET Requests /\ a[s] = IF st[s] = status[s] THEN age[s] ELSE 0
      /\ \A x \in sent : x \in Requests /\ x[2] \in Needs(x[1], st[x[1]], a[x[1]])
  OBVIOUS
<1>3. st[s] = status[s] \/ st[s] = "REG_FAILED"
  BY <1>2, Halves, TimeoutEffect
<1> HIDE DEF due, gone, list, st, a, new, sent
<1>4. st[s] \in {"REGISTERED", "REG_UPDATE_PENDING"}
  <2>1. CASE \E x \in sent : x[1] = s
    <3>1. PICK x \in sent : x[1] = s
      BY <2>1
    <3>2. /\ x[2] \in Needs(s, st[s], a[s]) /\ x[2] \in Kinds
          /\ Needs(s, st[s], a[s]) = {x[2]}
      BY <1>2, <3>1, NeedsOne
    <3>3. status'[s] = Pending[x[2]]
      BY <1>1, <3>1, <3>2
    <3>4. x[2] = "update"
      BY <3>2, <3>3 DEF Kinds, Pending
    <3>5. QED BY <3>2, <3>4 DEF Needs
  <2>2. CASE ~\E x \in sent : x[1] = s
    BY <1>1, <2>2
  <2>3. QED BY <2>1, <2>2
<1>5. QED BY <1>1, <1>2, <1>3, <1>4

-----------------------------------------------------------------------------
(* The client together with its servers (RegistrationSystem), the client   *)
(* again as main.cpp drives it.  That a server holds what the client has   *)
(* the location of follows from what becomes of the request that creates   *)
(* a registration: as long as it is on the list, the server that accepted  *)
(* it holds what it asked for, since there is no other request.            *)

SystemTypes ==
  /\ remaining \in [Servers -> Nat]
  /\ holder \in [Servers -> Requests \cup {None}]
  /\ decision \in [Requests -> {"unseen", "accepted", "refused"}]

Decided == \A x \in Requests :
  /\ decision[x] # "unseen" => Live(tx[x])
  /\ x[2] = "register" /\ decision[x] = "accepted" => holder[x[1]] = x

SystemInv == SystemTypes /\ Decided /\ LocationCurrent

\* A client does in the system what it does alone.
LEMMA StepAlone == [SystemNext]_systemVars => [Next]_vars
  BY DEF SystemNext, systemVars, SystemStep, Decide, Answer, Restart, SystemTick, Next

\* The client in the system of its servers is the client against any network and any
\* servers: what is proved of the one holds of the other.
THEOREM SystemImplementsClient == SystemSpec => Spec
<1>1. SystemInit => Init
  BY DEF SystemInit
<1>2. QED BY <1>1, StepAlone, PTL DEF SystemSpec, Spec

\* A request whose decision is not forgotten is still on the list.
LEMMA Forgotten ==
  ASSUME SystemTypes, ForgetDecisions
  PROVE  /\ decision' \in [Requests -> {"unseen", "accepted", "refused"}]
         /\ \A x \in Requests : decision'[x] # "unseen" =>
              decision'[x] = decision[x] /\ Live(tx'[x])
  BY DEF SystemTypes, ForgetDecisions, Stays

\* A server that creates or renews a registration has one request to decide on.
LEMMA DecideInv ==
  ASSUME IInv, BoardInv, SystemInv, NEW x \in Requests, Decide(x)
  PROVE  SystemInv'
<1> DEFINE s == x[1]
<1>1. s \in Servers /\ Lifetime[s] \in Nat /\ Live(tx[x]) /\ UNCHANGED vars
  BY RequestParts, RegistrationAssumption DEF Decide
<1>2. SystemTypes'
  BY <1>1 DEF Decide, SystemInv, SystemTypes
<1>3. \A y \in Requests : y[1] = s /\ Live(tx[y]) => y = x /\ status[s] = Pending[x[2]]
  BY <1>1 DEF BoardInv, OneRequestAtATime, OpenRequests
<1>4. \/ holder' = holder
      \/ /\ x[2] = "register" /\ holder' = [holder EXCEPT ![s] = x]
         /\ decision' = [decision EXCEPT ![x] = "accepted"]
  BY DEF Decide
<1>5. /\ \A y \in Requests : y # x => decision'[y] = decision[y]
      /\ x[2] = "register" => holder'[s] = x
  BY <1>1 DEF Decide, SystemInv, SystemTypes
<1>6. Decided'
  <2> SUFFICES ASSUME NEW y \in Requests
               PROVE  /\ decision'[y] # "unseen" => Live(tx[y])
                      /\ y[2] = "register" /\ decision'[y] = "accepted" => holder'[y[1]] = y
    BY <1>1 DEF Decided, vars
  <2>1. CASE y = x
    BY <1>1, <1>5, <2>1
  <2>2. CASE y # x
    <3>1. decision[y] # "unseen" => Live(tx[y]) /\ y[1] # s
      BY <1>3, <2>2 DEF SystemInv, Decided
    <3>2. y[1] # s => holder'[y[1]] = holder[y[1]]
      BY <1>4, RequestParts DEF SystemInv, SystemTypes
    <3>3. QED BY <1>5, <2>2, <3>1, <3>2 DEF SystemInv, Decided
  <2>3. QED BY <2>1, <2>2
<1>7. LocationCurrent'
  <2>1. \A k \in Servers : holder'[k] = holder[k] \/ (k = s /\ x[2] = "register")
    BY <1>4 DEF SystemInv, SystemTypes
  <2>2. x[2] = "register" => status[s] = "REG_PENDING"
    BY <1>1, <1>3 DEF Pending
  <2>3. QED BY <1>1, <2>1, <2>2 DEF LocationCurrent, SystemInv, vars
<1>8. QED BY <1>2, <1>6, <1>7 DEF SystemInv

\* An answer that ends a registration names the location of what the server holds.
LEMMA AnswerInv ==
  ASSUME Board, IInv, BoardInv, SystemInv, NEW x \in Requests,
         NEW r \in Replies(x, Codes, {None}), Answer(x, r)
  PROVE  SystemInv'
<1> DEFINE s == x[1]
           st == callback(x[2], status[s], r.code)
           concludes == Concerns(x, tx[x], r) /\ Concludes(x, tx[x], r)
<1>1. /\ s \in Servers /\ x[2] \in Kinds /\ UNCHANGED <<remaining, holder>> /\ ForgetDecisions
      /\ decision[x] # "unseen" /\ Sends(x, r)
  BY RequestParts DEF Answer
<1>2. IF concludes /\ status[s] = Pending[x[2]]
        THEN /\ status' = [status EXCEPT ![s] = st]
             /\ \E l \in locations(x, st) : location' = [location EXCEPT ![s] = l]
        ELSE UNCHANGED <<status, location>>
  BY DEF Answer, lwm2m_handle_packet
<1>3. SystemTypes' /\ Decided'
  BY <1>1, Forgotten DEF SystemInv, SystemTypes, Decided
<1>4. LocationCurrent'
  <2>1. CASE ~(concludes /\ status[s] = Pending[x[2]])
    BY <1>1, <1>2, <2>1 DEF SystemInv, LocationCurrent
  <2>2. CASE concludes /\ status[s] = Pending[x[2]]
    <3>1. /\ status'[s] = st /\ st \in {"REGISTERED", "REG_FAILED"}
          /\ location'[s] \in locations(x, st)
          /\ \A k \in Servers : k # s => status'[k] = status[k] /\ location'[k] = location[k]
      BY <1>1, <1>2, <2>2, Answered DEF IInv, TypeOK
    <3>2. ASSUME st = "REGISTERED" PROVE location'[s] = holder[s]
      <4>1. CASE x[2] = "register"
        <5>1. r.code = "2.01"
          BY <2>2, <3>2, <4>1 DEF callback, prv_handleRegistrationReply, Pending
        <5>2. decision[x] = "accepted"
          BY <1>1, <4>1, <5>1 DEF Sends
        <5>3. location'[s] = x
          BY <3>1, <3>2, <4>1 DEF locations, Board
        <5>4. QED BY <4>1, <5>2, <5>3 DEF SystemInv, Decided
      <4>2. CASE x[2] = "update"
        <5>1. status[s] = "REG_UPDATE_PENDING" /\ location'[s] = location[s]
          BY <2>2, <3>1, <4>2 DEF Pending, locations
        <5>2. QED BY <1>1, <5>1 DEF SystemInv, LocationCurrent
      <4>3. QED BY <1>1, <4>1, <4>2 DEF Kinds
    <3> HIDE DEF st, concludes
    <3>3. QED BY <1>1, <3>1, <3>2 DEF SystemInv, LocationCurrent
  <2>3. QED BY <2>1, <2>2
<1>5. QED BY <1>3, <1>4 DEF SystemInv

\* lwm2m_step makes no server registered and touches no location.
LEMMA SystemStepInv ==
  ASSUME Board, IInv, SystemInv, SystemStep
  PROVE  SystemInv'
<1>1. PICK failed \in SUBSET {x \in Requests : Due(tx[x]) /\ "buffer" \in Failing},
           outcome \in [Servers -> {"sent", "unsent", "none"}] : lwm2m_step(failed, outcome)
  BY DEF SystemStep, AnyStep
<1>2. ForgetDecisions /\ UNCHANGED <<remaining, holder, location>>
  BY <1>1 DEF SystemStep, lwm2m_step
<1>3. SystemTypes' /\ Decided'
  BY <1>2, Forgotten DEF SystemInv, SystemTypes, Decided
<1>4. ASSUME NEW s \in Servers, status'[s] \in {"REGISTERED", "REG_UPDATE_PENDING"}
      PROVE  status[s] \in {"REGISTERED", "REG_UPDATE_PENDING"}
  <2>1. lwm2m_step({}, outcome)
    BY <1>1 DEF Board
  <2>2. QED BY <1>4, <2>1, StepStatus
<1>5. QED BY <1>2, <1>3, <1>4 DEF SystemInv, LocationCurrent

\* Every step of the system.
LEMMA SystemNextInv ==
  ASSUME Board, IInv, BoardInv, SystemInv, [SystemNext]_systemVars
  PROVE  SystemInv'
<1>1. CASE SystemStep
  BY <1>1, SystemStepInv
<1>2. CASE \E x \in Requests : Decide(x)
  BY <1>2, DecideInv
<1>3. CASE \E x \in Requests : \E r \in Replies(x, Codes, {None}) : Answer(x, r)
  BY <1>3, AnswerInv
<1>4. CASE Restart
  BY <1>4, Forgotten DEF Restart, lwm2m_start, SystemInv, SystemTypes, Decided, LocationCurrent
<1>5. CASE SystemTick
  <2>1. \A x \in Requests : Live(tx'[x]) <=> Live(tx[x])
    BY <1>5, SecondEffect DEF SystemTick, Tick, IInv, TypeOK, Live
  <2>2. remaining' \in [Servers -> Nat]
    BY <1>5 DEF SystemTick, SystemInv, SystemTypes
  <2>3. UNCHANGED <<holder, decision, status, location>>
    BY <1>5 DEF SystemTick, Tick
  <2>4. QED BY <2>1, <2>2, <2>3 DEF SystemInv, SystemTypes, Decided, LocationCurrent
<1>6. CASE UNCHANGED systemVars
  BY <1>6 DEF systemVars, vars, SystemInv, SystemTypes, Decided, LocationCurrent
<1>7. QED BY <1>1, <1>2, <1>3, <1>4, <1>5, <1>6 DEF SystemNext

\* Initially the servers hold nothing.
LEMMA SystemInitInv == SystemInit => IInv /\ BoardInv /\ SystemInv
  BY InitInv, BoardInit DEF SystemInit, Init, SystemInv, SystemTypes, Decided, LocationCurrent

\* As main.cpp drives the client, with memory left and whatever is lost, late or
\* restarted: a client that believes it is registered has the location of the
\* registration its server holds, for any servers, lifetimes and delays.
THEOREM LocationIsCurrent ==
  ASSUME Board
  PROVE  SystemSpec => []LocationCurrent
<1>1. SystemInit => IInv /\ BoardInv /\ SystemInv
  BY SystemInitInv
<1>2. IInv /\ BoardInv /\ SystemInv /\ [SystemNext]_systemVars =>
        (IInv /\ BoardInv /\ SystemInv)'
  BY StepAlone, NextInv, BoardNext, SystemNextInv
<1>3. SystemInv => LocationCurrent
  BY DEF SystemInv
<1>4. QED BY <1>1, <1>2, <1>3, PTL DEF SystemSpec

-----------------------------------------------------------------------------
(* The chance to resend.  What the client counts from an answer lags behind *)
(* what the server counts from its decision by at most MaxDelay; with the  *)
(* schedule of an update, that bounds what the server has left when the    *)
(* update and its first retransmission go out.                             *)

\* A server holds a registration at least until the client, counting from the
\* answer, finds it Lifetime - MaxDelay old.
Held == \A s \in Servers : status[s] \in {"REGISTERED", "REG_UPDATE_PENDING"} =>
  remaining[s] + MaxDelay + age[s] >= Lifetime[s]

ChanceInv == SystemTypes /\ Decided /\ Held /\ TimerInv

\* The margin leaves room for the delay of the answer, the first timeout and the
\* loop being late twice: with the numbers of the sources, delays up to 10 seconds.
RoomToResend == MaxDelay + COAP_RESPONSE_TIMEOUT + 2 * (MaxLag - 1) < UPDATE_MARGIN

\* A server is held to what it accepted last, whatever the client knows of it.
LEMMA DecideHeld ==
  ASSUME IInv, SystemTypes, Held, NEW x \in Requests, Decide(x)
  PROVE  Held'
<1>1. x[1] \in Servers /\ UNCHANGED vars
  BY RequestParts DEF Decide
<1>2. \A s \in Servers : /\ Lifetime[s] \in Nat /\ age[s] \in Nat /\ remaining[s] \in Nat
                         /\ remaining'[s] = remaining[s] \/ remaining'[s] = Lifetime[s]
  BY <1>1, RegistrationAssumption DEF Decide, IInv, TypeOK, SystemTypes
<1>3. QED BY <1>1, <1>2, MaxDelayAssumption DEF Held, vars

\* An answer that leaves a server registered was read in time.
LEMMA AnswerHeld ==
  ASSUME IInv, SystemTypes, Held, NEW x \in Requests, NEW r, Answer(x, r)
  PROVE  Held'
<1> DEFINE s == x[1]
           st == callback(x[2], status[s], r.code)
           ends == Concerns(x, tx[x], r) /\ Concludes(x, tx[x], r) /\ status[s] = Pending[x[2]]
<1>1. /\ s \in Servers /\ x[2] \in Kinds /\ remaining' = remaining /\ Sends(x, r)
      /\ decision[x] = "accepted" => remaining[s] + MaxDelay >= Lifetime[s]
  BY RequestParts DEF Answer
<1>2. IF ends THEN /\ status' = [status EXCEPT ![s] = st]
                   /\ age' = [age EXCEPT ![s] = 0]
              ELSE UNCHANGED <<status, age>>
  BY DEF Answer, lwm2m_handle_packet
<1>3. CASE ends
  <2>1. /\ status'[s] = st /\ age'[s] = 0
        /\ \A k \in Servers : k # s => status'[k] = status[k] /\ age'[k] = age[k]
    BY <1>1, <1>2, <1>3 DEF IInv, TypeOK
  <2>2. st = "REGISTERED" \/ st = "REG_FAILED"
    BY <1>1, <1>3, Answered
  <2>3. ASSUME st = "REGISTERED" PROVE decision[x] = "accepted"
    <3>1. r.code = "2.01" \/ r.code = "2.04"
      BY <1>1, <1>3, <2>3 DEF callback, prv_handleRegistrationReply,
            prv_handleRegistrationUpdateReply, Pending, Kinds
    <3>2. QED BY <1>1, <3>1 DEF Sends
  <2>4. remaining[s] \in Nat
    BY <1>1 DEF SystemTypes
  <2> HIDE DEF st, ends
  <2>5. QED BY <1>1, <2>1, <2>2, <2>3, <2>4, MaxDelayAssumption DEF Held
<1>4. CASE ~ends
  BY <1>1, <1>2, <1>4 DEF Held
<1>5. QED BY <1>3, <1>4

\* A second takes one from what the server has left and adds one to what the
\* client counts, which stops only when it is beyond the lifetime.
LEMMA TickHeld ==
  ASSUME IInv, SystemTypes, Held, SystemTick
  PROVE  Held'
<1> SUFFICES ASSUME NEW s \in Servers, status[s] \in {"REGISTERED", "REG_UPDATE_PENDING"}
             PROVE  remaining'[s] + MaxDelay + age'[s] >= Lifetime[s]
  BY DEF Held, SystemTick, Tick
<1>1. /\ Lifetime[s] \in Nat /\ MaxLag \in Nat /\ MaxDelay \in Nat
      /\ age[s] \in Nat /\ remaining[s] \in Nat
  BY RegistrationAssumption, MaxDelayAssumption DEF IInv, TypeOK, SystemTypes
<1>2. remaining[s] + MaxDelay + age[s] >= Lifetime[s]
  BY DEF Held
<1>3. /\ remaining'[s] = IF remaining[s] > 0 THEN remaining[s] - 1 ELSE 0
      /\ age'[s] = IF age[s] < MaxAge(s) THEN age[s] + 1 ELSE age[s]
  BY DEF SystemTick, Tick
<1>4. MaxAge(s) > Lifetime[s]
  BY <1>1 DEF MaxAge
<1>5. QED BY <1>1, <1>2, <1>3, <1>4, MaxAgeType

\* Every step of the system keeps what its servers hold and the schedules.
LEMMA ChanceNext ==
  ASSUME Board, IInv, BoardInv, SystemInv, ChanceInv, [SystemNext]_systemVars
  PROVE  ChanceInv'
<1>1. SystemTypes' /\ Decided'
  BY SystemNextInv DEF SystemInv
<1>2. CASE SystemStep
  <2>1. PICK failed \in SUBSET {x \in Requests : Due(tx[x]) /\ "buffer" \in Failing},
             outcome \in [Servers -> {"sent", "unsent", "none"}] : lwm2m_step(failed, outcome)
    BY <1>2 DEF SystemStep, AnyStep
  <2>2. lwm2m_step({}, outcome)
    BY <2>1 DEF Board
  <2>3. TimerInv'
    BY <2>2, TimerStep DEF ChanceInv
  <2>4. remaining' = remaining
    BY <1>2 DEF SystemStep
  <2>5. Held'
    BY <2>2, <2>4, StepStatus DEF ChanceInv, Held
  <2>6. QED BY <1>1, <2>3, <2>5 DEF ChanceInv
<1>3. ASSUME NEW x \in Requests, Decide(x)
      PROVE  ChanceInv'
  <2>1. UNCHANGED vars
    BY <1>3 DEF Decide
  <2>2. TimerInv'
    BY <2>1 DEF vars, ChanceInv, TimerInv, Armed, OnSchedule, FirstAge, Schedule
  <2>3. QED BY <1>1, <1>3, <2>2, DecideHeld DEF ChanceInv
<1>4. ASSUME NEW x \in Requests, NEW r, Answer(x, r)
      PROVE  ChanceInv'
  <2>1. r.code # "4.01" /\ lwm2m_handle_packet(x, r)
    BY <1>4 DEF Answer, Sends
  <2>2. TimerInv'
    BY <2>1, TimerPacket DEF ChanceInv
  <2>3. QED BY <1>1, <1>4, <2>2, AnswerHeld DEF ChanceInv
<1>5. CASE Restart
  <2>1. TimerInv' /\ Held'
    BY <1>5 DEF Restart, lwm2m_start, TimerInv, Armed, OnSchedule, Live, Free, Held
  <2>2. QED BY <1>1, <2>1 DEF ChanceInv
<1>6. CASE SystemTick
  <2>1. TimerInv'
    BY <1>6, TimerTick DEF SystemTick, ChanceInv
  <2>2. QED BY <1>1, <1>6, <2>1, TickHeld DEF ChanceInv
<1>7. CASE UNCHANGED systemVars
  BY <1>1, <1>7 DEF systemVars, vars, ChanceInv, Held, TimerInv, Armed, OnSchedule, FirstAge, Schedule
<1>8. QED BY <1>2, <1>3, <1>4, <1>5, <1>6, <1>7 DEF SystemNext

\* What the server has left when an update, or its first retransmission, goes out.
LEMMA NextChance ==
  ASSUME Board, RoomToResend, IInv, BoardInv, ChanceInv, [SystemNext]_systemVars,
         NEW x \in Requests, x[2] = "update", Lifetime[x[1]] > UPDATE_FLOOR,
         Transmitted(x), tx'[x].retrans_counter <= 3
  PROVE  remaining[x[1]] > 0
<1> DEFINE s == x[1]
<1>1. /\ s \in Servers /\ tx[x] \in TransactionRecord /\ remaining[s] \in Nat
      /\ MaxDelay \in Nat /\ MaxDelay + COAP_RESPONSE_TIMEOUT + 2 * (MaxLag - 1) < UPDATE_MARGIN
  BY RequestParts, MaxDelayAssumption DEF IInv, TypeOK, ChanceInv, SystemTypes, RoomToResend
<1>2. CASE SystemStep
  <2>1. PICK failed \in SUBSET {y \in Requests : Due(tx[y]) /\ "buffer" \in Failing},
             outcome \in [Servers -> {"sent", "unsent", "none"}] : lwm2m_step(failed, outcome)
    BY <1>2 DEF SystemStep, AnyStep
  <2>2. lwm2m_step({}, outcome) /\ TimerInv
    BY <2>1 DEF Board, ChanceInv
  <2>3. CASE status[s] = "REGISTERED" /\ age[s] <= FirstAge(s)
    <3>1. remaining[s] + MaxDelay + age[s] >= Lifetime[s]
      BY <1>1, <2>3 DEF ChanceInv, Held
    <3>2. QED BY <1>1, <2>3, <3>1, ServerNumbers DEF FirstAge
  <2>4. CASE /\ Live(tx[x])
             /\ \E c \in 2 .. COAP_MAX_RETRANSMIT :
                  /\ tx'[x].retrans_counter = c + 1
                  /\ 2 * age[s] <= 2 * (FirstAge(s) + MaxLag - 1) + Schedule(c)
    <3>1. COAP_MAX_RETRANSMIT \in Nat
      BY TransactionConstants
    <3>2. PICK c \in 2 .. COAP_MAX_RETRANSMIT :
            /\ tx'[x].retrans_counter = c + 1
            /\ 2 * age[s] <= 2 * (FirstAge(s) + MaxLag - 1) + Schedule(c)
      BY <2>4
    <3>3. c = 2
      BY <3>1, <3>2
    <3>4. Schedule(c) = 2 * COAP_RESPONSE_TIMEOUT
      BY <3>3, TransactionConstants DEF Schedule
    <3>5. status[s] = "REG_UPDATE_PENDING"
      BY <1>1, <2>4 DEF BoardInv, OneRequestAtATime, OpenRequests, Pending
    <3>6. remaining[s] + MaxDelay + age[s] >= Lifetime[s]
      BY <1>1, <3>5 DEF ChanceInv, Held
    <3>7. QED BY <1>1, <3>2, <3>4, <3>6, ServerNumbers DEF FirstAge
  <2>5. QED BY <2>2, <2>3, <2>4, SentInTime
<1>3. ASSUME NEW y \in Requests, NEW r, lwm2m_handle_packet(y, r)
      PROVE  FALSE
  <2>1. tx'[x] = tx[x] \/ (x = y /\ Concerns(x, tx[x], r)
                            /\ tx'[x] = transaction_handle_response(x, tx[x], r))
    BY <1>3 DEF lwm2m_handle_packet, IInv, TypeOK
  <2>2. tx'[x].retrans_counter = tx[x].retrans_counter \/ tx'[x] = Free
    BY <1>1, <2>1, ResponseEffect
  <2>3. QED BY <1>1, <2>2 DEF Transmitted, Live, Free, TransactionRecord
<1>4. CASE Restart
  BY <1>4 DEF Restart, lwm2m_start, Transmitted, Live, Free
<1>5. CASE SystemTick
  BY <1>1, <1>5, SecondEffect DEF SystemTick, Tick, Transmitted, TransactionRecord
<1>6. CASE UNCHANGED vars
  BY <1>1, <1>6 DEF vars, Transmitted, TransactionRecord
<1>7. QED BY <1>2, <1>3, <1>4, <1>5, <1>6 DEF SystemNext, systemVars, Decide, Answer

\* "update 15s earlier to have a chance to resend", for all timeouts and delays that
\* leave room in the margin and for lifetimes long enough to be updated ahead: the
\* update and its first retransmission find the registration on the server.
THEOREM UpdateHasItsChance ==
  ASSUME Board, RoomToResend, \A s \in Servers : Lifetime[s] > UPDATE_FLOOR
  PROVE  SystemSpec => ChanceToResend
<1> DEFINE Inv == IInv /\ BoardInv /\ SystemInv /\ ChanceInv
           HasChance == \A x \in Requests :
             /\ x[2] = "update" /\ decision[x] = "unseen"
             /\ Transmitted(x) /\ tx'[x].retrans_counter <= 3
             => remaining[x[1]] > 0
<1>1. SystemInit => Inv
  <2>1. SystemInit => Held /\ TimerInv
    BY DEF SystemInit, Init, Held, TimerInv, Armed, OnSchedule, Live, Free
  <2>2. QED BY <2>1, SystemInitInv DEF ChanceInv, SystemInv
<1>2. Inv /\ [SystemNext]_systemVars => Inv'
  BY StepAlone, NextInv, BoardNext, SystemNextInv, ChanceNext
<1>3. Inv /\ [SystemNext]_systemVars => [HasChance]_systemVars
  BY NextChance, RequestParts
<1>4. ChanceToResend <=> [][HasChance]_systemVars
  BY DEF ChanceToResend
<1> HIDE DEF Inv, HasChance
<1>5. QED BY <1>1, <1>2, <1>3, <1>4, PTL DEF SystemSpec
=============================================================================
