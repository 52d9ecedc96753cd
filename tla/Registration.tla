----------------------------- MODULE Registration -----------------------------
(***************************************************************************)
(* The registration of the client with each LWM2M server: the client half  *)
(* of wakaama/registration.c driven by lwm2m_step (liblwm2m.c) over the    *)
(* transactions of TransactionOps, against a network and servers that may  *)
(* lose, delay, repeat or refuse anything.                                 *)
(*                                                                         *)
(* The client is one thread: lwm2m_step, lwm2m_handle_packet and the calls *)
(* of the application are atomic with respect to each other.  A request is *)
(* a place <<server, callback, number>>; a late datagram of a request that *)
(* has left the list changes nothing in the client, so the places of       *)
(* concluded requests are reused and their datagrams forgotten.            *)
(*                                                                         *)
(* Failing names the allocations that may fail, Calls what may happen      *)
(* besides the main loop: "update" is lwm2m_update_registration (offered   *)
(* by liblwm2m.h, not called by main.cpp), "restart" is lwm2m_start, after *)
(* a reset of the board or called again.                                   *)
(***************************************************************************)
EXTENDS TransactionOps, FiniteSets

CONSTANTS
  Servers,        \* contextP->serverList
  Lifetime,       \* lifetime of each registration in seconds
  UPDATE_FLOOR,   \* 30: longer lifetimes are updated ahead of time ...
  UPDATE_MARGIN,  \* 15: ... by this many seconds
  Codes,          \* response codes told apart
  Copies,         \* datagrams one transmission may bring back
  Places,         \* requests of one kind one server may have on the list
  MaxLag,         \* seconds between two calls of lwm2m_step
  Failing,        \* allocations that may fail: "request", "buffer", "location"
  Calls           \* "update", "restart"

ASSUME RegistrationAssumption ==
  /\ Lifetime \in [Servers -> Nat]
  /\ UPDATE_FLOOR \in Nat /\ UPDATE_MARGIN \in Nat /\ UPDATE_MARGIN <= UPDATE_FLOOR
  /\ "0.00" \notin Codes /\ None \notin {"2.01", "2.04"}
  /\ Copies \in Nat \ {0} /\ Places \in Nat \ {0}
  /\ MaxLag \in Nat \ {0} /\ MaxLag < 2 * COAP_RESPONSE_TIMEOUT
  /\ Failing \subseteq {"request", "buffer", "location"}
  /\ Calls \subseteq {"update", "restart"}

Kinds == {"register", "update"}
Requests == Servers \X Kinds \X (1 .. Places)
ASSUME NoneIsNoRequest == None \notin Requests

Pending == [register |-> "REG_PENDING", update |-> "REG_UPDATE_PENDING"]

VARIABLES
  status,    \* server->status
  age,       \* lwm2m_gettime() - server->registration, saturating at MaxAge
  location,  \* server->location: the request whose 2.01 named it, None if NULL
  tx,        \* contextP->transactionList
  inFlight,  \* datagrams about a request that may still reach the client
  lag        \* seconds since lwm2m_step was last called

vars == <<status, age, location, tx, inFlight, lag>>

\* Beyond this age nothing depends on how old a registration is.
MaxAge(s) == Lifetime[s] + MaxLag + 1

TypeOK ==
  /\ status \in [Servers -> {"DEREGISTERED", "REG_PENDING", "REGISTERED",
                             "REG_UPDATE_PENDING", "REG_FAILED"}]
  /\ age \in [Servers -> Nat] /\ \A s \in Servers : age[s] <= MaxAge(s)
  /\ location \in [Servers -> Requests \cup {None}]
  /\ tx \in [Requests -> TransactionRecord]
  /\ inFlight \in [Requests -> Nat]
  /\ lag \in 0 .. MaxLag

\* lwm2m_start: nothing on the list, every server freshly read.
Init ==
  /\ status = [s \in Servers |-> "DEREGISTERED"]
  /\ age = [s \in Servers |-> 0]
  /\ location = [s \in Servers |-> None]
  /\ tx = [x \in Requests |-> Free]
  /\ inFlight = [x \in Requests |-> 0]
  /\ lag = 0

-----------------------------------------------------------------------------
(* The callbacks of the requests, as the status they leave; None stands    *)
(* for the NULL message of a request that was given up.                    *)

prv_handleRegistrationReply_IgnoresTimeout(st, code) ==
  IF st # "REG_PENDING" \/ code = None THEN st
  ELSE IF code = "2.01" THEN "REGISTERED" ELSE "REG_FAILED"
prv_handleRegistrationReply(st, code) ==
  IF st # "REG_PENDING" THEN st
  ELSE IF code = "2.01" THEN "REGISTERED" ELSE "REG_FAILED"

prv_handleRegistrationUpdateReply(st, code) ==
  IF st # "REG_UPDATE_PENDING" THEN st
  ELSE IF code = "2.04" THEN "REGISTERED" ELSE "REG_FAILED"

callback(kind, st, code) ==
  IF kind = "register" THEN prv_handleRegistrationReply(st, code)
                       ELSE prv_handleRegistrationUpdateReply(st, code)

\* The location a server may have once its request x is answered with st.
locations_KeepsFirst(x, st) ==
  IF x[2] = "update" \/ st = "REG_FAILED" \/ location[x[1]] # None THEN {location[x[1]]}
  ELSE {x} \cup (IF "location" \in Failing THEN {None} ELSE {})
locations(x, st) ==
  IF x[2] = "update" \/ st = "REG_FAILED" THEN {location[x[1]]}
  ELSE {x} \cup (IF "location" \in Failing THEN {None} ELSE {})

-----------------------------------------------------------------------------
(* registration_update: what a server in status st, a seconds after its    *)
(* last registration, needs now.                                           *)

nextUpdate_LateByMargin(s) == Lifetime[s]
nextUpdate(s) ==
  IF Lifetime[s] > UPDATE_FLOOR THEN Lifetime[s] - UPDATE_MARGIN ELSE Lifetime[s]

Needs_AlsoWhilePending(s, st, a) ==
  IF st \in {"REGISTERED", "REG_UPDATE_PENDING"} /\ a >= nextUpdate(s) THEN {"update"}
  ELSE IF st = "DEREGISTERED" \/ (st = "REG_FAILED" /\ a >= Lifetime[s]) THEN {"register"}
  ELSE {}
Needs_ForgetsFailed(s, st, a) ==
  IF st = "REGISTERED" /\ a >= nextUpdate(s) THEN {"update"}
  ELSE IF st = "DEREGISTERED" THEN {"register"}
  ELSE {}
Needs_StrictInterval(s, st, a) ==
  IF st = "REGISTERED" /\ a > nextUpdate(s) THEN {"update"}
  ELSE IF st = "DEREGISTERED" \/ (st = "REG_FAILED" /\ a > Lifetime[s]) THEN {"register"}
  ELSE {}
Needs(s, st, a) ==
  IF st = "REGISTERED" /\ a >= nextUpdate(s) THEN {"update"}
  ELSE IF st = "DEREGISTERED" \/ (st = "REG_FAILED" /\ a >= Lifetime[s]) THEN {"register"}
  ELSE {}

\* How prv_register and prv_update_registration may end for the places in
\* list: the request is sent, is left on the list unsent because its buffer was
\* not allocated, or was never made.
Outcomes(list, s, kind) ==
  LET free == {i \in 1 .. Places : ~Live(list[<<s, kind, i>>])}
  IN  (IF free = {} THEN {"none"} ELSE {"sent"})
        \cup (IF "buffer" \in Failing /\ free # {} THEN {"unsent"} ELSE {})
        \cup (IF "request" \in Failing THEN {"none"} ELSE {})

\* The place a new request takes on the list: the first one that is free, or
\* another one if the location of the server is named after it.
Before(x, y) ==
  IF (x = location[x[1]]) = (y = location[y[1]]) THEN x[3] < y[3] ELSE y = location[y[1]]

IsNew(list, x) ==
  /\ ~Live(list[x])
  /\ \A i \in 1 .. Places : Before(<<x[1], x[2], i>>, x) => Live(list[<<x[1], x[2], i>>])

-----------------------------------------------------------------------------
(* The calls of the main loop. *)

\* The loop of lwm2m_step over the transactions: the requests in due are sent
\* again or, those in gone, given up with a callback on their server.
listAfter(due) == [x \in Requests |-> IF x \in due THEN transaction_send(tx[x]) ELSE tx[x]]

statusAfter(gone) ==
  LET lost(s, kind) == \E x \in gone : x[1] = s /\ x[2] = kind
      st == [s \in Servers |-> IF lost(s, "register")
                                 THEN callback("register", status[s], None) ELSE status[s]]
  IN  [s \in Servers |-> IF lost(s, "update") THEN callback("update", st[s], None) ELSE st[s]]

\* lwm2m_step: the loop over the due requests, except those in failed, whose
\* buffer could not be allocated; then registration_update on every server, with
\* the outcome of the request it needs.
lwm2m_step(failed, outcome) ==
  LET due == {x \in Requests : Due(tx[x])} \ failed
      gone == {x \in due : ~Transmits(tx[x])}
      list == listAfter(due)
      st == statusAfter(gone)
      a == [s \in Servers |-> IF st[s] = status[s] THEN age[s] ELSE 0]
      new == {x \in Requests : /\ x[2] \in Needs(x[1], st[x[1]], a[x[1]])
                               /\ IsNew(list, x) /\ outcome[x[1]] # "none"}
      sent == {x \in new : outcome[x[1]] = "sent"}
  IN  /\ \A x \in failed : Due(tx[x]) /\ tx[x].retrans_counter = 0
      /\ \A s \in Servers :
           IF Needs(s, st[s], a[s]) = {} THEN outcome[s] = "none"
           ELSE \A kind \in Needs(s, st[s], a[s]) : outcome[s] \in Outcomes(list, s, kind)
      /\ tx' = [x \in Requests |-> IF x \in sent THEN transaction_send(transaction_new)
                                   ELSE IF x \in new THEN transaction_new ELSE list[x]]
      /\ inFlight' = [x \in Requests |-> IF x \in sent THEN Copies
                                         ELSE IF x \in gone \cup new THEN 0
                                         ELSE IF x \in due THEN inFlight[x] + Copies
                                         ELSE inFlight[x]]
      /\ status' = [s \in Servers |->
                      IF \E x \in sent : x[1] = s
                        THEN Pending[CHOOSE kind \in Needs(s, st[s], a[s]) : TRUE] ELSE st[s]]
      /\ age' = a
      /\ lag' = 0
      /\ UNCHANGED location

\* lwm2m_handle_packet on a datagram r about request x: transaction_handle_response,
\* with the callback when r concludes the request.
lwm2m_handle_packet(x, r) ==
  LET s == x[1]
      st == callback(x[2], status[s], r.code)
      concludes == Concerns(x, tx[x], r) /\ Concludes(x, tx[x], r)
  IN  /\ inFlight[x] > 0
      /\ tx' = [tx EXCEPT ![x] = IF Concerns(x, @, r)
                                   THEN transaction_handle_response(x, @, r) ELSE @]
      /\ inFlight' = [inFlight EXCEPT ![x] = IF concludes THEN 0 ELSE @ - 1]
      /\ IF concludes /\ status[s] = Pending[x[2]]
           THEN /\ status' = [status EXCEPT ![s] = st]
                /\ age' = [age EXCEPT ![s] = 0]
                /\ \E l \in locations(x, st) : location' = [location EXCEPT ![s] = l]
           ELSE UNCHANGED <<status, age, location>>
      /\ UNCHANGED lag

-----------------------------------------------------------------------------
(* What the application and the board may do. *)

\* lwm2m_update_registration, whatever the status of the server.  Without a location
\* the request is made all the same: coap_set_header_uri_path then reads its path at
\* address 0, and what it says there changes nothing in the client.
lwm2m_update_registration_AlwaysPending(s) ==
  /\ "update" \in Calls
  /\ \E outcome \in Outcomes(tx, s, "update") \ {"none"}, x \in Requests :
       /\ x[1] = s /\ x[2] = "update" /\ IsNew(tx, x)
       /\ tx' = [tx EXCEPT ![x] = IF outcome = "sent" THEN transaction_send(transaction_new)
                                                      ELSE transaction_new]
       /\ inFlight' = [inFlight EXCEPT ![x] = IF outcome = "sent" THEN Copies ELSE 0]
       /\ status' = [status EXCEPT ![s] = "REG_UPDATE_PENDING"]
  /\ UNCHANGED <<age, location, lag>>
lwm2m_update_registration(s) ==
  /\ "update" \in Calls
  /\ \E outcome \in Outcomes(tx, s, "update") \ {"none"}, x \in Requests :
       /\ x[1] = s /\ x[2] = "update" /\ IsNew(tx, x)
       /\ tx' = [tx EXCEPT ![x] = IF outcome = "sent" THEN transaction_send(transaction_new)
                                                      ELSE transaction_new]
       /\ inFlight' = [inFlight EXCEPT ![x] = IF outcome = "sent" THEN Copies ELSE 0]
       /\ status' = [status EXCEPT ![s] = IF outcome = "sent" THEN "REG_UPDATE_PENDING" ELSE @]
  /\ UNCHANGED <<age, location, lag>>

\* lwm2m_start: the transactions are deleted, the server list is rebuilt.
lwm2m_start ==
  /\ "restart" \in Calls
  /\ status' = [s \in Servers |-> "DEREGISTERED"]
  /\ age' = [s \in Servers |-> 0]
  /\ location' = [s \in Servers |-> None]
  /\ tx' = [x \in Requests |-> Free]
  /\ inFlight' = [x \in Requests |-> 0]
  /\ UNCHANGED lag

Tick ==
  /\ lag < MaxLag
  /\ lag' = lag + 1
  /\ age' = [s \in Servers |-> IF age[s] < MaxAge(s) THEN age[s] + 1 ELSE age[s]]
  /\ tx' = [x \in Requests |-> Second(tx[x])]
  /\ UNCHANGED <<status, location, inFlight>>

AnyStep == \E failed \in SUBSET {x \in Requests : Due(tx[x]) /\ "buffer" \in Failing} :
             \E outcome \in [Servers -> {"sent", "unsent", "none"}] :
               lwm2m_step(failed, outcome)

Next ==
  \/ AnyStep
  \/ \E x \in Requests : \E r \in Replies(x, Codes, {None}) : lwm2m_handle_packet(x, r)
  \/ \E s \in Servers : lwm2m_update_registration(s)
  \/ lwm2m_start
  \/ Tick

Spec == Init /\ [][Next]_vars

\* The main loop goes on calling lwm2m_step and time passes.
Fairness == WF_vars(AnyStep) /\ WF_vars(Tick)

\* Server s accepts request x in time.
Accepted(s) == \E x \in Requests : \E r \in Replies(x, {"2.01", "2.04"}, {None}) :
                 /\ x[1] = s /\ status[s] = Pending[x[2]]
                 /\ callback(x[2], status[s], r.code) = "REGISTERED"
                 /\ lwm2m_handle_packet(x, r)

FairSpec == Spec /\ Fairness

\* A server that does not refuse or ignore the client for ever.
AnsweredSpec == FairSpec /\ \A s \in Servers : SF_vars(Accepted(s))

-----------------------------------------------------------------------------
(* Properties. *)

OpenRequests(s) == {x \in Requests : x[1] = s /\ Live(tx[x])}

\* Nothing in registration_update ends a pending state ("TODO: check for timeout
\* and retry?"): while one lasts, a request that was sent and whose callback
\* ends it is on the list.
PendingHasRequest ==
  \A s \in Servers : status[s] \in {"REG_PENDING", "REG_UPDATE_PENDING"} =>
    \E x \in OpenRequests(s) : Pending[x[2]] = status[s] /\ tx[x].retrans_counter > 0

\* In the program as main.cpp drives it, and while memory lasts, a server is
\* never waited for twice: one request in a pending state, none in the others.
OneRequestAtATime ==
  \A s \in Servers :
    \/ status[s] \notin {"REG_PENDING", "REG_UPDATE_PENDING"} /\ OpenRequests(s) = {}
    \/ \E x \in OpenRequests(s) : OpenRequests(s) = {x} /\ Pending[x[2]] = status[s]

\* No registration is left without an update past its time, and no failure
\* without a new attempt, by more than the lag of the loop.
RegistrationFresh ==
  \A s \in Servers :
    /\ status[s] = "REGISTERED" /\ nextUpdate(s) > 0 => age[s] < nextUpdate(s) + lag
    /\ status[s] = "REG_FAILED" /\ Lifetime[s] > 0 => age[s] < Lifetime[s] + lag

Transmitted(x) == Live(tx'[x]) /\ tx'[x].retrans_counter > tx[x].retrans_counter

\* "update 15s earlier to have a chance to resend": when lifetimes are long
\* enough, every transmission of an update, the last retransmission included,
\* goes out before the registration the client counts from has run out.  Answers
\* 4.01 are left out: each puts the next transmission off by one more timeout.
UpdateInTime ==
  [][\A x \in Requests :
       x[2] = "update" /\ Lifetime[x[1]] > UPDATE_FLOOR /\ Transmitted(x)
         => age[x[1]] < Lifetime[x[1]]]_vars

\* With a server that goes on accepting, the client is registered again and
\* again: no failure, refusal or reset is final.
AlwaysReturns == \A s \in Servers : []<>(status[s] = "REGISTERED")
=============================================================================
