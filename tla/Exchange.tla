------------------------------- MODULE Exchange -------------------------------
(***************************************************************************)
(* What transaction.c promises its callers, without timers, message types  *)
(* or the list: a request is put on the wire at most MaxTries times and is *)
(* concluded by exactly one verdict.  A response or a reset comes from a   *)
(* datagram of the request's own exchange; the request is given up only    *)
(* after MaxTries transmissions or once the peer was heard.                *)
(***************************************************************************)
EXTENDS Integers

CONSTANTS
  Mids,      \* identities of requests
  MaxTries,  \* transmissions of one request
  Copies     \* datagrams one transmission may bring back

VARIABLES
  open,      \* requests waiting for their verdict
  verdict,   \* the verdict of each request that has one
  tries,     \* transmissions of each open request
  inFlight   \* datagrams of each exchange that may still arrive

vars == <<open, verdict, tries, inFlight>>

Init ==
  /\ open = {}
  /\ verdict = [m \in Mids |-> "none"]
  /\ tries = [m \in Mids |-> 0]
  /\ inFlight = [m \in Mids |-> 0]

\* A new request, sent at once or kept for the next poll.
Begin(m) ==
  /\ m \notin open
  /\ open' = open \cup {m}
  /\ verdict' = [verdict EXCEPT ![m] = "none"]
  /\ \E n \in {0, 1} : /\ tries' = [tries EXCEPT ![m] = n]
                       /\ inFlight' = [inFlight EXCEPT ![m] = n * Copies]

Heard(m) == inFlight[m] < tries[m] * Copies

\* A poll transmits the requests in S and gives up those in T.
Poll(S, T) ==
  /\ S \cap T = {}
  /\ \A m \in S : tries[m] < MaxTries
  /\ \A m \in T : tries[m] = MaxTries \/ Heard(m)
  /\ open' = open \ T
  /\ verdict' = [m \in Mids |-> IF m \in T THEN "timeout" ELSE verdict[m]]
  /\ tries' = [m \in Mids |-> IF m \in S THEN tries[m] + 1
                              ELSE IF m \in T THEN 0 ELSE tries[m]]
  /\ inFlight' = [m \in Mids |-> IF m \in S THEN inFlight[m] + Copies ELSE inFlight[m]]

\* A datagram of the exchange of m arrives: ignored, noted, or the verdict.
Datagram(m) ==
  /\ inFlight[m] > 0
  /\ inFlight' = [inFlight EXCEPT ![m] = @ - 1]
  /\ \/ UNCHANGED <<open, verdict, tries>>
     \/ /\ m \in open
        /\ open' = open \ {m}
        /\ \E v \in {"response", "reset"} : verdict' = [verdict EXCEPT ![m] = v]
        /\ tries' = [tries EXCEPT ![m] = 0]

Next ==
  \/ \E m \in Mids : Begin(m) \/ Datagram(m)
  \/ \E S, T \in SUBSET open : Poll(S, T)

Spec == Init /\ [][Next]_vars

\* Every request gets its verdict.
Concluded == \A m \in Mids : m \in open ~> m \notin open
=============================================================================
