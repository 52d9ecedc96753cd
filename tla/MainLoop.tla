------------------------------ MODULE MainLoop ------------------------------
(***************************************************************************)
(* The loop of main.cpp: lwm2m_step, then one datagram or, when none comes *)
(* within LOOP_TIMEOUT, the notifications; and the list of sessions by     *)
(* which a datagram is attributed to a server.  The other modules assume   *)
(* of it that lwm2m_step is called again and again and that the session    *)
(* handle names the server.                                                *)
(*                                                                         *)
(* The socket keeps at most MaxInbox datagrams (the lwIP mailbox) and      *)
(* drops the others.  What handling a datagram does is left to Client,     *)
(* what lwm2m_step does is reduced to the sessions it opens.               *)
(***************************************************************************)
EXTENDS Integers, SequencesExt

CONSTANTS
  Servers,   \* UDP endpoints named by the Security objects, [host, port]
  Datagrams, \* what may arrive: records with the host and port it comes from
  NoBytes,     \* the datagrams among them that carry nothing
  MaxInbox,  \* datagrams waiting on the socket
  None

ASSUME MainLoopAssumption ==
  /\ Servers \subseteq [host : STRING, port : Nat]
  /\ \A d \in Datagrams : d.host \in STRING /\ d.port \in Nat
  /\ NoBytes \subseteq Datagrams
  /\ MaxInbox \in Nat \ {0} /\ None \notin Datagrams

VARIABLES
  pc,           \* the call the loop is at
  sessionList,  \* the sessions, the last created first
  inbox,        \* datagrams waiting on the socket
  from,         \* the datagram in the buffer, with the endpoint "server"
  session       \* cursor of the search: a position of sessionList, beyond it NULL

vars == <<pc, sessionList, inbox, from, session>>

TypeOK ==
  /\ pc \in {"step", "receive", "search", "handle", "fire"}
  /\ sessionList \in Seq(Servers) /\ IsInjective(sessionList)
  /\ inbox \in Seq(Datagrams) /\ Len(inbox) <= MaxInbox
  /\ from \in Datagrams \cup {None}
  /\ session \in 0 .. Len(sessionList) + 1

Init ==
  /\ pc = "step"
  /\ sessionList = <<>>
  /\ inbox = <<>>
  /\ from = None
  /\ session = 0

-----------------------------------------------------------------------------
\* prv_connect_server, called by lwm2m_step (prv_register) for a server that has
\* no session yet; the allocation may fail, and the next attempt calls it again.
prv_connect_server_Again(s) ==
  /\ pc = "step" /\ Len(sessionList) < 3
  /\ sessionList' = <<s>> \o sessionList
  /\ UNCHANGED <<pc, inbox, from, session>>
prv_connect_server(s) ==
  /\ pc = "step"
  /\ s \notin Range(sessionList)
  /\ sessionList' = <<s>> \o sessionList
  /\ UNCHANGED <<pc, inbox, from, session>>

lwm2m_step ==
  /\ pc = "step"
  /\ pc' = "receive"
  /\ UNCHANGED <<sessionList, inbox, from, session>>

\* udp.receiveFrom: nothing came in time, or what came has no bytes, and the changes
\* are fired; or it has some, and its session is looked for.
receiveFrom_Steps ==
  /\ pc = "receive"
  /\ IF inbox = <<>>
       THEN pc' = "step" /\ UNCHANGED <<inbox, from, session>>
       ELSE /\ from' = Head(inbox)
            /\ inbox' = Tail(inbox)
            /\ pc' = IF from' \in NoBytes THEN "fire" ELSE "search"
            /\ session' = IF from' \in NoBytes THEN session ELSE 1
  /\ UNCHANGED sessionList
receiveFrom ==
  /\ pc = "receive"
  /\ IF inbox = <<>>
       THEN pc' = "fire" /\ UNCHANGED <<inbox, from, session>>
       ELSE /\ from' = Head(inbox)
            /\ inbox' = Tail(inbox)
            /\ pc' = IF from' \in NoBytes THEN "fire" ELSE "search"
            /\ session' = IF from' \in NoBytes THEN session ELSE 1
  /\ UNCHANGED sessionList

\* One turn of the loop that searches the session: strcmp compares hosts alone,
\* and on a mismatch nothing in the body moves the cursor.
Found_Nonzero == sessionList[session].host # from.host
Found == sessionList[session].host = from.host

search ==
  /\ pc = "search"
  /\ pc' = IF session > Len(sessionList) THEN "step" ELSE IF Found THEN "handle" ELSE "search"
  /\ UNCHANGED <<sessionList, inbox, from, session>>

\* lwm2m_handle_packet, from the session that was found.
handle ==
  /\ pc = "handle"
  /\ pc' = "step"
  /\ UNCHANGED <<sessionList, inbox, from, session>>

\* The four calls of lwm2m_resource_value_changed (see Observe).
fire ==
  /\ pc = "fire"
  /\ pc' = "step"
  /\ UNCHANGED <<sessionList, inbox, from, session>>

\* A datagram reaches the socket, whatever the program is at.
Arrive(d) ==
  /\ Len(inbox) < MaxInbox
  /\ inbox' = Append(inbox, d)
  /\ UNCHANGED <<pc, sessionList, from, session>>

Loop == lwm2m_step \/ receiveFrom \/ search \/ handle \/ fire

Next ==
  \/ Loop
  \/ \E s \in Servers : prv_connect_server(s)
  \/ \E d \in Datagrams : Arrive(d)

\* The processor runs the loop and nothing else; lwm2m_step returns.
Spec == Init /\ [][Next]_vars /\ WF_vars(Loop)

-----------------------------------------------------------------------------
(* Properties. *)

\* A datagram on the socket is taken in its turn, and the one it is waiting for
\* never keeps the loop from lwm2m_step: what every other module builds on.
KeepsStepping ==
  /\ []<>(pc = "step")
  /\ inbox # <<>> /\ Head(inbox) \notin NoBytes ~> pc = "search"

\* Changes are notified in a round that finds no datagram; once the servers are
\* quiet there is always another such round, and nothing is promised before.
NotifiesWhenQuiet == <>[](inbox = <<>>) => []<>(pc = "fire")

\* "No Session found, ignore packet": a datagram from elsewhere is dropped and
\* the loop goes on.
ForeignIgnored == pc = "search" ~> pc \in {"step", "handle"}
=============================================================================
