--------------------------------- MODULE Client ---------------------------------
(***************************************************************************)
(* The client as its server meets it: the loop and the session of          *)
(* MainLoop, each datagram handled as in Packet, and a server that asks    *)
(* one thing at a time, repeats it while it is not answered and gives up   *)
(* when it likes.  The network is the set of the messages ever sent: each  *)
(* may arrive once, again and again or never, at any later time and in any *)
(* order.  The client, which keeps no record of the messages it has seen,  *)
(* carries out every copy that reaches it.                                 *)
(*                                                                         *)
(* There is one server, as in main.cpp: with servers on two hosts the      *)
(* search for the session does not end (see MainLoop).                     *)
(***************************************************************************)
EXTENDS MainLoop, FiniteSets

CONSTANTS
  Values, Refused, Blocks, Resource, Failing, LWM2M_MAX_ID, INT_SPACE,   \* as in Packet
  Questions,   \* what the server may ask: requests, whatever their ID
  MaxAsked     \* requests it makes

ASSUME OneServer == Cardinality(Servers) = 1

VARIABLES
  stage, message, response, payload, error, heap, lost, damage, value, acted, sending, answers,
  asked,      \* how many requests the server has made; the number of each is its ID
  request,    \* the one it waits for an answer to, None if there is none
  acked,      \* it has been acknowledged without an answer, and is repeated no more
  known,      \* what the answer to the last one says the resource holds, None if nothing
  requests,   \* requests ever sent
  replies,    \* messages the client ever sent
  held,       \* what the resource has held since the last request was made
  late        \* a copy of an earlier one has changed it since

server == CHOOSE s \in Servers : TRUE
Requests == {[q EXCEPT !.mid = n] : q \in Questions, n \in 1 .. MaxAsked}
From(r) == [host |-> server.host, port |-> server.port, packet |-> r]

P == INSTANCE Packet WITH Datagrams <- Requests, Messages <- {}, Locations <- {}

\* The server reads and writes the resource; what else it may ask is in Packet.
ASSUME ClientAssumption ==
  /\ Questions \subseteq P!Message
  /\ \A q \in Questions : q.code \in {"GET", "PUT"}
                          /\ P!lwm2m_decode_uri(P!Unset, q.path) = Resource
  /\ P!Unset \notin {Resource.instanceId, Resource.resourceId}
  /\ MaxAsked \in Nat
  /\ \A r \in Requests : From(r) \in Datagrams \ NoBytes

\* What Packet and Uri assume of their constants.
ASSUME PacketConstants ==
  /\ LWM2M_MAX_ID \in Nat \ {0} /\ INT_SPACE \in Nat
  /\ INT_SPACE % 2 = 0 /\ 20 * (LWM2M_MAX_ID + 1) < INT_SPACE
  /\ None \notin Values /\ None \notin Nat /\ "BlockOutOfScope" \notin Values
  /\ Refused \subseteq Values /\ Blocks \in [Values -> Nat]
  /\ Failing \subseteq {"uri", "objects", "alloc", "send"}

packetVars == <<stage, message, response, payload, error, heap, lost, damage, value, acted,
                sending, answers>>
serverVars == <<asked, request, acked, known>>
networkVars == <<requests, replies>>
ghostVars == <<held, late>>
loopVars == <<pc, sessionList, inbox, from, session>>
clientVars == <<loopVars, packetVars, serverVars, networkVars, ghostVars>>

ClientTypeOK ==
  /\ TypeOK
  /\ P!TypeOK
  /\ stage # "idle" => pc = "handle"
  /\ asked \in 0 .. MaxAsked
  /\ request \in Requests \cup {None}
  /\ acked \in BOOLEAN
  /\ known \in Values \cup {None}
  /\ requests \subseteq Requests /\ replies \subseteq P!Answer
  /\ held \subseteq Values \ Refused /\ late \in BOOLEAN

ClientInit ==
  /\ Init
  /\ P!Init
  /\ asked = 0 /\ request = None /\ acked = FALSE /\ known = None
  /\ requests = {} /\ replies = {}
  /\ held = {value} /\ late = FALSE

-----------------------------------------------------------------------------
(* The client. *)

\* The parts of the loop outside lwm2m_handle_packet.
LoopStep ==
  /\ \/ lwm2m_step \/ receiveFrom \/ search \/ fire
     \/ \E s \in Servers : prv_connect_server(s)
  /\ UNCHANGED <<packetVars, serverVars, networkVars, ghostVars>>

\* prv_buffer_send: an answer to the session found.
prv_buffer_send == replies \cup Range(answers')

\* One step of lwm2m_handle_packet; the last one goes back to the loop.  The server
\* of a session is on contextP->serverList.
lwm2m_handle_packet ==
  /\ pc = "handle"
  /\ \/ P!coap_parse_message(from.packet)
     \/ P!handle_request(TRUE)
     \/ P!blockwise
     \/ \E how \in P!Sendings : P!answer(how) \/ P!refuse(how)
     \/ P!release
  /\ IF stage' = "idle" THEN handle ELSE UNCHANGED loopVars
  /\ replies' = prv_buffer_send
  /\ held' = held \cup {value'}
  /\ late' = (late \/ (value' # value /\ message.mid # asked))
  /\ UNCHANGED <<serverVars, requests>>

ClientLoop == LoopStep \/ lwm2m_handle_packet

-----------------------------------------------------------------------------
(* The server and the network. *)

\* Once the client has contacted it, the server makes its next request.
Ask(q) ==
  /\ sessionList # <<>>
  /\ request = None /\ asked < MaxAsked
  /\ asked' = asked + 1
  /\ request' = [q EXCEPT !.mid = asked + 1]
  /\ requests' = requests \cup {request'}
  /\ acked' = FALSE /\ known' = None
  /\ held' = {value} /\ late' = FALSE
  /\ UNCHANGED <<loopVars, packetVars, replies>>

\* A copy of a request reaches the socket of the board, however long it was under way.
Deliver(r) ==
  /\ r \in requests
  /\ Arrive(From(r))
  /\ UNCHANGED <<packetVars, serverVars, networkVars, ghostVars>>

\* An answer is told by its token, and an acknowledgement by its ID.
Answers(a, r) == a.token = r.mid
Acknowledges(a, r) == r.type = "CON" /\ a.type = "ACK" /\ a.mid = r.mid

\* A message of the client reaches the server.
Take(a) ==
  /\ a \in replies
  /\ request # None
  /\ IF Answers(a, request)
       THEN /\ request' = None
            /\ known' = IF a.code = "2.05" THEN a.content
                        ELSE IF a.code = "2.04" THEN request.value ELSE None
            /\ acked' = FALSE
       ELSE /\ acked' = (acked \/ Acknowledges(a, request))
            /\ UNCHANGED <<request, known>>
  /\ UNCHANGED <<loopVars, packetVars, asked, networkVars, ghostVars>>

GiveUp ==
  /\ request # None
  /\ request' = None /\ acked' = FALSE
  /\ UNCHANGED <<loopVars, packetVars, asked, known, networkVars, ghostVars>>

ClientNext ==
  \/ ClientLoop
  \/ \E q \in Questions : Ask(q)
  \/ \E r \in requests : Deliver(r)
  \/ \E a \in replies : Take(a)
  \/ GiveUp

\* What the client says last of the request waited for: the answer, or the error if
\* the request did not parse.
Responds ==
  /\ stage = "answer" \/ (stage = "refuse" /\ message.fault # "none")
  /\ message = request
  /\ lwm2m_handle_packet /\ answers' # answers

\* The processor runs the loop; the server goes on repeating what is neither answered
\* nor acknowledged, so that a copy arrives again and again; the socket does not
\* refuse every response to it, and one of those sent arrives.
ClientSpec ==
  /\ ClientInit /\ [][ClientNext]_clientVars
  /\ WF_clientVars(ClientLoop)
  /\ SF_clientVars(request # None /\ ~acked /\ Deliver(request))
  /\ SF_clientVars(Responds)
  /\ WF_clientVars(\E a \in replies : Take(a))

-----------------------------------------------------------------------------
(* Properties. *)

\* What the answer to the last request says of the resource, by a value read or a write
\* confirmed, is what it held at some time since the request was made, and is what
\* it holds still unless a copy of an earlier request came late and changed it.
ToldTheTruth == known # None => known \in held /\ (late \/ value = known)

\* A request the server goes on repeating is answered or, when the answer could not be
\* sent or the request not be parsed, acknowledged; but for one that does not parse
\* and is not confirmable: its error is sent as an ACK, which nobody waits for.
EveryRequestAnswered ==
  request # None ~> \/ request = None \/ acked
                    \/ request.type = "NON" /\ request.fault # "none"
=============================================================================
