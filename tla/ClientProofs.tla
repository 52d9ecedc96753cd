------------------------------ MODULE ClientProofs ------------------------------
(***************************************************************************)
(* What the server has been told was true since it asked, and is true      *)
(* still unless a copy of an earlier request came late: for any reads and  *)
(* writes, any number of them, and a network that delays, repeats, loses   *)
(* and reorders what is sent both ways.                                    *)
(***************************************************************************)
EXTENDS Client, TLAPS

Received == pc \in {"search", "handle"}
Copies == {From(r) : r \in requests}

\* What is under way are requests the server has made, one of each ID, and the
\* one it waits for an answer to is the last.
NetworkInv ==
  /\ asked \in Nat
  /\ requests \subseteq Requests
  /\ \A p \in requests : p.mid <= asked
  /\ \A p, q \in requests : p.mid = q.mid => p = q
  /\ request # None => request \in requests /\ request.mid = asked
  /\ inbox \in Seq(Copies)
  /\ Received => from \in Copies

\* A success is about the message it answers.
AnswerInv ==
  /\ stage # "idle" => pc = "handle" /\ message = from.packet
  /\ stage # "responses" /\ error \notin P!Successes
  /\ stage \in {"handle_request", "blockwise", "answer", "refuse"} => answers = <<>>
  /\ stage = "release" /\ error \notin {"none", "ignore"} => answers = <<>>
  /\ stage \in {"blockwise", "answer"} =>
       /\ "code" \in DOMAIN response
       /\ response.code \in {"2.05", "2.04"} => response.token = message.mid
       /\ response.code = "2.05" => message.code = "GET" /\ response.content = value
       /\ response.code = "2.04" => message.code = "PUT" /\ message.value = value

\* The resource has held v since the last request was made, and holds it still if no
\* earlier one came late.
Holds(v) == v \in held /\ (late \/ value = v)

\* What a success says of the request it answers, if that is the last one.
Told(a) ==
  a.code \in {"2.05", "2.04"} =>
    /\ a.token \in Nat /\ a.token <= asked
    /\ \A p \in requests : p.mid = a.token =>
         /\ p.code = IF a.code = "2.05" THEN "GET" ELSE "PUT"
         /\ a.token = asked => Holds(IF a.code = "2.05" THEN a.content ELSE p.value)

RepliesInv ==
  /\ \A k \in DOMAIN answers : answers[k] \in replies
  /\ \A a \in replies : Told(a)

\* What the server knows; a copy of the last request would write nothing else.
KnownInv ==
  /\ value \in held
  /\ known # None => /\ Holds(known)
                     /\ \A p \in requests : p.mid = asked /\ p.code = "PUT" => p.value = known

IInv == NetworkInv /\ AnswerInv /\ RepliesInv /\ KnownInv

-----------------------------------------------------------------------------
(* What the steps are built from. *)

\* What a server asks is a whole request for the resource, and so is the datagram
\* made of it.
LEMMA RequestOK ==
  ASSUME NEW r \in Requests
  PROVE  /\ r.mid \in Nat /\ r.code \in {"GET", "PUT"}
         /\ P!lwm2m_decode_uri(P!Unset, r.path) = Resource
         /\ From(r).packet = r /\ From(r) \in Datagrams \ NoBytes
<1>1. PICK q \in Questions, n \in 1 .. MaxAsked : r = [q EXCEPT !.mid = n]
  BY DEF Requests
<1>2. r.mid = n /\ r.code = q.code /\ r.path = q.path
  BY <1>1, ClientAssumption DEF P!Message
<1>3. QED BY <1>1, <1>2, ClientAssumption DEF From

\* A datagram on its way to the client is a copy of a request.
LEMMA CopyOK ==
  ASSUME NetworkInv, NEW d \in Copies
  PROVE  d.packet \in requests /\ d.packet \in Requests /\ d = From(d.packet) /\ d \notin NoBytes
<1>1. PICK r \in requests : d = From(r)
  BY DEF Copies
<1>2. r \in Requests
  BY DEF NetworkInv
<1>3. QED BY <1>1, <1>2, RequestOK

\* The client and the server start within the invariant.
LEMMA InitInv == ClientInit => IInv
<1> SUFFICES ASSUME ClientInit PROVE IInv
  OBVIOUS
<1> USE DEF ClientInit, Init, P!Init
<1>1. NetworkInv
  BY DEF NetworkInv, Received
<1>2. AnswerInv
  BY DEF AnswerInv, P!Successes, P!Done
<1>3. RepliesInv /\ KnownInv
  BY DEF RepliesInv, KnownInv
<1>4. QED BY <1>1, <1>2, <1>3 DEF IInv

\* Where the resource stays and nothing is asked or said, what has been told stays true.
LEMMA Truth ==
  ASSUME IInv, value' = value, held' = held, late' = late, known' = known, replies' = replies,
         requests' = requests, asked' = asked
  PROVE  KnownInv' /\ \A a \in replies' : Told(a)'
BY DEF IInv, RepliesInv, KnownInv, Told, Holds

\* What is under way stays what it is where nobody asks and nothing arrives.
LEMMA Quiet ==
  ASSUME NetworkInv, asked' = asked, requests' = requests, request' \in {request, None},
         inbox' = inbox, from' = from, Received' => Received
  PROVE  NetworkInv'
BY DEF NetworkInv, Copies

-----------------------------------------------------------------------------
(* The loop. *)

\* A step of the main loop alone keeps the invariant.
LEMMA LoopInv ==
  ASSUME IInv, LoopStep
  PROVE  IInv'
<1>1. /\ UNCHANGED <<packetVars, serverVars, networkVars, ghostVars>>
      /\ \/ lwm2m_step \/ receiveFrom \/ search \/ fire
         \/ \E s \in Servers : prv_connect_server(s)
  BY DEF LoopStep
<1>2. /\ stage' = stage /\ message' = message /\ response' = response /\ error' = error
      /\ answers' = answers /\ value' = value /\ held' = held /\ late' = late
      /\ asked' = asked /\ request' = request /\ known' = known
      /\ requests' = requests /\ replies' = replies
  BY <1>1 DEF packetVars, serverVars, networkVars, ghostVars
<1>3. KnownInv' /\ RepliesInv'
  BY <1>2, Truth DEF IInv, RepliesInv
<1>4. ASSUME inbox' = inbox, from' = from, Received' => Received,
             stage # "idle" => pc' = "handle"
      PROVE  IInv'
  <2>1. NetworkInv'
    BY <1>2, <1>4, Quiet DEF IInv
  <2>2. AnswerInv'
    BY <1>2, <1>4 DEF IInv, AnswerInv
  <2>3. QED BY <1>3, <2>1, <2>2 DEF IInv
<1>5. CASE lwm2m_step \/ search \/ fire \/ \E s \in Servers : prv_connect_server(s)
  <2>1. Received' => Received
    BY <1>5 DEF lwm2m_step, search, fire, prv_connect_server, Received
  <2>2. inbox' = inbox /\ from' = from
    BY <1>5 DEF lwm2m_step, search, fire, prv_connect_server
  <2>3. stage # "idle" => pc' = "handle"
    BY <1>5 DEF lwm2m_step, search, fire, prv_connect_server, IInv, AnswerInv
  <2>4. QED BY <1>4, <2>1, <2>2, <2>3
<1>6. CASE receiveFrom
  <2>1. CASE inbox = <<>>
    BY <1>4, <1>6, <2>1 DEF receiveFrom, Received, IInv, AnswerInv
  <2>2. CASE inbox # <<>>
    <3>1. /\ from' = Head(inbox) /\ inbox' = Tail(inbox)
          /\ stage = "idle" /\ inbox \in Seq(Copies)
      BY <1>6, <2>2 DEF receiveFrom, IInv, AnswerInv, NetworkInv
    <3>2. from' \in Copies /\ inbox' \in Seq(Copies)
      BY <2>2, <3>1
    <3>3. NetworkInv'
      BY <1>2, <3>2 DEF IInv, NetworkInv, Copies
    <3>4. AnswerInv'
      BY <1>2, <3>1 DEF IInv, AnswerInv
    <3>5. QED BY <1>3, <3>3, <3>4 DEF IInv
  <2>3. QED BY <2>1, <2>2
<1>7. QED BY <1>1, <1>5, <1>6

-----------------------------------------------------------------------------
(* A datagram. *)

\* What a step of lwm2m_handle_packet is in the client.
Around ==
  /\ pc = "handle"
  /\ IF stage' = "idle" THEN handle ELSE UNCHANGED loopVars
  /\ replies' = replies \cup Range(answers')
  /\ held' = held \cup {value'}
  /\ late' = (late \/ (value' # value /\ message.mid # asked))
  /\ UNCHANGED <<serverVars, requests>>

\* It leaves the server and the network to the client as they are.
LEMMA WithinPacket ==
  ASSUME IInv, Around
  PROVE  /\ NetworkInv'
         /\ asked' = asked /\ request' = request /\ known' = known /\ requests' = requests
         /\ from' = from /\ (stage' # "idle" => pc' = pc)
<1>1. /\ asked' = asked /\ request' = request /\ known' = known /\ requests' = requests
      /\ inbox' = inbox /\ from' = from /\ (Received' => Received) /\ (stage' # "idle" => pc' = pc)
  BY DEF Around, serverVars, loopVars, handle, Received
<1>2. NetworkInv'
  BY <1>1, Quiet DEF IInv
<1>3. QED BY <1>1, <1>2

\* Where it leaves the resource alone, what has been told stays true, and what is
\* said now has to be.
LEMMA Saying ==
  ASSUME IInv, Around, value' = value,
         \A k \in DOMAIN answers' : answers'[k] \in replies \/ Told(answers'[k])
  PROVE  RepliesInv' /\ KnownInv'
<1>1. asked' = asked /\ request' = request /\ known' = known /\ requests' = requests
  BY WithinPacket
<1>2. held' = held
  BY DEF Around, IInv, KnownInv
<1>3. late' <=> late
  BY Zenon DEF Around
<1>4. \A v : Holds(v)' <=> Holds(v)
  BY <1>2, <1>3 DEF Holds
<1>5. \A a : Told(a)' <=> Told(a)
  BY <1>1, <1>4 DEF Told
<1>6. /\ \A a \in replies' : a \in replies \/ \E k \in DOMAIN answers' : a = answers'[k]
      /\ \A k \in DOMAIN answers' : answers'[k] \in replies'
  BY DEF Around, Range
<1>7. RepliesInv'
  BY <1>5, <1>6 DEF IInv, RepliesInv
<1>8. KnownInv'
  BY <1>1, <1>2, <1>4 DEF IInv, KnownInv
<1>9. QED BY <1>7, <1>8

\* What carrying out a read or a write does.
LEMMA ResultsOK ==
  ASSUME message \in Requests, NEW u \in {P!lwm2m_decode_uri(P!Unset, message.path), P!Null},
         NEW r \in P!Results(u, TRUE)
  PROVE  /\ r.value = value \/ (message.code = "PUT" /\ r.value = message.value)
         /\ r.code = "2.05" => message.code = "GET" /\ r.content = value /\ r.value = value
         /\ r.code = "2.04" => message.code = "PUT" /\ r.value = message.value
<1>1. \A code : P!Plain(code).code = code /\ P!Plain(code).value = value
  BY DEF P!Plain, P!Result
<1>2. message.code \in {"GET", "PUT"} /\ P!Unset \notin {Resource.instanceId, Resource.resourceId}
  BY RequestOK, ClientAssumption
<1>3. CASE u = P!Null \/ u.type # "DM"
  BY <1>1, <1>3 DEF P!Results
<1>4. CASE ~(u = P!Null \/ u.type # "DM")
  <2>1. r \in P!handle_dm_request(u)
    BY <1>4 DEF P!Results
  <2>2. u = Resource
    BY <1>4, RequestOK
  <2>3. r \in P!NoMemory => r = P!Plain("5.00")
    BY DEF P!NoMemory
  <2>4. CASE message.code = "GET"
    <3>1. r = P!Result("2.05", value, {}, value) \/ r \in P!NoMemory
      BY <2>1, <2>2, <2>4 DEF P!handle_dm_request
    <3>2. QED BY <1>1, <2>3, <2>4, <3>1 DEF P!Result
  <2>5. CASE message.code = "PUT"
    <3>1. \/ r = P!Plain("4.00") \/ r \in P!NoMemory
          \/ r = P!Result("2.04", None, {}, message.value)
      BY <1>2, <2>1, <2>2, <2>5 DEF P!handle_dm_request
    <3>2. QED BY <1>1, <2>3, <2>5, <3>1 DEF P!Result
  <2>6. QED BY <1>2, <2>4, <2>5
<1>5. QED BY <1>3, <1>4

\* The message carried out is a request the server has made.
LEMMA MessageMade ==
  ASSUME IInv, stage # "idle"
  PROVE  message \in requests /\ message \in Requests /\ message.mid \in Nat /\ message.mid <= asked
<1>1. message = from.packet /\ from \in Copies /\ NetworkInv
  BY DEF IInv, AnswerInv, NetworkInv, Received
<1>2. message \in requests /\ message \in Requests
  BY <1>1, CopyOK
<1>3. QED BY <1>2, RequestOK DEF IInv, NetworkInv

\* Parsing the datagram at hand keeps the invariant.
LEMMA ParseStep ==
  ASSUME IInv, Around, P!coap_parse_message(from.packet)
  PROVE  IInv'
<1>1. /\ message' = from.packet /\ answers' = <<>> /\ value' = value
      /\ stage' \in {"refuse", "handle_request", "responses"}
      /\ error' = P!FaultCode(from.packet)
      /\ stage' = "responses" => from.packet.code \notin P!Methods
  BY DEF P!coap_parse_message
<1>2. pc = "handle" /\ from \in Copies /\ NetworkInv
  BY DEF Around, IInv, NetworkInv, Received
<1>3. from.packet.code \in {"GET", "PUT"}
  BY <1>2, CopyOK, RequestOK
<1>4. AnswerInv'
  BY <1>1, <1>2, <1>3, WithinPacket
  DEF AnswerInv, P!Methods, P!FaultCode, P!Successes, P!Done
<1>5. QED BY <1>1, <1>4, WithinPacket, Saying DEF IInv

\* Handling the request keeps it: a late one is told from the last by its ID.
LEMMA RequestStep ==
  ASSUME IInv, Around, P!handle_request(TRUE)
  PROVE  IInv'
<1> DEFINE Handled(r) ==
      /\ response' = P!AnswerTo(message, r)
      /\ error' = IF r.code \in P!Successes THEN "none" ELSE r.code
      /\ stage' = IF r.code \in P!Successes THEN "blockwise"
                  ELSE IF r.code = "ignore" THEN "release" ELSE "answer"
      /\ value' = r.value
<1>1. PICK u \in {P!lwm2m_decode_uri(P!Unset, message.path), P!Null} :
        \E r \in P!Results(u, TRUE) : Handled(r)
  BY DEF P!handle_request
<1>2. PICK r \in P!Results(u, TRUE) : Handled(r)
  BY <1>1
<1>3. /\ stage = "handle_request" /\ message' = message /\ answers' = answers /\ answers = <<>>
  BY DEF P!handle_request, IInv, AnswerInv
<1>4. message \in requests /\ message \in Requests
  BY <1>3, MessageMade
<1>5. /\ r.value = value \/ (message.code = "PUT" /\ r.value = message.value)
      /\ r.code = "2.05" => message.code = "GET" /\ r.content = value /\ r.value = value
      /\ r.code = "2.04" => message.code = "PUT" /\ r.value = message.value
  BY <1>4, ResultsOK
<1>6. /\ "code" \in DOMAIN response' /\ response'.code = r.code /\ response'.content = r.content
      /\ response'.token = message.mid
  BY <1>2 DEF P!AnswerTo
<1>7. AnswerInv'
  <2>1. error' \notin P!Successes
    BY <1>2 DEF P!Successes, P!Done
  <2>2. stage' \in {"blockwise", "release", "answer"}
    BY <1>2
  <2>3. pc' = "handle" /\ message' = from'.packet
    BY <1>3, <2>2, WithinPacket DEF IInv, AnswerInv
  <2>4. stage' = "release" => error' = "ignore"
    BY <1>2 DEF P!Successes, P!Done
  <2>5. QED BY <1>2, <1>3, <1>5, <1>6, <2>1, <2>2, <2>3, <2>4 DEF AnswerInv
<1>8. /\ asked' = asked /\ known' = known /\ requests' = requests /\ replies' = replies
      /\ NetworkInv' /\ NetworkInv
  BY <1>3, WithinPacket DEF Around, Range, IInv
<1>9. held \subseteq held' /\ value' \in held'
  BY DEF Around
<1>10. late' <=> late \/ (value' # value /\ message.mid # asked)
  BY Zenon DEF Around
<1>11. value' = value \/ (message.code = "PUT" /\ value' = message.value)
  BY <1>2, <1>5
<1>12. ASSUME NEW v, Holds(v), message.mid = asked /\ message.code = "PUT" => message.value = v
       PROVE  Holds(v)'
  BY <1>9, <1>10, <1>11, <1>12 DEF Holds
<1>13. ASSUME NEW a \in replies PROVE Told(a)'
  <2> SUFFICES ASSUME a.code \in {"2.05", "2.04"}, NEW p \in requests, p.mid = a.token,
                      a.token = asked
               PROVE  Holds(IF a.code = "2.05" THEN a.content ELSE p.value)'
    BY <1>8 DEF IInv, RepliesInv, Told
  <2> DEFINE v == IF a.code = "2.05" THEN a.content ELSE p.value
  <2>1. Holds(v) /\ p.code = IF a.code = "2.05" THEN "GET" ELSE "PUT"
    BY DEF IInv, RepliesInv, Told
  <2>2. message.mid = asked => message = p
    BY <1>4, <1>8 DEF NetworkInv
  <2>3. message.mid = asked /\ message.code = "PUT" => message.value = v
    BY <2>1, <2>2
  <2> HIDE DEF v
  <2>4. Holds(v)'
    BY <1>12, <2>1, <2>3
  <2>5. QED BY <2>4 DEF v
<1>14. RepliesInv'
  BY <1>3, <1>8, <1>13 DEF RepliesInv
<1>15. KnownInv'
  <2>1. \A v : v = known /\ v # None => Holds(v)'
    BY <1>4, <1>12 DEF IInv, KnownInv
  <2>2. QED BY <1>8, <1>9, <2>1 DEF IInv, KnownInv, Holds
<1>16. QED BY <1>7, <1>8, <1>14, <1>15 DEF IInv

\* Cutting the answer into blocks keeps it.
LEMMA BlockStep ==
  ASSUME IInv, Around, P!blockwise
  PROVE  IInv'
<1>1. /\ stage = "blockwise" /\ stage' = "answer" /\ message' = message /\ error' = error
      /\ value' = value /\ answers' = answers
      /\ response' \in {response, [response EXCEPT !.code = "4.02", !.content = "BlockOutOfScope"]}
  BY DEF P!blockwise
<1>2. AnswerInv'
  <2>1. "code" \in DOMAIN response /\ "code" \in DOMAIN response'
    BY <1>1 DEF IInv, AnswerInv
  <2>2. response' = response \/ response'.code = "4.02"
    BY <1>1, <2>1
  <2>3. pc' = "handle" /\ message' = from'.packet
    BY <1>1, WithinPacket DEF IInv, AnswerInv
  <2>4. QED BY <1>1, <2>1, <2>2, <2>3 DEF IInv, AnswerInv
<1>3. QED BY <1>1, <1>2, WithinPacket, Saying DEF IInv, RepliesInv

\* Sending the answer keeps it, however the sending ends.
LEMMA AnswerStep ==
  ASSUME IInv, Around, NEW how \in P!Sendings, P!answer(how)
  PROVE  IInv'
<1>1. /\ stage = "answer" /\ stage' = "release" /\ message' = message /\ value' = value
      /\ answers' = P!Sent(how, response) /\ error' = P!SendResult(how)
  BY DEF P!answer
<1>2. /\ answers = <<>>
      /\ answers' = IF how = "sent" THEN <<response>> ELSE <<>>
  BY <1>1 DEF IInv, AnswerInv, P!Sent
<1>3. AnswerInv'
  <2>1. error' \notin P!Successes /\ (error' \notin {"none", "ignore"} => answers' = <<>>)
    BY <1>1, <1>2 DEF P!SendResult, P!Successes, P!Done
  <2>2. pc' = "handle" /\ message' = from'.packet
    BY <1>1, WithinPacket DEF IInv, AnswerInv
  <2>3. QED BY <1>1, <2>1, <2>2 DEF AnswerInv
<1>4. Told(response)
  <2> SUFFICES ASSUME response.code \in {"2.05", "2.04"} PROVE Told(response)
    BY DEF Told
  <2>1. /\ response.token = message.mid
        /\ response.code = "2.05" => message.code = "GET" /\ response.content = value
        /\ response.code = "2.04" => message.code = "PUT" /\ message.value = value
    BY <1>1 DEF IInv, AnswerInv
  <2>2. message \in requests /\ message.mid \in Nat /\ message.mid <= asked
    BY <1>1, MessageMade
  <2>3. \A p \in requests : p.mid = message.mid => p = message
    BY <2>2 DEF IInv, NetworkInv
  <2>4. Holds(value)
    BY DEF IInv, KnownInv, Holds
  <2>5. QED BY <2>1, <2>2, <2>3, <2>4 DEF Told
<1>5. \A k \in DOMAIN answers' : Told(answers'[k])
  BY <1>2, <1>4
<1>6. QED BY <1>1, <1>3, <1>5, WithinPacket, Saying DEF IInv

\* Sending an error keeps it, however the sending ends.
LEMMA RefuseStep ==
  ASSUME IInv, Around, NEW how \in P!Sendings, P!refuse(how)
  PROVE  IInv'
<1>1. /\ stage = "refuse" /\ stage' = "idle" /\ value' = value /\ error' = error
      /\ answers' = P!Sent(how, P!ErrorAck(message))
  BY DEF P!refuse
<1>2. /\ error \notin P!Successes
      /\ answers' = IF how = "sent" THEN <<P!ErrorAck(message)>> ELSE <<>>
  BY <1>1 DEF IInv, AnswerInv, P!Sent
<1>3. AnswerInv'
  BY <1>1, <1>2 DEF AnswerInv
<1>4. Told(P!ErrorAck(message))
  BY <1>2 DEF Told, P!ErrorAck, P!Successes, P!Done
<1>5. \A k \in DOMAIN answers' : Told(answers'[k])
  BY <1>2, <1>4
<1>6. QED BY <1>1, <1>3, <1>5, WithinPacket, Saying DEF IInv

\* Releasing the message keeps it.
LEMMA ReleaseStep ==
  ASSUME IInv, Around, P!release
  PROVE  IInv'
<1>1. /\ stage = "release" /\ stage' = IF error \in {"none", "ignore"} THEN "idle" ELSE "refuse"
      /\ message' = message /\ value' = value /\ error' = error /\ answers' = answers
  BY DEF P!release
<1>2. AnswerInv'
  <2>1. stage' # "idle" => pc' = "handle" /\ message' = from'.packet
    BY <1>1, WithinPacket DEF IInv, AnswerInv
  <2>2. QED BY <1>1, <2>1 DEF IInv, AnswerInv
<1>3. QED BY <1>1, <1>2, WithinPacket, Saying DEF IInv, RepliesInv

-----------------------------------------------------------------------------
(* The server and the network. *)

\* The next question of the server keeps it: what was told of the one before is over.
LEMMA AskStep ==
  ASSUME IInv, NEW q \in Questions, Ask(q)
  PROVE  IInv'
<1>1. /\ request = None /\ asked < MaxAsked /\ asked' = asked + 1
      /\ request' = [q EXCEPT !.mid = asked + 1] /\ requests' = requests \cup {request'}
      /\ known' = None /\ held' = {value} /\ replies' = replies
      /\ UNCHANGED <<loopVars, packetVars>>
  BY DEF Ask
<1>2. asked \in Nat /\ asked + 1 \in 1 .. MaxAsked
  BY <1>1, ClientAssumption DEF IInv, NetworkInv
<1>3. request' \in Requests /\ request'.mid = asked'
  BY <1>1, <1>2, ClientAssumption DEF Requests, P!Message
<1>4. \A p \in requests : p.mid \in Nat /\ p.mid <= asked
  BY RequestOK DEF IInv, NetworkInv
<1>5. NetworkInv'
  <2>1. \A p \in requests' : p.mid <= asked'
    <3>1. ASSUME NEW p \in requests PROVE p.mid <= asked + 1
      BY <1>2, <1>4
    <3>2. asked' = asked + 1 /\ request'.mid <= asked'
      BY <1>1, <1>2, <1>3
    <3>3. QED BY <1>1, <3>1, <3>2
  <2>2. \A p, s \in requests' : p.mid = s.mid => p = s
    <3>1. \A p \in requests : p.mid # request'.mid
      BY <1>1, <1>2, <1>3, <1>4
    <3>2. QED BY <1>1, <3>1 DEF IInv, NetworkInv
  <2>3. Copies \subseteq Copies'
    BY <1>1 DEF Copies
  <2>4. inbox' \in Seq(Copies')
    BY <1>1, <2>3 DEF IInv, NetworkInv, loopVars
  <2>5. Received' => from' \in Copies'
    BY <1>1, <2>3 DEF IInv, NetworkInv, loopVars, Received
  <2>6. asked' \in Nat /\ requests' \subseteq Requests
    BY <1>1, <1>2, <1>3 DEF IInv, NetworkInv
  <2>7. request' \in requests' /\ request'.mid = asked'
    BY <1>1, <1>3
  <2>8. QED BY <2>1, <2>2, <2>4, <2>5, <2>6, <2>7 DEF NetworkInv
<1>6. AnswerInv'
  BY <1>1 DEF IInv, AnswerInv, loopVars, packetVars
<1>7. RepliesInv'
  <2>1. ASSUME NEW a \in replies PROVE Told(a)'
    <3> SUFFICES ASSUME a.code \in {"2.05", "2.04"} PROVE Told(a)'
      BY DEF Told
    <3>1. /\ a.token \in Nat /\ a.token <= asked
          /\ \A p \in requests : p.mid = a.token => p.code = IF a.code = "2.05" THEN "GET" ELSE "PUT"
      BY DEF IInv, RepliesInv, Told
    <3>2. a.token <= asked' /\ a.token # asked' /\ a.token # request'.mid
      BY <1>1, <1>2, <1>3, <3>1
    <3>3. QED BY <1>1, <3>1, <3>2 DEF Told
  <2>2. QED BY <1>1, <2>1 DEF IInv, RepliesInv, packetVars
<1>8. KnownInv'
  BY <1>1 DEF KnownInv, packetVars
<1>9. QED BY <1>5, <1>6, <1>7, <1>8 DEF IInv

\* A copy of a request on the board's socket keeps it, whenever it comes.
LEMMA DeliverStep ==
  ASSUME IInv, NEW r \in requests, Deliver(r)
  PROVE  IInv'
<1>1. /\ inbox' = Append(inbox, From(r)) /\ pc' = pc /\ from' = from
      /\ UNCHANGED <<packetVars, serverVars, networkVars, ghostVars>>
  BY DEF Deliver, Arrive
<1>2. /\ stage' = stage /\ message' = message /\ response' = response /\ error' = error
      /\ answers' = answers /\ value' = value /\ held' = held /\ late' = late
      /\ asked' = asked /\ request' = request /\ known' = known
      /\ requests' = requests /\ replies' = replies
  BY <1>1 DEF packetVars, serverVars, networkVars, ghostVars
<1>3. inbox' \in Seq(Copies) /\ Copies' = Copies
  BY <1>1, <1>2 DEF IInv, NetworkInv, Copies
<1>4. NetworkInv'
  BY <1>1, <1>2, <1>3 DEF IInv, NetworkInv, Received
<1>5. AnswerInv'
  BY <1>1, <1>2 DEF IInv, AnswerInv
<1>6. KnownInv' /\ RepliesInv'
  BY <1>2, Truth DEF IInv, RepliesInv
<1>7. QED BY <1>4, <1>5, <1>6 DEF IInv

\* An answer that reaches the server keeps it, and so does giving up.
LEMMA TakeStep ==
  ASSUME IInv, GiveUp \/ \E a \in replies : Take(a)
  PROVE  IInv'
<1>1. /\ UNCHANGED <<loopVars, packetVars, asked, networkVars, ghostVars>>
      /\ request' \in {request, None}
  BY DEF GiveUp, Take
<1>2. NetworkInv'
  <2>1. /\ asked' = asked /\ requests' = requests /\ inbox' = inbox /\ from' = from
        /\ (Received' => Received)
    BY <1>1 DEF networkVars, loopVars, Received
  <2>2. QED BY <1>1, <2>1, Quiet DEF IInv
<1>3. AnswerInv'
  BY <1>1 DEF IInv, AnswerInv, loopVars, packetVars
<1>4. /\ \A v : Holds(v)' <=> Holds(v)
      /\ value' = value /\ held' = held /\ requests' = requests /\ replies' = replies
      /\ asked' = asked /\ answers' = answers
  BY <1>1 DEF Holds, packetVars, networkVars, ghostVars
<1>5. RepliesInv'
  BY <1>4 DEF IInv, RepliesInv, Told
<1>6. known' # None =>
        Holds(known') /\ \A p \in requests : p.mid = asked /\ p.code = "PUT" => p.value = known'
  <2>1. CASE known' = known
    BY <2>1 DEF IInv, KnownInv
  <2>2. CASE known' # known
    <3>1. PICK a \in replies :
            /\ request # None /\ Answers(a, request)
            /\ known' = IF a.code = "2.05" THEN a.content
                        ELSE IF a.code = "2.04" THEN request.value ELSE None
      BY <2>2 DEF GiveUp, Take
    <3>2. /\ request \in requests /\ a.token = asked /\ request.mid = asked
          /\ \A p \in requests : p.mid = asked => p = request
      BY <3>1 DEF Answers, IInv, NetworkInv
    <3>3. Told(a)
      BY DEF IInv, RepliesInv
    <3>4. QED BY <3>1, <3>2, <3>3 DEF Told
  <2>3. QED BY <2>1, <2>2
<1>7. KnownInv'
  <2>1. late' = late
    BY <1>1 DEF ghostVars
  <2>2. QED BY <1>4, <1>6, <2>1 DEF IInv, KnownInv, Holds
<1>8. QED BY <1>2, <1>3, <1>5, <1>7 DEF IInv

\* Every step keeps the invariant.
LEMMA NextInv == IInv /\ [ClientNext]_clientVars => IInv'
<1> SUFFICES ASSUME IInv, [ClientNext]_clientVars PROVE IInv'
  OBVIOUS
<1>1. CASE LoopStep
  BY <1>1, LoopInv
<1>2. CASE lwm2m_handle_packet
  <2>1. Around
    BY <1>2 DEF lwm2m_handle_packet, Around, prv_buffer_send
  <2>2. QED
    BY <1>2, <2>1, ParseStep, RequestStep, BlockStep, AnswerStep, RefuseStep, ReleaseStep
    DEF lwm2m_handle_packet
<1>3. CASE \E r \in requests : Deliver(r)
  BY <1>3, DeliverStep
<1>4. CASE GiveUp \/ \E a \in replies : Take(a)
  BY <1>4, TakeStep
<1>5. CASE \E q \in Questions : Ask(q)
  BY <1>5, AskStep
<1>6. CASE UNCHANGED clientVars
  <2>1. UNCHANGED <<loopVars, packetVars, serverVars, networkVars, ghostVars>>
    BY <1>6 DEF clientVars
  <2>2. NetworkInv' /\ AnswerInv'
    BY <2>1 DEF loopVars, packetVars, serverVars, networkVars, IInv, NetworkInv, AnswerInv,
                Received, Copies
  <2>3. RepliesInv' /\ KnownInv'
    BY <2>1, Truth DEF packetVars, serverVars, networkVars, ghostVars, IInv, RepliesInv
  <2>4. QED BY <2>2, <2>3 DEF IInv
<1>7. QED BY <1>1, <1>2, <1>3, <1>4, <1>5, <1>6 DEF ClientNext, ClientLoop

-----------------------------------------------------------------------------
(* The theorem. *)

\* Whatever the network delays, repeats, loses or reorders, the answer the server takes
\* is about its last request: the value read or written was the resource's since then,
\* and is its value still unless an earlier request was carried out late.
THEOREM ToldTruth == ClientSpec => []ToldTheTruth
<1>1. IInv => ToldTheTruth
  BY DEF IInv, KnownInv, Holds, ToldTheTruth
<1>2. QED BY <1>1, InitInv, NextInv, PTL DEF ClientSpec

-----------------------------------------------------------------------------
(* The parts.  What the client does in the loop is what MainLoop lets it   *)
(* do with any datagrams, and what it does with a datagram is what Packet  *)
(* lets it do: the theorems about the parts hold of the whole.             *)

\* A step of the client is a step of its loop or none.
LEMMA LoopAlone == IInv /\ [ClientNext]_clientVars => [Next]_vars
<1> SUFFICES ASSUME IInv, [ClientNext]_clientVars PROVE [Next]_vars
  OBVIOUS
<1>1. CASE LoopStep
  BY <1>1 DEF LoopStep, Next, Loop
<1>2. CASE lwm2m_handle_packet
  BY <1>2 DEF lwm2m_handle_packet, Next, Loop, loopVars, vars
<1>3. CASE \E r \in requests : Deliver(r)
  <2>1. PICK r \in requests : Arrive(From(r))
    BY <1>3 DEF Deliver
  <2>2. From(r) \in Datagrams
    BY RequestOK DEF IInv, NetworkInv
  <2>3. QED BY <2>1, <2>2 DEF Next
<1>4. CASE GiveUp \/ (\E a \in replies : Take(a)) \/ \E q \in Questions : Ask(q)
  BY <1>4 DEF Take, GiveUp, Ask, loopVars, vars
<1>5. CASE UNCHANGED clientVars
  BY <1>5 DEF clientVars, loopVars, vars
<1>6. QED BY <1>1, <1>2, <1>3, <1>4, <1>5 DEF ClientNext, ClientLoop

\* A step of the client is a step of lwm2m_handle_packet or none.
LEMMA PacketAlone == IInv /\ [ClientNext]_clientVars => [P!Next]_(P!packetVars)
<1> SUFFICES ASSUME IInv, [ClientNext]_clientVars PROVE [P!Next]_(P!packetVars)
  OBVIOUS
<1> USE DEF P!packetVars, P!handling, packetVars
<1>1. CASE LoopStep
  BY <1>1 DEF LoopStep
<1>2. CASE lwm2m_handle_packet
  <2>1. CASE P!coap_parse_message(from.packet)
    <3>1. from.packet \in Requests
      BY <1>2, CopyOK DEF lwm2m_handle_packet, IInv, NetworkInv, Received
    <3>2. QED BY <2>1, <3>1 DEF P!Next
  <2>2. CASE \/ P!handle_request(TRUE) \/ P!blockwise
             \/ \E how \in P!Sendings : P!answer(how) \/ P!refuse(how)
             \/ P!release
    BY <2>2 DEF P!Next, P!lwm2m_handle_packet
  <2>3. QED BY <1>2, <2>1, <2>2 DEF lwm2m_handle_packet
<1>3. CASE \/ GiveUp \/ \E a \in replies : Take(a)
         \/ (\E r \in requests : Deliver(r)) \/ \E q \in Questions : Ask(q)
  BY <1>3 DEF Deliver, Take, GiveUp, Ask
<1>4. CASE UNCHANGED clientVars
  BY <1>4 DEF clientVars
<1>5. QED BY <1>1, <1>2, <1>3, <1>4 DEF ClientNext, ClientLoop

\* The client implements its loop: whatever MainLoop promises of any datagrams, it
\* promises of those its server sends.
THEOREM ClientImplementsLoop == ClientSpec => Init /\ [][Next]_vars
<1>1. ClientInit => Init
  BY DEF ClientInit
<1>2. QED BY <1>1, InitInv, NextInv, LoopAlone, PTL DEF ClientSpec

\* The client implements Packet, for the requests its server makes: between two
\* steps of lwm2m_handle_packet nobody touches what it works on.
THEOREM ClientImplementsPacket == ClientSpec => P!Spec
<1>1. ClientInit => P!Init
  BY DEF ClientInit
<1>2. QED BY <1>1, InitInv, NextInv, PacketAlone, PTL DEF ClientSpec, P!Spec

-----------------------------------------------------------------------------
(* Types. *)

\* A session created is the first of the list, and of a server that had none.
LEMMA SessionAdded ==
  ASSUME TypeOK, NEW s \in Servers, prv_connect_server(s)
  PROVE  TypeOK'
<1>1. /\ sessionList \in Seq(Servers) /\ IsInjective(sessionList) /\ session \in 0 .. Len(sessionList) + 1
      /\ s \notin Range(sessionList)
      /\ sessionList' = <<s>> \o sessionList /\ UNCHANGED <<pc, inbox, from, session>>
  BY DEF TypeOK, prv_connect_server
<1>2. /\ sessionList' \in Seq(Servers) /\ Len(sessionList') = Len(sessionList) + 1
      /\ Len(sessionList) \in Nat
  BY <1>1
<1>3. /\ sessionList'[1] = s
      /\ \A k \in 2 .. Len(sessionList') :
           /\ sessionList'[k] = sessionList[k - 1]
           /\ k - 1 \in 1 .. Len(sessionList)
  BY <1>1, <1>2
<1>4. \A k \in 1 .. Len(sessionList) : sessionList[k] # s
  BY <1>1 DEF Range
<1>5. IsInjective(sessionList')
  <2> SUFFICES ASSUME NEW a \in DOMAIN sessionList', NEW b \in DOMAIN sessionList',
                      sessionList'[a] = sessionList'[b]
               PROVE  a = b
    BY DEF IsInjective
  <2>1. a \in 1 .. Len(sessionList') /\ b \in 1 .. Len(sessionList')
    BY <1>2
  <2>2. CASE a = 1 \/ b = 1
    BY <1>2, <1>3, <1>4, <2>1, <2>2
  <2>3. CASE a # 1 /\ b # 1
    <3>1. a \in 2 .. Len(sessionList') /\ b \in 2 .. Len(sessionList')
      BY <1>2, <2>1, <2>3
    <3>2. sessionList[a - 1] = sessionList[b - 1]
      BY <1>3, <3>1
    <3>3. a - 1 \in DOMAIN sessionList /\ b - 1 \in DOMAIN sessionList
      BY <1>1, <1>3, <3>1
    <3>4. a - 1 = b - 1
      BY <1>1, <3>2, <3>3 DEF IsInjective
    <3>5. QED BY <2>1, <3>4
  <2>4. QED BY <2>2, <2>3
<1>6. session' \in 0 .. Len(sessionList') + 1
  BY <1>1, <1>2
<1>7. QED BY <1>1, <1>2, <1>5, <1>6 DEF TypeOK

\* The loop keeps its types, whatever arrives.
LEMMA LoopTypes == TypeOK /\ [Next]_vars => TypeOK'
<1> SUFFICES ASSUME TypeOK, [Next]_vars PROVE TypeOK'
  OBVIOUS
<1>1. CASE lwm2m_step \/ search \/ handle \/ fire
  BY <1>1 DEF lwm2m_step, search, handle, fire, TypeOK
<1>2. CASE receiveFrom
  <2>1. CASE inbox = <<>>
    BY <1>2, <2>1 DEF receiveFrom, TypeOK
  <2>2. CASE inbox # <<>>
    <3>1. /\ pc' \in {"search", "fire"} /\ from' = Head(inbox) /\ inbox' = Tail(inbox)
          /\ session' \in {session, 1} /\ sessionList' = sessionList
      BY <1>2, <2>2 DEF receiveFrom
    <3>2. /\ Head(inbox) \in Datagrams /\ Tail(inbox) \in Seq(Datagrams)
          /\ Len(Tail(inbox)) <= MaxInbox /\ 1 \in 0 .. Len(sessionList) + 1
      BY <2>2, MainLoopAssumption DEF TypeOK
    <3>3. QED BY <3>1, <3>2 DEF TypeOK
  <2>3. QED BY <2>1, <2>2
<1>3. CASE \E s \in Servers : prv_connect_server(s)
  BY <1>3, SessionAdded
<1>4. ASSUME NEW d \in Datagrams, Arrive(d)
      PROVE  TypeOK'
  <2>1. /\ inbox \in Seq(Datagrams) /\ Len(inbox) < MaxInbox /\ MaxInbox \in Nat
        /\ inbox' = Append(inbox, d) /\ UNCHANGED <<pc, sessionList, from, session>>
    BY <1>4, MainLoopAssumption DEF TypeOK, Arrive
  <2>2. inbox' \in Seq(Datagrams) /\ Len(inbox') <= MaxInbox
    BY <2>1
  <2>3. QED BY <2>1, <2>2 DEF TypeOK
<1>5. CASE UNCHANGED vars
  BY <1>5 DEF vars, TypeOK
<1>6. QED BY <1>1, <1>2, <1>3, <1>4, <1>5 DEF Next, Loop

\* The loop starts with no session and an empty socket.
LEMMA InitTypes == Init => TypeOK
<1> SUFFICES ASSUME Init PROVE TypeOK
  OBVIOUS
<1>1. sessionList \in Seq(Servers) /\ inbox \in Seq(Datagrams)
  BY DEF Init
<1>2. DOMAIN sessionList = {} /\ Len(sessionList) = 0 /\ Len(inbox) = 0
  BY DEF Init
<1>3. IsInjective(sessionList)
  BY <1>2 DEF IsInjective
<1>4. QED BY <1>1, <1>2, <1>3, MainLoopAssumption DEF Init, TypeOK

\* What PacketProofs has proved of any datagrams holds of the server's requests.
PP == INSTANCE PacketProofs WITH Datagrams <- Requests, Messages <- {}, Locations <- {}

\* The requests are datagrams Packet knows.
LEMMA PacketHypotheses ==
  /\ LWM2M_MAX_ID \in Nat \ {0} /\ INT_SPACE \in Nat
  /\ INT_SPACE % 2 = 0 /\ 20 * (LWM2M_MAX_ID + 1) < INT_SPACE
  /\ Requests \subseteq PP!Message
  /\ None \notin Values /\ None \notin Nat /\ "BlockOutOfScope" \notin Values
  /\ Refused \subseteq Values /\ Blocks \in [Values -> Nat]
  /\ Failing \subseteq {"uri", "objects", "alloc", "send"}
<1>1. Requests \subseteq P!Message
  BY ClientAssumption DEF Requests, P!Message
<1>2. P!Message = PP!Message
  BY DEF P!Message, PP!Message, P!Types, PP!Types, P!Methods, PP!Methods, P!Segments,
      PP!Segments, P!Slashed, PP!Slashed, P!Faults, PP!Faults, P!Empty, PP!Empty, P!Rd, PP!Rd, P!Bs, PP!Bs,
      P!Other, PP!Other
<1>3. QED BY <1>1, <1>2, PacketConstants

\* Both instances are the same module.
LEMMA SamePacket ==
  /\ P!Init => PP!Init
  /\ [P!Next]_(P!packetVars) => [PP!Next]_(PP!packetVars)
  /\ PP!TypeOK => P!TypeOK
  /\ PP!TypeOK' => P!TypeOK'
<1>1. P!Init => PP!Init
  BY DEF P!Init, PP!Init
<1>2. \A path : P!lwm2m_decode_uri(P!Unset, path) = PP!lwm2m_decode_uri(PP!Unset, path)
  <2>1. \A seg : P!prv_get_number(seg) = PP!prv_get_number(seg)
    BY DEF P!prv_get_number, PP!prv_get_number, P!Digits, PP!Digits, P!Wrapped, PP!Wrapped,
        P!Rd, PP!Rd, P!Bs, PP!Bs, P!Empty, PP!Empty, P!Other, PP!Other
  <2>2. \A seg : P!Object(seg) = PP!Object(seg) /\ P!Instance(seg) = PP!Instance(seg)
    BY <2>1 DEF P!Object, PP!Object, P!Instance, PP!Instance, P!Unset, PP!Unset
  <2>3. \A path : P!decode_ids(path) = PP!decode_ids(path)
    BY <2>2 DEF P!decode_ids, PP!decode_ids, P!Null, PP!Null, P!Flagged, PP!Flagged, P!DM, PP!DM,
        P!Empty, PP!Empty, P!Unset, PP!Unset
  <2>4. QED
    BY <2>2, <2>3 DEF P!lwm2m_decode_uri, PP!lwm2m_decode_uri, P!Null, PP!Null, P!Flagged,
        PP!Flagged, P!DM, PP!DM, P!Rd, PP!Rd, P!Bs, PP!Bs, P!Empty, PP!Empty, P!Unset, PP!Unset
<1>3. \A u, known1 : P!Results(u, known1) = PP!Results(u, known1)
  <2>1. \A code, content, location, new :
          P!Result(code, content, location, new) = PP!Result(code, content, location, new)
    BY DEF P!Result, PP!Result, P!Done, PP!Done
  <2>2. \A code : P!Plain(code) = PP!Plain(code)
    BY <2>1 DEF P!Plain, PP!Plain
  <2>3. P!Refusals = PP!Refusals /\ P!NoMemory = PP!NoMemory
    BY <2>2 DEF P!Refusals, PP!Refusals, P!NoMemory, PP!NoMemory
  <2>4. \A u : P!WriteInstance(u) = PP!WriteInstance(u)
    BY DEF P!WriteInstance, PP!WriteInstance, P!Unset, PP!Unset, P!Result, PP!Result,
        P!Done, PP!Done
  <2>5. \A u : P!handle_dm_request(u) = PP!handle_dm_request(u)
    BY <2>1, <2>2, <2>3, <2>4 DEF P!handle_dm_request, PP!handle_dm_request, P!Unset, PP!Unset
  <2>6. P!Null = PP!Null
    BY DEF P!Null, PP!Null, P!Flagged, PP!Flagged, P!DM, PP!DM, P!Unset, PP!Unset
  <2>7. QED BY <2>2, <2>5, <2>6 DEF P!Results, PP!Results
<1>4. \A known1 : P!handle_request(known1) => PP!handle_request(known1)
  <2>1. P!Null = PP!Null
    BY DEF P!Null, PP!Null, P!Flagged, PP!Flagged, P!DM, PP!DM, P!Unset, PP!Unset
  <2>2. QED
    BY <1>2, <1>3, <2>1 DEF P!handle_request, PP!handle_request, P!AnswerTo, PP!AnswerTo,
        P!Successes, PP!Successes, P!Done, PP!Done, P!ResponseBlocks, PP!ResponseBlocks
<1>5. [P!Next]_(P!packetVars) => [PP!Next]_(PP!packetVars)
  <2>1. \A how, done : /\ P!answer(how) => PP!answer(how)
                       /\ P!refuse(how) => PP!refuse(how)
                       /\ P!responses(done, how) => PP!responses(done, how)
    BY DEF P!answer, PP!answer, P!Sent, PP!Sent, P!SendResult, PP!SendResult, P!Serialised,
        PP!Serialised, P!responses, PP!responses, P!EmptyAck, PP!EmptyAck, P!ResponseBlocks,
        PP!ResponseBlocks, P!refuse, PP!refuse, P!ErrorAck, PP!ErrorAck
  <2>2. P!blockwise => PP!blockwise
    BY DEF P!blockwise, PP!blockwise, P!OutOfScope, PP!OutOfScope
  <2>3. (P!release => PP!release) /\ P!Sendings = PP!Sendings
    BY DEF P!release, PP!release, P!Sendings, PP!Sendings
  <2>4. \A d : P!coap_parse_message(d) => PP!coap_parse_message(d)
    BY DEF P!coap_parse_message, PP!coap_parse_message, P!FaultCode, PP!FaultCode,
        P!Methods, PP!Methods
  <2>5. UNCHANGED P!packetVars => UNCHANGED PP!packetVars
    BY DEF P!packetVars, PP!packetVars, P!handling, PP!handling
  <2>6. P!Next => PP!Next
    BY <1>4, <2>1, <2>2, <2>3, <2>4
    DEF P!Next, PP!Next, P!lwm2m_handle_packet, PP!lwm2m_handle_packet
  <2>7. QED BY <2>5, <2>6
<1>6. (PP!TypeOK => P!TypeOK) /\ (PP!TypeOK' => P!TypeOK')
  BY DEF P!TypeOK, PP!TypeOK, P!Answer, PP!Answer, P!Types, PP!Types, P!Successes,
      PP!Successes, P!Done, PP!Done, P!Errors, PP!Errors
<1>7. QED BY <1>1, <1>5, <1>6

\* The server's variables, and what is on its way to it.
ServerTypes ==
  /\ asked \in 0 .. MaxAsked /\ acked \in BOOLEAN
  /\ replies \subseteq P!Answer
  /\ held \subseteq Values \ Refused /\ late \in BOOLEAN

TypeInv == IInv /\ TypeOK /\ PP!IInv /\ ServerTypes

\* The whole starts with every variable in its type.
LEMMA InitTypeInv == ClientInit => TypeInv
<1> SUFFICES ASSUME ClientInit PROVE TypeInv
  OBVIOUS
<1>1. IInv /\ TypeOK
  BY InitInv, InitTypes DEF ClientInit
<1>2. PP!IInv
  BY PacketHypotheses, SamePacket, PP!InitInv DEF ClientInit
<1>3. ServerTypes
  <2>1. value \in Values \ Refused
    BY <1>2, SamePacket DEF PP!IInv, P!TypeOK
  <2>2. /\ asked = 0 /\ acked = FALSE /\ replies = {} /\ held = {value} /\ late = FALSE
    BY DEF ClientInit
  <2>3. asked \in 0 .. MaxAsked
    BY <2>2, ClientAssumption
  <2>4. acked \in BOOLEAN /\ late \in BOOLEAN
    BY <2>2
  <2>5. held \subseteq Values \ Refused /\ replies \subseteq P!Answer
    BY <2>1, <2>2
  <2>6. QED BY <2>3, <2>4, <2>5 DEF ServerTypes
<1>4. QED BY <1>1, <1>2, <1>3 DEF TypeInv

\* What the client sends are answers: those of its message.
LEMMA SentIsAnswer ==
  ASSUME TypeInv, PP!IInv', lwm2m_handle_packet
  PROVE  replies' \subseteq P!Answer /\ value' \in Values \ Refused
<1>1. answers' \in Seq(P!Answer) /\ value' \in Values \ Refused
  <2>1. P!TypeOK'
    BY SamePacket DEF PP!IInv
  <2>2. QED BY <2>1 DEF P!TypeOK
<1>2. replies' = replies \cup Range(answers')
  BY DEF lwm2m_handle_packet, prv_buffer_send
<1>3. Range(answers') \subseteq P!Answer
  BY <1>1 DEF Range
<1>4. QED BY <1>1, <1>2, <1>3 DEF TypeInv, ServerTypes

\* Every step keeps every variable in its type.
LEMMA NextTypeInv == TypeInv /\ [ClientNext]_clientVars => TypeInv'
<1> SUFFICES ASSUME TypeInv, [ClientNext]_clientVars PROVE TypeInv'
  OBVIOUS
<1>1. IInv' /\ TypeOK'
  BY NextInv, LoopAlone, LoopTypes DEF TypeInv
<1>2. PP!IInv'
  BY PacketHypotheses, PacketAlone, SamePacket, PP!NextInv DEF TypeInv
<1>3. ServerTypes'
  <2>1. CASE LoopStep \/ UNCHANGED clientVars \/ \E r \in requests : Deliver(r)
    <3>1. UNCHANGED <<serverVars, networkVars, ghostVars>>
      BY <2>1 DEF LoopStep, Deliver, clientVars
    <3>2. QED BY <3>1 DEF serverVars, networkVars, ghostVars, TypeInv, ServerTypes
  <2>2. CASE lwm2m_handle_packet
    <3>1. asked' = asked /\ acked' = acked /\ held' = held \cup {value'}
      BY <2>2 DEF lwm2m_handle_packet, serverVars
    <3>2. late' \in BOOLEAN
      BY <2>2, Zenon DEF lwm2m_handle_packet
    <3>3. replies' \subseteq P!Answer /\ value' \in Values \ Refused
      BY <1>2, <2>2, SentIsAnswer
    <3>4. QED BY <3>1, <3>2, <3>3 DEF TypeInv, ServerTypes
  <2>3. CASE GiveUp \/ \E a \in replies : Take(a)
    <3>1. UNCHANGED <<asked, networkVars, ghostVars>>
      BY <2>3 DEF GiveUp, Take
    <3>2. acked' \in BOOLEAN
      BY <2>3 DEF GiveUp, Take, TypeInv, ServerTypes
    <3>3. QED BY <3>1, <3>2 DEF networkVars, ghostVars, TypeInv, ServerTypes
  <2>4. CASE \E q \in Questions : Ask(q)
    <3>1. /\ asked' = asked + 1 /\ asked < MaxAsked /\ acked' = FALSE /\ replies' = replies
          /\ held' = {value} /\ late' = FALSE
      BY <2>4 DEF Ask
    <3>2. value \in Values \ Refused
      BY SamePacket DEF TypeInv, PP!IInv, P!TypeOK
    <3>3. held' \subseteq Values \ Refused
      BY <3>1, <3>2
    <3>4. asked' \in 0 .. MaxAsked
      BY <3>1, ClientAssumption DEF TypeInv, ServerTypes
    <3>5. replies' \subseteq P!Answer
      BY <3>1 DEF TypeInv, ServerTypes
    <3>6. acked' \in BOOLEAN /\ late' \in BOOLEAN
      BY <3>1
    <3>7. QED BY <3>3, <3>4, <3>5, <3>6 DEF ServerTypes
  <2>5. QED BY <2>1, <2>2, <2>3, <2>4 DEF ClientNext, ClientLoop
<1>4. QED BY <1>1, <1>2, <1>3 DEF TypeInv

\* The loop, the packet and the server together are correctly typed: the session is
\* one of the list, a message is handled only where the loop handles one, what is on
\* its way to the server is an answer and what the server holds to be true a value.
THEOREM ClientTypeCorrect == ClientSpec => []ClientTypeOK
<1>1. TypeInv => ClientTypeOK
  <2> SUFFICES ASSUME TypeInv PROVE ClientTypeOK
    OBVIOUS
  <2>1. TypeOK /\ P!TypeOK
    BY SamePacket DEF TypeInv, PP!IInv
  <2>2. /\ stage # "idle" => pc = "handle"
        /\ request \in Requests \cup {None} /\ requests \subseteq Requests
    BY DEF TypeInv, IInv, AnswerInv, NetworkInv
  <2>3. known \in Values \cup {None}
    BY DEF TypeInv, IInv, KnownInv, Holds, ServerTypes
  <2>4. QED BY <2>1, <2>2, <2>3 DEF TypeInv, ServerTypes, ClientTypeOK
<1>2. QED BY <1>1, InitTypeInv, NextTypeInv, PTL DEF ClientSpec
=============================================================================
