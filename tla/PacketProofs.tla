------------------------------ MODULE PacketProofs ------------------------------
(***************************************************************************)
(* Proofs about Packet, for any datagrams, any resource and any faults:    *)
(* the type invariant, what is answered, what becomes of the memory, and   *)
(* what the paths of requests mean; and about Codec, for any messages and  *)
(* any paths of servers: what is written as bytes is read back from them.  *)
(***************************************************************************)
EXTENDS Packet, FiniteSetTheorems, SequenceTheorems, TLAPS

\* Where each stage comes from: only what parsed is handled, nothing is answered
\* before the answer, and what is refused has not been answered.
StageInv ==
  /\ stage \in {"handle_request", "blockwise", "answer"} =>
       message.fault = "none" /\ message.code \in Methods
  /\ stage = "responses" => message.fault = "none" /\ message.code \notin Methods /\ error = "none"
  /\ stage \in {"handle_request", "blockwise", "answer", "responses", "refuse"} => answers = <<>>
  /\ stage = "release" /\ error \notin {"none", "ignore"} => answers = <<>>
  /\ stage = "refuse" => error \in Errors

\* Who is answered: a request, or what is confirmable.
AskedInv ==
  /\ Len(answers) <= 1
  /\ ( \/ stage = "idle" /\ answers # <<>>
       \/ stage = "release" /\ (answers # <<>> \/ error \notin {"none", "ignore"})
       \/ stage = "refuse" )
     => (message.fault = "none" => message.code \in Methods \/ message.type = "CON")

\* What the answer says of what was done.
EffectInv ==
  /\ stage \in {"blockwise", "answer"} =>
       /\ response.type = "ACK" => response.mid = message.mid
       /\ response.code \in Done => acted
       /\ acted => \/ response.code \in Done
                   \/ response.code = "4.02" /\ message.block2 # None /\ ~message.block1
                   \/ WritesInstance
  /\ stage = "refuse" \/ (stage = "release" /\ error \notin {"none", "ignore"}) =>
       (acted => (error = "5.00" /\ sending # "sent") \/ WritesInstance)
  /\ AnswerTellsEffect

\* Who holds which block of memory.
HeapInv ==
  /\ stage = "idle" => "path" \notin heap
  /\ stage = "refuse" /\ "path" \in heap => message.fault = "option"
  /\ "payload" \in heap => stage \in {"blockwise", "answer"} /\ message.code = "GET"
  /\ "location" \in heap => stage \in {"blockwise", "answer"} \/ sending = "alloc"
  /\ stage = "blockwise" =>
       /\ payload = IF "payload" \in heap THEN "buffer" ELSE "none"
       /\ "payload" \in heap <=> response.content # None
       /\ IF message.code = "GET" THEN response.content = value ELSE response.content = None
  /\ stage = "answer" =>
       /\ "payload" \in heap => payload = "buffer" \/ MovesPayload
       /\ payload \in {"inside", "constant"} => MovesPayload

IInv == TypeOK /\ StageInv /\ AskedInv /\ EffectInv /\ HeapInv

-----------------------------------------------------------------------------
(* What the steps are built from. *)

\* Every datagram is a message.
LEMMA InDatagram ==
  ASSUME NEW d \in Datagrams
  PROVE  d \in Message
BY PacketAssumption

\* What may be found out about a request.
Found(r) ==
  /\ r.code \in Successes \cup Errors \cup {"ignore"}
  /\ r.location \subseteq {"location"} /\ (r.location # {} => r.code \in Successes)
  /\ r.value \in Values \ Refused
  /\ IF r.code \in Successes /\ message.code = "GET" THEN r.content = r.value ELSE r.content = None
  /\ r.acted \in BOOLEAN /\ (r.code \in Done => r.acted)
  /\ r.acted => r.code \in Done \/ WritesInstance

\* A write of several resources is one, whatever it leaves and is answered.
LEMMA SeveralFound ==
  ASSUME TypeOK, message.code \in {"PUT", "POST"}, NEW u, u = lwm2m_decode_uri(Unset, message.path),
         u.type = "DM", u.instanceId # Unset, u.resourceId = Unset, NEW r \in WriteInstance(u)
  PROVE  Found(r)
<1>1. WritesInstance
  BY DEF WritesInstance
<1>2. PICK code \in {"2.04", "4.00", "4.04", "4.05"}, v \in Values \ Refused :
        r = [Result(code, None, {}, v) EXCEPT !.acted = TRUE]
  <2> DEFINE written == {value} \cup (IF u = [Resource EXCEPT !.resourceId = Unset]
                                        THEN {message.value} \cap (Values \ Refused) ELSE {})
  <2>1. written \subseteq Values \ Refused
    BY DEF TypeOK
  <2>2. r \in {[Result(code, None, {}, v) EXCEPT !.acted = TRUE] :
                 code \in {"2.04", "4.00", "4.04", "4.05"}, v \in written}
    BY DEF WriteInstance
  <2>3. QED BY <2>1, <2>2
<1>3. /\ r.code = code /\ r.content = None /\ r.location = {} /\ r.value = v /\ r.acted = TRUE
  BY <1>2 DEF Result
<1>4. QED BY <1>1, <1>2, <1>3 DEF Found, Successes, Done, Errors

\* What a result says; what is done is what its code says was done.
LEMMA ResultSays ==
  ASSUME NEW code, NEW content, NEW location, NEW new, NEW r, r = Result(code, content, location, new)
  PROVE  /\ r.code = code /\ r.content = content /\ r.location = location /\ r.value = new
         /\ r.acted \in BOOLEAN /\ (r.acted <=> code \in Done)
<1>1. r.code = code /\ r.content = content /\ r.location = location /\ r.value = new
  BY DEF Result
<1>2. \A b : r = [code |-> code, content |-> content, location |-> location, value |-> new, acted |-> b]
               => r.acted = b
  OBVIOUS
<1>3. r = [code |-> code, content |-> content, location |-> location, value |-> new,
           acted |-> code \in Done]
  BY Zenon DEF Result
<1>4. r.acted = (code \in Done)
  BY <1>2, <1>3, Zenon
<1>5. CASE code \in Done
  <2>1. (code \in Done) = TRUE
    BY <1>5
  <2>2. r.acted = TRUE
    BY <1>4, <2>1, Zenon
  <2>3. QED BY <1>1, <1>5, <2>2
<1>6. CASE code \notin Done
  <2>1. (code \in Done) = FALSE
    BY <1>6
  <2>2. r.acted = FALSE
    BY <1>4, <2>1, Zenon
  <2>3. QED BY <1>1, <1>6, <2>2
<1>7. QED BY <1>5, <1>6

\* What handle_request may find out.
LEMMA ResultsOK ==
  ASSUME TypeOK, message.code \in Methods, NEW known \in BOOLEAN, NEW u,
         u \in {lwm2m_decode_uri(Unset, message.path), Null}, NEW r \in Results(u, known)
  PROVE  Found(r)
<1>1. value \in Values \ Refused
  BY DEF TypeOK
<1>2. ASSUME NEW code \in {"2.04", "2.02", "2.01", "4.00", "4.04", "4.05", "5.00", "ignore"},
             r = Plain(code), code \in Done => message.code # "GET"
      PROVE  Found(r)
  <2>1. /\ r.code = code /\ r.content = None /\ r.location = {} /\ r.value = value
        /\ r.acted \in BOOLEAN /\ (r.acted <=> code \in Done)
    BY <1>2, ResultSays DEF Plain
  <2>2. /\ r.code \in Successes \cup Errors \cup {"ignore"}
        /\ ~(r.code \in Successes /\ message.code = "GET")
    BY <1>2, <2>1 DEF Successes, Done, Errors
  <2>3. r.code \in Done <=> r.acted
    BY <2>1
  <2>4. QED BY <1>1, <2>1, <2>2, <2>3, Zenon DEF Found
<1>3. CASE u = Null
  BY <1>2, <1>3 DEF Results, Done
<1>4. CASE ~(u = Null) /\ ~(u.type = "DM" /\ known)
  BY <1>2, <1>4 DEF Results, Done
<1>5. CASE ~(u = Null) /\ u.type = "DM" /\ known
  <2>1. r \in handle_dm_request(u)
    BY <1>5 DEF Results
  <2>2. CASE r \in Refusals \cup NoMemory
    BY <1>2, <2>2 DEF Refusals, NoMemory, Done
  <2>3. CASE message.code = "GET"
    <3>1. r = Result("2.05", value, {}, value) \/ r = Plain("4.04") \/ r \in NoMemory
      BY <2>1, <2>3 DEF handle_dm_request
    <3>2. CASE r = Result("2.05", value, {}, value)
      <4>1. /\ r.code = "2.05" /\ r.content = value /\ r.location = {} /\ r.value = value
            /\ r.acted \in BOOLEAN /\ (r.acted <=> "2.05" \in Done)
        BY <3>2, ResultSays
      <4>2. "2.05" \notin Done /\ "2.05" \in Successes
        BY DEF Successes, Done
      <4>3. QED BY <1>1, <2>3, <4>1, <4>2, Zenon DEF Found
    <3>3. CASE r = Plain("4.04")
      BY <1>2, <3>3 DEF Done
    <3>4. QED BY <2>2, <3>1, <3>2, <3>3
  <2>4. CASE message.code = "PUT"
    <3>1. \/ r \in Refusals \cup NoMemory \/ r \in {Plain("4.00"), Plain("2.04")}
          \/ u.instanceId # Unset /\ u.resourceId = Unset /\ r \in WriteInstance(u)
          \/ r = Result("2.04", None, {}, message.value) /\ message.value \in Values \ Refused
      BY <2>1, <2>4 DEF handle_dm_request
    <3>2. CASE u.instanceId # Unset /\ u.resourceId = Unset /\ r \in WriteInstance(u)
      BY <1>5, <2>4, <3>2, SeveralFound
    <3>3. CASE r = Result("2.04", None, {}, message.value) /\ message.value \in Values \ Refused
      <4>1. /\ r.code = "2.04" /\ r.content = None /\ r.location = {} /\ r.value \in Values \ Refused
            /\ r.acted \in BOOLEAN /\ (r.acted <=> "2.04" \in Done)
        BY <3>3, ResultSays
      <4>2. "2.04" \in Done /\ "2.04" \in Successes /\ message.code # "GET"
        BY <2>4 DEF Successes, Done
      <4>3. QED BY <4>1, <4>2, Zenon DEF Found
    <3>4. QED BY <1>2, <2>2, <2>4, <3>1, <3>2, <3>3
  <2>5. CASE message.code = "POST"
    <3>1. \/ r \in Refusals \/ r \in {Plain("2.01"), Plain("2.04")}
          \/ u.instanceId # Unset /\ u.resourceId = Unset /\ r \in WriteInstance(u)
          \/ r = Result("2.01", None, {"location"}, value)
      BY <2>1, <2>5 DEF handle_dm_request
    <3>2. CASE u.instanceId # Unset /\ u.resourceId = Unset /\ r \in WriteInstance(u)
      BY <1>5, <2>5, <3>2, SeveralFound
    <3>3. CASE r = Result("2.01", None, {"location"}, value)
      <4>1. /\ r.code = "2.01" /\ r.content = None /\ r.location = {"location"} /\ r.value = value
            /\ r.acted \in BOOLEAN /\ (r.acted <=> "2.01" \in Done)
        BY <3>3, ResultSays
      <4>2. "2.01" \in Done /\ "2.01" \in Successes /\ message.code # "GET"
        BY <2>5 DEF Successes, Done
      <4>3. QED BY <1>1, <4>1, <4>2, Zenon DEF Found
    <3>4. QED BY <1>2, <2>2, <2>5, <3>1, <3>2, <3>3
  <2>6. CASE message.code = "DELETE"
    <3>1. r \in Refusals \/ r \in {Plain("4.00"), Plain("2.02")}
      BY <2>1, <2>6 DEF handle_dm_request
    <3>2. QED BY <1>2, <2>2, <2>6, <3>1
  <2>7. QED BY <2>3, <2>4, <2>5, <2>6 DEF Methods
<1>6. QED BY <1>3, <1>4, <1>5

\* An answer sent is the only one.
LEMMA SentOnce ==
  ASSUME NEW how \in Sendings, NEW a \in Answer, answers = <<>>
  PROVE  /\ Sent(how, a) \in Seq(Answer) /\ Len(Sent(how, a)) <= 1
         /\ how = "sent" => Sent(how, a) = <<a>>
         /\ how # "sent" => Sent(how, a) = <<>>
BY DEF Sent

\* What is not sent is an error.
LEMMA NotSent ==
  ASSUME NEW how \in Sendings
  PROVE  /\ SendResult(how) \in {"none", "5.00"}
         /\ how = "sent" <=> SendResult(how) = "none"
         /\ how \in {"sent", "alloc", "send"}
BY DEF Sendings, SendResult

-----------------------------------------------------------------------------
(* One lemma per step. *)

\* Packet handling starts within the invariant.
LEMMA InitInv == Init => IInv
<1> SUFFICES ASSUME Init PROVE IInv
  OBVIOUS
<1>1. TypeOK
  <2>1. damage \in BOOLEAN /\ acted \in BOOLEAN
    BY DEF Init
  <2>2. answers \in Seq(Answer)
    BY DEF Init
  <2>3. QED BY <2>1, <2>2 DEF Init, TypeOK
<1>2. StageInv /\ HeapInv
  BY DEF Init, StageInv, HeapInv
<1>3. AskedInv
  BY DEF Init, AskedInv
<1>4. EffectInv
  BY DEF Init, EffectInv, AnswerTellsEffect
<1>5. QED BY <1>1, <1>2, <1>3, <1>4 DEF IInv

\* coap_parse_message keeps the invariant, whatever comes in.
LEMMA ParseStep ==
  ASSUME IInv, NEW d \in Datagrams, coap_parse_message(d)
  PROVE  IInv'
<1> USE DEF IInv, coap_parse_message, FaultCode
<1>1. d \in Message /\ d.fault \in Faults
  BY InDatagram DEF Message
<1>2. TypeOK'
  <2>1. damage' \in BOOLEAN /\ acted' \in BOOLEAN
    BY DEF TypeOK
  <2>2. answers' \in Seq(Answer)
    BY DEF TypeOK
  <2>3. QED BY <1>1, <2>1, <2>2 DEF TypeOK, Faults, Errors
<1>3. StageInv'
  BY <1>1 DEF StageInv, TypeOK, Faults, Errors
<1>4. AskedInv'
  BY <1>1 DEF AskedInv, TypeOK, Faults
<1>5. EffectInv'
  BY <1>1 DEF EffectInv, AnswerTellsEffect, TypeOK, Faults
<1>6. HeapInv'
  BY <1>1 DEF HeapInv, TypeOK, Faults
<1>7. QED BY <1>2, <1>3, <1>4, <1>5, <1>6

\* handle_request keeps it.
LEMMA RequestStep ==
  ASSUME IInv, NEW known \in BOOLEAN, handle_request(known)
  PROVE  IInv'
<1> DEFINE Handled(r) ==
         /\ response' = AnswerTo(message, r)
         /\ payload' = IF r.content = None THEN "none" ELSE "buffer"
         /\ heap' = (heap \ ResponseBlocks) \cup r.location
                      \cup (IF r.content = None THEN {} ELSE {"payload"})
         /\ error' = IF r.code \in Successes THEN "none" ELSE r.code
         /\ stage' = IF r.code \in Successes THEN "blockwise"
                     ELSE IF r.code = "ignore" THEN "release" ELSE "answer"
         /\ value' = r.value
         /\ acted' = r.acted
<1>1. PICK u \in {lwm2m_decode_uri(Unset, message.path), Null} : \E r \in Results(u, known) : Handled(r)
  BY DEF handle_request
<1>2. PICK r \in Results(u, known) : Handled(r)
  BY <1>1
<1>3. /\ stage = "handle_request" /\ lost' = lost \cup (heap \cap ResponseBlocks)
      /\ message' = message /\ damage' = damage /\ answers' = answers
      /\ sending' = sending
  BY DEF handle_request
<1>4. /\ message \in Datagrams /\ message \in Message
      /\ message.fault = "none" /\ message.code \in Methods /\ answers = <<>>
  BY <1>3, InDatagram DEF IInv, TypeOK, StageInv
<1>5. Found(r)
  BY <1>4, ResultsOK DEF IInv
<1>6. /\ r.code \in Successes \cup Errors \cup {"ignore"}
      /\ r.location \subseteq {"location"} /\ (r.location # {} => r.code \in Successes)
      /\ r.value \in Values \ Refused /\ r.content \in Values \cup {None}
      /\ IF r.code \in Successes /\ message.code = "GET" THEN r.content = r.value ELSE r.content = None
  BY <1>5 DEF Found
<1>7. /\ acted' \in BOOLEAN /\ (r.code \in Done => acted') /\ (acted' => r.code \in Done \/ WritesInstance')
  <2>1. WritesInstance' <=> WritesInstance
    BY <1>3 DEF WritesInstance
  <2>2. QED BY <1>2, <1>5, <2>1, Zenon DEF Found
<1>8. /\ response' \in Answer /\ response'.type \in {"ACK", "NON"} /\ response'.code = r.code
      /\ response'.content = r.content
      /\ response'.type = "ACK" => response'.mid = message.mid
  BY <1>2, <1>4, <1>6 DEF AnswerTo, Answer, Message, Types
<1> USE DEF Successes, Done, Errors, ResponseBlocks
<1>9. TypeOK'
  <2>1. damage' \in BOOLEAN /\ acted' \in BOOLEAN
    BY <1>7, <1>3 DEF IInv, TypeOK
  <2>2. answers' \in Seq(Answer) /\ lost' \subseteq {"path", "payload", "location"}
    BY <1>3, <1>4 DEF IInv, TypeOK
  <2>3. heap' \subseteq {"path", "payload", "location"} /\ payload' \in {"none", "buffer"}
    BY <1>2, <1>6 DEF IInv, TypeOK
  <2>4. stage' \in {"blockwise", "release", "answer"} /\ error' \in Errors \cup {"none", "ignore"}
    BY <1>2, <1>6
  <2>5. sending' \in {"sent", "alloc", "send"} /\ value' \in Values \ Refused
    BY <1>2, <1>3, <1>6 DEF IInv, TypeOK
  <2>6. QED BY <1>3, <1>4, <1>8, <2>1, <2>2, <2>3, <2>4, <2>5 DEF TypeOK
<1>10. StageInv'
  BY <1>2, <1>3, <1>4, <1>6 DEF StageInv
<1>11. AskedInv'
  BY <1>2, <1>3, <1>4, <1>6 DEF AskedInv
<1>12. EffectInv'
  <2>1. AnswerTellsEffect'
    BY <1>3, <1>4 DEF AnswerTellsEffect
  <2>2. stage' # "refuse" /\ (stage' = "release" => error' = "ignore")
    BY <1>2, <1>6
  <2>3. stage' \in {"blockwise", "answer"} =>
          /\ response'.type = "ACK" => response'.mid = message'.mid
          /\ response'.code \in Done => acted'
          /\ acted' => response'.code \in Done \/ WritesInstance'
    BY <1>3, <1>8, <1>7
  <2> QED BY <2>1, <2>2, <2>3, Zenon DEF EffectInv
<1>13. HeapInv'
  <2>1. stage' \in {"blockwise", "release", "answer"} /\ (r.code \in Successes <=> stage' = "blockwise")
    BY <1>2, <1>6
  <2>2. "location" \in heap' => stage' = "blockwise"
    BY <1>2, <1>6, <2>1
  <2>3. /\ "payload" \in heap' <=> r.content # None
        /\ r.content # None => stage' = "blockwise" /\ message.code = "GET"
        /\ payload' = IF r.content = None THEN "none" ELSE "buffer"
    BY <1>2, <1>6, <2>1
  <2>4. stage' = "blockwise" =>
          IF message'.code = "GET" THEN response'.content = value' ELSE response'.content = None
    BY <1>2, <1>3, <1>8, <1>6, <2>1
  <2>5. QED BY <1>3, <1>8, <2>1, <2>2, <2>3, <2>4 DEF HeapInv
<1>14. QED BY <1>9, <1>10, <1>11, <1>12, <1>13 DEF IInv

\* Cutting the answer into blocks keeps it.
LEMMA BlockStep ==
  ASSUME IInv, blockwise
  PROVE  IInv'
<1>1. /\ stage = "blockwise" /\ stage' = "answer" /\ message' = message /\ error' = error
      /\ heap' = heap /\ lost' = lost /\ damage' = damage /\ value' = value
      /\ acted' = acted /\ answers' = answers /\ sending' = sending
  BY DEF blockwise
<1>2. /\ message \in Datagrams /\ message \in Message /\ response \in Answer
      /\ message.block2 \in Nat \cup {None}
  BY <1>1, InDatagram DEF IInv, TypeOK, Message
<1>3. OutOfScope /\ message.block2 = 0 => message.code # "GET" \/ Blocks[value] = 0
  BY <1>1, PacketAssumption DEF OutOfScope, IInv, HeapInv, TypeOK
<1>4. \/ response' = response /\ payload' = payload
      \/ /\ ~message.block1 /\ message.block2 # None /\ OutOfScope
         /\ response' = [response EXCEPT !.code = "4.02", !.content = "BlockOutOfScope"]
         /\ payload' = "constant"
      \/ /\ ~message.block1 /\ message.block2 # None /\ ~OutOfScope /\ response' = response
         /\ payload' = IF message.block2 = 0 THEN payload ELSE "inside"
  BY DEF blockwise
<1>5. /\ response' \in Answer /\ response'.type = response.type /\ response'.mid = response.mid
      /\ \/ response'.code = response.code
         \/ response'.code = "4.02" /\ message.block2 # None /\ ~message.block1
  BY <1>2, <1>4 DEF Answer, Errors
<1>6. TypeOK'
  BY <1>1, <1>2, <1>4, <1>5 DEF IInv, TypeOK
<1>7. StageInv'
  BY <1>1 DEF IInv, StageInv
<1>8. AskedInv'
  BY <1>1 DEF IInv, AskedInv
<1>9. EffectInv'
  <2>1. answers' = <<>>
    BY <1>1 DEF IInv, StageInv
  <2>2. WritesInstance' <=> WritesInstance
    BY <1>1 DEF WritesInstance
  <2>3. AnswerTellsEffect'
    BY <2>1 DEF AnswerTellsEffect
  <2>4. QED BY <1>1, <1>5, <2>2, <2>3 DEF IInv, EffectInv, Done
<1>10. HeapInv'
  <2>1. MovesPayload' <=> MovesPayload
    BY <1>1 DEF MovesPayload
  <2>2. payload' \in {"inside", "constant"} => MovesPayload
    BY <1>1, <1>2, <1>3, <1>4 DEF IInv, HeapInv, MovesPayload
  <2>3. "payload" \in heap' => payload' = "buffer" \/ MovesPayload
    BY <1>1, <1>4, <2>2 DEF IInv, HeapInv
  <2>4. QED BY <1>1, <2>1, <2>2, <2>3 DEF IInv, HeapInv
<1>11. QED BY <1>6, <1>7, <1>8, <1>9, <1>10 DEF IInv

\* Sending the answer keeps it, however the sending ends.
LEMMA AnswerStep ==
  ASSUME IInv, NEW how \in Sendings, answer(how)
  PROVE  IInv'
<1>1. /\ stage = "answer" /\ stage' = "release" /\ answers' = Sent(how, response)
      /\ error' = SendResult(how) /\ payload' = "none"
      /\ heap' = heap \ (Serialised(how) \cup {"payload"})
      /\ lost' \subseteq lost \cup {"payload"} /\ damage' \in BOOLEAN
      /\ message' = message /\ response' = response /\ value' = value /\ acted' = acted
      /\ sending' = how
  BY DEF answer, IInv, TypeOK
<1>2. /\ message \in Datagrams /\ message.fault = "none" /\ message.code \in Methods
      /\ answers = <<>> /\ response \in Answer
  BY <1>1 DEF IInv, TypeOK, StageInv
<1>3. /\ answers' \in Seq(Answer) /\ Len(answers') <= 1
      /\ how = "sent" => answers' = <<response>>
      /\ how # "sent" => answers' = <<>>
  BY <1>1, <1>2, SentOnce
<1>4. TypeOK'
  BY <1>1, <1>2, <1>3, NotSent DEF IInv, TypeOK, Errors
<1>5. StageInv'
  BY <1>1, <1>3, NotSent DEF StageInv
<1>6. AskedInv'
  BY <1>1, <1>2, <1>3 DEF AskedInv
<1>7. AnswerTellsEffect'
  <2>1. WritesInstance' <=> WritesInstance
    BY <1>1 DEF WritesInstance
  <2>2. CASE how = "sent"
    BY <1>1, <1>3, <2>1, <2>2 DEF IInv, EffectInv, AnswerTellsEffect, Done, Errors
  <2>3. CASE how # "sent"
    BY <1>3, <2>3 DEF AnswerTellsEffect
  <2>4. QED BY <2>2, <2>3
<1>8. EffectInv'
  BY <1>1, <1>7, NotSent DEF EffectInv
<1>9. HeapInv'
  BY <1>1, NotSent DEF IInv, HeapInv, Serialised
<1>10. QED BY <1>4, <1>5, <1>6, <1>8, <1>9 DEF IInv

\* Handling a response, an acknowledgement or a reset keeps it.
LEMMA ResponseStep ==
  ASSUME IInv, NEW done \in BOOLEAN, NEW how \in Sendings, responses(done, how)
  PROVE  IInv'
<1>1. /\ stage = "responses" /\ stage' = "release" /\ message' = message
      /\ payload' = payload /\ damage' = damage /\ value' = value /\ acted' = acted
  BY DEF responses
<1>2. /\ message \in Datagrams /\ message \in Message /\ message.fault = "none"
      /\ error = "none" /\ answers = <<>>
  BY <1>1, InDatagram DEF IInv, TypeOK, StageInv
<1>3. CASE message.type = "CON"
  <2>1. /\ response' = EmptyAck(message) /\ answers' = Sent(how, EmptyAck(message))
        /\ error' = IF done THEN "none" ELSE SendResult(how)
        /\ heap' = heap \ ResponseBlocks /\ lost' = lost \cup (heap \cap ResponseBlocks)
        /\ sending' = how
    BY <1>3 DEF responses
  <2>2. EmptyAck(message) \in Answer
    BY <1>2 DEF EmptyAck, Answer, Message, Types
  <2>3. /\ answers' \in Seq(Answer) /\ Len(answers') <= 1
        /\ how = "sent" => answers' = <<EmptyAck(message)>>
        /\ how # "sent" => answers' = <<>>
    BY <1>2, <2>1, <2>2, SentOnce
  <2>4. TypeOK'
    BY <1>1, <1>2, <2>1, <2>2, <2>3, NotSent DEF IInv, TypeOK, ResponseBlocks, Errors
  <2>5. StageInv'
    BY <1>1, <2>1, <2>3, NotSent DEF StageInv
  <2>6. AskedInv'
    BY <1>1, <1>3, <2>3 DEF AskedInv
  <2>7. AnswerTellsEffect'
    <3>1. CASE how = "sent"
      BY <1>1, <2>3, <3>1 DEF AnswerTellsEffect, EmptyAck, Done, Errors
    <3>2. CASE how # "sent"
      BY <2>3, <3>2 DEF AnswerTellsEffect
    <3>3. QED BY <3>1, <3>2
  <2>8. EffectInv'
    BY <1>1, <2>1, <2>7, NotSent DEF EffectInv
  <2>9. HeapInv'
    BY <1>1, <2>1 DEF IInv, HeapInv, ResponseBlocks
  <2>10. QED BY <2>4, <2>5, <2>6, <2>8, <2>9 DEF IInv
<1>4. CASE message.type # "CON"
  <2>1. /\ response' = response /\ answers' = answers /\ error' = error
        /\ heap' = heap /\ lost' = lost /\ sending' = sending
    BY <1>4 DEF responses
  <2>2. TypeOK' /\ StageInv' /\ AskedInv' /\ HeapInv'
    BY <1>1, <1>2, <2>1 DEF IInv, TypeOK, StageInv, AskedInv, HeapInv
  <2>3. EffectInv'
    BY <1>1, <1>2, <2>1 DEF EffectInv, AnswerTellsEffect
  <2>4. QED BY <2>2, <2>3 DEF IInv
<1>5. QED BY <1>3, <1>4

\* Releasing the message keeps it.
LEMMA ReleaseStep ==
  ASSUME IInv, release
  PROVE  IInv'
<1>1. /\ stage = "release" /\ heap' = heap \ {"path"}
      /\ stage' = IF error \in {"none", "ignore"} THEN "idle" ELSE "refuse"
      /\ message' = message /\ response' = response /\ payload' = payload /\ error' = error
      /\ lost' = lost /\ damage' = damage /\ value' = value /\ acted' = acted
      /\ answers' = answers /\ sending' = sending
  BY DEF release
<1>2. TypeOK'
  BY <1>1 DEF IInv, TypeOK
<1>3. StageInv'
  BY <1>1 DEF IInv, TypeOK, StageInv
<1>4. AskedInv'
  BY <1>1 DEF IInv, AskedInv
<1>5. EffectInv'
  <2>1. WritesInstance' <=> WritesInstance
    BY <1>1 DEF WritesInstance
  <2>2. QED BY <1>1, <2>1 DEF IInv, EffectInv, AnswerTellsEffect
<1>6. HeapInv'
  BY <1>1 DEF IInv, HeapInv
<1>7. QED BY <1>2, <1>3, <1>4, <1>5, <1>6 DEF IInv

\* Sending an error keeps it, however the sending ends.
LEMMA RefuseStep ==
  ASSUME IInv, NEW how \in Sendings, refuse(how)
  PROVE  IInv'
<1>1. /\ stage = "refuse" /\ stage' = "idle" /\ answers' = Sent(how, ErrorAck(message))
      /\ heap' = heap \ {"path"} /\ lost' = lost \cup (heap \cap {"path"})
      /\ message' = message /\ response' = response /\ payload' = payload /\ error' = error
      /\ damage' = damage /\ value' = value /\ acted' = acted /\ sending' = sending
  BY DEF refuse
<1>2. /\ message \in Datagrams /\ message \in Message /\ error \in Errors /\ answers = <<>>
  BY <1>1, InDatagram DEF IInv, TypeOK, StageInv
<1>3. ErrorAck(message) \in Answer
  BY <1>2 DEF ErrorAck, Answer, Message, Types
<1>4. /\ answers' \in Seq(Answer) /\ Len(answers') <= 1
      /\ how = "sent" => answers' = <<ErrorAck(message)>>
      /\ how # "sent" => answers' = <<>>
  BY <1>1, <1>2, <1>3, SentOnce
<1>5. TypeOK'
  BY <1>1, <1>2, <1>4 DEF IInv, TypeOK
<1>6. StageInv'
  BY <1>1 DEF StageInv
<1>7. AskedInv'
  BY <1>1, <1>4 DEF IInv, AskedInv
<1>8. AnswerTellsEffect'
  <2>1. WritesInstance' <=> WritesInstance
    BY <1>1 DEF WritesInstance
  <2>2. CASE how = "sent"
    BY <1>1, <1>2, <1>4, <2>1, <2>2 DEF IInv, EffectInv, AnswerTellsEffect, ErrorAck, Done, Errors
  <2>3. CASE how # "sent"
    BY <1>4, <2>3 DEF AnswerTellsEffect
  <2>4. QED BY <2>2, <2>3
<1>9. EffectInv'
  BY <1>1, <1>8 DEF EffectInv
<1>10. HeapInv'
  BY <1>1 DEF IInv, HeapInv
<1>11. QED BY <1>5, <1>6, <1>7, <1>9, <1>10 DEF IInv

\* Every step keeps the invariant.
LEMMA NextInv == IInv /\ [Next]_packetVars => IInv'
<1> SUFFICES ASSUME IInv, [Next]_packetVars PROVE IInv'
  OBVIOUS
<1>1. CASE \E d \in Datagrams : coap_parse_message(d)
  BY <1>1, ParseStep
<1>2. CASE \E known \in BOOLEAN : handle_request(known)
  BY <1>2, RequestStep
<1>3. CASE blockwise
  BY <1>3, BlockStep
<1>4. CASE \E how \in Sendings : answer(how)
  BY <1>4, AnswerStep
<1>5. CASE \E how \in Sendings : refuse(how)
  BY <1>5, RefuseStep
<1>6. CASE \E how \in Sendings, done \in BOOLEAN : responses(done, how)
  BY <1>6, ResponseStep
<1>7. CASE release
  BY <1>7, ReleaseStep
<1>8. CASE UNCHANGED packetVars
  <2> USE <1>8 DEF packetVars, handling
  <2>1. (WritesInstance' <=> WritesInstance) /\ (MovesPayload' <=> MovesPayload)
    BY DEF WritesInstance, MovesPayload
  <2>2. TypeOK' /\ StageInv' /\ AskedInv'
    BY DEF IInv, TypeOK, StageInv, AskedInv
  <2>3. EffectInv' /\ HeapInv'
    BY <2>1 DEF IInv, EffectInv, AnswerTellsEffect, HeapInv
  <2>4. QED BY <2>2, <2>3 DEF IInv
<1>9. QED
  BY <1>1, <1>2, <1>3, <1>4, <1>5, <1>6, <1>7, <1>8 DEF Next, lwm2m_handle_packet

\* The invariant holds in every state.
LEMMA Invariant == Spec => []IInv
BY InitInv, NextInv, PTL DEF Spec

-----------------------------------------------------------------------------
(* The theorems. *)

\* Whatever arrives and whatever fails, the answer, the blocks of memory and the
\* resource keep their type: a refused content is never kept.
THEOREM PacketTypeCorrect == Spec => []TypeOK
BY Invariant, PTL DEF IInv

\* No datagram is answered twice, and no answer is answered unless it asks for it.
THEOREM OneAnswer == Spec => []AnsweredOnce
<1>1. IInv => AnsweredOnce
  BY DEF IInv, AskedInv, AnsweredOnce
<1>2. QED BY <1>1, Invariant, PTL

\* An answer tells what became of the request, but for three: the first answer was
\* lost, a block of nothing was asked for, a later resource of a write was refused.
THEOREM AnswerTrue == Spec => []AnswerTellsEffect
<1>1. IInv => AnswerTellsEffect
  BY DEF IInv, EffectInv
<1>2. QED BY <1>1, Invariant, PTL

\* No memory is lost but in the three ways the property names, whatever arrives.
THEOREM LossesNamed == Spec => LossesExplained
<1>1. IInv /\ [Next]_packetVars =>
        [/\ "path" \in lost' \ lost => message.fault = "option"
         /\ "payload" \in lost' \ lost => message.code = "GET" /\ MovesPayload
         /\ "location" \in lost' \ lost => sending = "alloc"]_packetVars
  <2> SUFFICES ASSUME IInv, Next
               PROVE  /\ "path" \in lost' \ lost => message.fault = "option"
                      /\ "payload" \in lost' \ lost => message.code = "GET" /\ MovesPayload
                      /\ "location" \in lost' \ lost => sending = "alloc"
    OBVIOUS
  <2> USE DEF IInv, HeapInv
  <2>1. CASE \E d \in Datagrams : coap_parse_message(d)
    BY <2>1 DEF coap_parse_message
  <2>2. CASE \E known \in BOOLEAN : handle_request(known)
    BY <2>2 DEF handle_request, ResponseBlocks
  <2>3. CASE blockwise \/ release
    BY <2>3 DEF blockwise, release
  <2>4. CASE \E how \in Sendings : answer(how)
    BY <2>4 DEF answer
  <2>5. CASE \E how \in Sendings : refuse(how)
    BY <2>5 DEF refuse
  <2>6. CASE \E how \in Sendings, done \in BOOLEAN : responses(done, how)
    BY <2>6 DEF responses, ResponseBlocks
  <2>7. QED BY <2>1, <2>2, <2>3, <2>4, <2>5, <2>6 DEF Next, lwm2m_handle_packet
<1>2. QED BY <1>1, Invariant, PTL DEF Spec, LossesExplained

\* Nothing makes the client free what it must not but a Block2 option for a later
\* block, for an answer without content or for an empty one.
THEOREM DamageNamed == Spec => DamageExplained
<1>1. IInv /\ [Next]_packetVars => [damage' /\ ~damage => MovesPayload]_packetVars
  <2> SUFFICES ASSUME IInv, Next, damage', ~damage
               PROVE  MovesPayload
    OBVIOUS
  <2>1. \A d : ~coap_parse_message(d)
    BY DEF coap_parse_message
  <2>2. \A known, done, how : ~handle_request(known) /\ ~refuse(how) /\ ~responses(done, how)
    BY DEF handle_request, refuse, responses
  <2>3. ~blockwise /\ ~release
    BY DEF blockwise, release
  <2>4. \E how \in Sendings : answer(how)
    BY <2>1, <2>2, <2>3 DEF Next, lwm2m_handle_packet
  <2>5. QED BY <2>4 DEF answer, IInv, HeapInv
<1>2. QED BY <1>1, Invariant, PTL DEF Spec, DamageExplained

-----------------------------------------------------------------------------
(* Names (Uri).  A path is followed segment by segment: Spells says that   *)
(* the IDs of a URI stand in it one after the other, which is what         *)
(* transaction_new writes and what lwm2m_decode_uri reads.                 *)

\* A number whose tenfold fits an int is read as itself.
LEMMA NumberRead ==
  ASSUME NEW n \in Nat, n <= (INT_SPACE \div 2 - 1) \div 10
  PROVE  prv_get_number(n) = n
<1>1. INT_SPACE \in Nat /\ INT_SPACE > 20 /\ INT_SPACE % 2 = 0
  BY UriAssumption
<1>2. 10 * n < INT_SPACE \div 2
  <2> DEFINE half == INT_SPACE \div 2
  <2>1. half \in Nat /\ half >= 10
    BY <1>1
  <2>2. n <= (half - 1) \div 10
    OBVIOUS
  <2> HIDE DEF half
  <2>3. QED BY <2>1, <2>2 DEF half
<1>3. (10 * n) % INT_SPACE = 10 * n
  BY <1>1, <1>2
<1>4. Wrapped(10 * n) = 10 * n
  BY <1>2, <1>3 DEF Wrapped
<1>5. (10 * n) \div 10 = n
  OBVIOUS
<1>6. QED BY <1>4, <1>5 DEF prv_get_number, Digits, Empty, Rd, Bs, Other

\* So are the IDs and the first number beyond them.
LEMMA SmallRead ==
  ASSUME NEW n \in 0 .. LWM2M_MAX_ID + 1
  PROVE  prv_get_number(n) = n
<1>1. /\ INT_SPACE \in Nat /\ INT_SPACE % 2 = 0 /\ LWM2M_MAX_ID \in Nat
      /\ 20 * (LWM2M_MAX_ID + 1) < INT_SPACE
  BY UriAssumption
<1>2. n \in Nat /\ n <= (INT_SPACE \div 2 - 1) \div 10
  BY <1>1
<1>3. QED BY <1>2, NumberRead

\* What the segments are read as.
LEMMA SegmentRead ==
  /\ \A n \in 0 .. LWM2M_MAX_ID + 1 :
       /\ Object(n) = IF n \in 0 .. LWM2M_MAX_ID THEN n ELSE Unset
       /\ Instance(n) = IF n \in 0 .. LWM2M_MAX_ID - 1 THEN n ELSE Unset
  /\ Object(Other) = Unset /\ Instance(Other) = Unset
  /\ LWM2M_MAX_ID \in Nat
<1>1. prv_get_number(Other) = -1
  BY DEF prv_get_number, Other, Empty, Rd, Bs
<1>2. QED BY <1>1, SmallRead, UriAssumption DEF Object, Instance

\* What is read of a number between 0 and the highest ID: nothing is taken off a
\* tenfold below half the int, and a negative one is zero only above minus ten.
LEMMA TenfoldRead ==
  ASSUME NEW n \in Nat, NEW low \in Nat, low = (10 * n) % INT_SPACE, low < INT_SPACE
  PROVE  (Object(n) # Unset) <=> low <= 10 * LWM2M_MAX_ID + 9 \/ INT_SPACE - low < 10
<1>1. /\ INT_SPACE \in Nat /\ INT_SPACE % 2 = 0 /\ LWM2M_MAX_ID \in Nat
      /\ 20 * (LWM2M_MAX_ID + 1) < INT_SPACE
  BY UriAssumption
<1> DEFINE half == INT_SPACE \div 2
           result == Wrapped(10 * n)
<1>2. half \in Nat /\ INT_SPACE = 2 * half
  BY <1>1
<1>3. result = IF low < half THEN low ELSE low - INT_SPACE
  BY DEF Wrapped
<1>4. prv_get_number(n) = IF result >= 0 THEN result \div 10 ELSE -((-result) \div 10)
  BY DEF prv_get_number, Digits, Empty, Rd, Bs, Other
<1>5. Object(n) # Unset <=> prv_get_number(n) \in 0 .. LWM2M_MAX_ID
  BY DEF Object, Unset
<1> HIDE DEF half, result
<1>6. CASE low < half
  <2>1. prv_get_number(n) = low \div 10
    BY <1>3, <1>4, <1>6
  <2>2. low \div 10 \in 0 .. LWM2M_MAX_ID <=> low <= 10 * LWM2M_MAX_ID + 9
    BY <1>1
  <2>3. ~(INT_SPACE - low < 10)
    BY <1>1, <1>2, <1>6
  <2>4. QED BY <1>5, <2>1, <2>2, <2>3
<1>7. CASE ~(low < half)
  <2> DEFINE below == INT_SPACE - low
  <2>1. below \in Nat /\ below > 0
    BY <1>1
  <2>2. prv_get_number(n) = -(below \div 10)
    BY <1>1, <1>3, <1>4, <1>7
  <2>3. ~(low <= 10 * LWM2M_MAX_ID + 9)
    BY <1>1, <1>2, <1>7
  <2> HIDE DEF below
  <2>4. -(below \div 10) \in 0 .. LWM2M_MAX_ID <=> below < 10
    BY <1>1, <2>1
  <2>5. QED BY <1>5, <2>2, <2>3, <2>4 DEF below
<1>8. QED BY <1>6, <1>7

\* What is left of a division is known by any quotient.
LEMMA DivisionUnique ==
  ASSUME NEW N \in Nat, N > 0, NEW a \in Nat, NEW k \in Nat, NEW b \in Nat,
         a = N * k + b, b < N
  PROVE  a % N = b
<1> DEFINE p == a \div N
           c == a % N
<1>1. p \in Nat /\ c \in Nat /\ c < N /\ a = N * p + c
  OBVIOUS
<1> HIDE DEF p, c
<1>2. CASE p > k
  <2>1. PICK e \in Nat : p = k + 1 + e
    <3>1. p - k - 1 \in Nat /\ p = k + 1 + (p - k - 1)
      BY <1>1, <1>2
    <3>2. QED BY <3>1
  <2>2. N * p = N * k + N + N * e /\ N * e >= 0
    BY <2>1
  <2>3. QED BY <1>1, <2>2
<1>3. CASE p < k
  <2>1. PICK e \in Nat : k = p + 1 + e
    <3>1. k - p - 1 \in Nat /\ k = p + 1 + (k - p - 1)
      BY <1>1, <1>3
    <3>2. QED BY <3>1
  <2>2. N * k = N * p + N + N * e /\ N * e >= 0
    BY <1>1, <2>1
  <2>3. QED BY <1>1, <2>2
<1>4. CASE p = k
  BY <1>1, <1>4 DEF c
<1>5. QED BY <1>1, <1>2, <1>3, <1>4

\* Nine more than a number, on the ring of an int.
LEMMA NineMore ==
  ASSUME NEW n \in Nat
  PROVE  \E low \in Nat :
           /\ low = (10 * n) % INT_SPACE /\ low < INT_SPACE
           /\ (10 * n + 9) % INT_SPACE = IF low + 9 < INT_SPACE THEN low + 9 ELSE low + 9 - INT_SPACE
<1>1. INT_SPACE \in Nat /\ INT_SPACE > 20
  BY UriAssumption
<1> DEFINE N == INT_SPACE
           q == (10 * n) \div N
           low == (10 * n) % N
<1>2. N \in Nat /\ N > 20 /\ low \in Nat /\ low < N /\ q \in Nat /\ 10 * n = N * q + low
  BY <1>1
<1>3. ASSUME NEW a \in Nat, NEW k \in Nat, NEW b \in Nat, a = N * k + b, b < N
      PROVE  a % N = b
  BY <1>1, <1>3, DivisionUnique
<1> HIDE DEF q, low, N
<1>4. CASE low + 9 < N
  <2> DEFINE product == N * q
  <2>1. product \in Nat /\ 10 * n = product + low
    BY <1>2
  <2> HIDE DEF product
  <2>2. 10 * n + 9 = product + (low + 9) /\ low + 9 \in Nat /\ 10 * n + 9 \in Nat
    BY <1>2, <2>1
  <2>3. (10 * n + 9) % N = low + 9
    BY <1>2, <1>3, <1>4, <2>2 DEF product
  <2>4. QED BY <1>2, <1>4, <2>3 DEF low, N
<1>5. CASE ~(low + 9 < N)
  <2>1. 10 * n + 9 \in Nat /\ low + 9 - N \in Nat /\ low + 9 - N < N
    BY <1>2, <1>5
  <2>2. N * (q + 1) = N * q + N /\ q + 1 \in Nat
    BY <1>2, <2>1
  <2>3. 10 * n + 9 = N * (q + 1) + (low + 9 - N)
    BY <1>2, <2>1, <2>2
  <2>4. (10 * n + 9) % N = low + 9 - N
    BY <1>3, <2>1, <2>2, <2>3
  <2>5. QED BY <1>2, <1>5, <2>4 DEF low, N
<1>6. QED BY <1>4, <1>5

\* What any number is read as, however many digits it has and however wide an int is:
\* an ID is itself, and the numbers taken for an ID they are not are those whose
\* tenfold wraps onto one.
THEOREM NumbersTold == \A n \in Nat : ReadAsId(n)
<1> SUFFICES ASSUME NEW n \in Nat PROVE ReadAsId(n)
  OBVIOUS
<1>1. /\ INT_SPACE \in Nat /\ LWM2M_MAX_ID \in Nat /\ 20 * (LWM2M_MAX_ID + 1) < INT_SPACE
      /\ Ids = 0 .. LWM2M_MAX_ID
  BY UriAssumption DEF Ids
<1>2. CASE n \in Ids
  <2>1. prv_get_number(n) = n
    BY <1>1, <1>2, SmallRead
  <2>2. QED BY <1>1, <1>2, <2>1 DEF ReadAsId, Object
<1>3. CASE n \notin Ids
  <2>1. PICK low \in Nat :
          /\ low = (10 * n) % INT_SPACE /\ low < INT_SPACE
          /\ (10 * n + 9) % INT_SPACE = IF low + 9 < INT_SPACE THEN low + 9 ELSE low + 9 - INT_SPACE
    BY NineMore
  <2>2. (Object(n) # Unset) <=> low <= 10 * LWM2M_MAX_ID + 9 \/ INT_SPACE - low < 10
    BY <2>1, TenfoldRead
  <2> DEFINE nine == (10 * n + 9) % INT_SPACE
  <2>3. nine = IF low + 9 < INT_SPACE THEN low + 9 ELSE low + 9 - INT_SPACE
    BY <2>1
  <2> HIDE DEF nine
  <2>4. (low <= 10 * LWM2M_MAX_ID + 9 \/ INT_SPACE - low < 10) <=> ~(nine > 10 * LWM2M_MAX_ID + 18)
    BY <1>1, <2>1, <2>3
  <2>5. QED BY <1>3, <2>2, <2>4 DEF ReadAsId, nine
<1>4. QED BY <1>2, <1>3

\* In particular the numbers the model checker looks at.
LEMMA AllNumbersRead == NumbersRead
BY NumbersTold, UriAssumption DEF NumbersRead

\* A path of a valid URI, with its IDs one after the other.
Spells(path, u) ==
  /\ path \in Seq(Int) /\ Len(path) \in 1 .. 3 /\ path[1] = u.objectId
  /\ IF Len(path) = 1 THEN u.instanceId = Unset ELSE u.instanceId = path[2] /\ u.instanceId # Unset
  /\ IF Len(path) < 3 THEN u.resourceId = Unset ELSE u.resourceId = path[3] /\ u.resourceId # Unset

\* The parts of a valid URI.
LEMMA ValidParts ==
  ASSUME NEW u \in ValidUris
  PROVE  /\ u = DM(u.objectId, u.instanceId, u.resourceId)
         /\ u.objectId \in Ids
         /\ u.instanceId \in (Ids \ {LWM2M_MAX_ID}) \cup {Unset}
         /\ u.resourceId \in Ids \cup {Unset}
         /\ u.instanceId = Unset => u.resourceId = Unset
         /\ Ids \subseteq Int /\ Unset \notin Ids /\ Empty \notin Ids /\ Unset \in Int
  BY UriAssumption DEF ValidUris, DM, Ids, Unset, Empty

\* What is left of a path behind its first segment.
LEMMA TailRead ==
  ASSUME NEW path \in Seq(Int), Len(path) > 1
  PROVE  /\ path # <<>> /\ Tail(path) \in Seq(Int) /\ Len(Tail(path)) = Len(path) - 1
         /\ \A k \in 1 .. Len(path) - 1 : Tail(path)[k] = path[k + 1]
  OBVIOUS

\* A path that spells a URI behind its first segment.
Follows(path, u) ==
  /\ path \in Seq(Int) /\ Len(path) \in 2 .. 4 /\ path[2] = u.objectId
  /\ Len(path) = 2 => u.instanceId = Unset
  /\ Len(path) > 2 => u.instanceId = path[3] /\ u.instanceId # Unset
  /\ Len(path) < 4 => u.resourceId = Unset
  /\ Len(path) = 4 => u.resourceId = path[4] /\ u.resourceId # Unset

\* Without its first segment it is a path of the URI.
LEMMA TailSpells ==
  ASSUME NEW u, NEW path, Follows(path, u)
  PROVE  path # <<>> /\ Spells(Tail(path), u)
<1> DEFINE rest == Tail(path)
<1>1. /\ path \in Seq(Int) /\ Len(path) \in 2 .. 4 /\ path[2] = u.objectId
      /\ Len(path) = 2 => u.instanceId = Unset
      /\ Len(path) > 2 => u.instanceId = path[3] /\ u.instanceId # Unset
      /\ Len(path) < 4 => u.resourceId = Unset
      /\ Len(path) = 4 => u.resourceId = path[4] /\ u.resourceId # Unset
  BY DEF Follows
<1>2. path # <<>> /\ rest \in Seq(Int) /\ Len(rest) = Len(path) - 1
  BY <1>1, TailRead
<1>3. \A k \in 1 .. Len(path) - 1 : rest[k] = path[k + 1]
  BY <1>1, TailRead
<1> HIDE DEF rest
<1>4. rest[1] = path[2]
  BY <1>1, <1>3
<1>5. Len(path) >= 3 => rest[2] = path[3]
  BY <1>1, <1>3
<1>6. Len(path) = 4 => rest[3] = path[4]
  BY <1>1, <1>3
<1>7. Spells(rest, u)
  <2>1. rest[1] = u.objectId
    BY <1>1, <1>4
  <2>2. Len(rest) \in 1 .. 3
    <3>1. Len(path) \in 2 .. 4 /\ Len(rest) = Len(path) - 1
      BY <1>1, <1>2, Zenon
    <3>2. QED BY <3>1
  <2>3. CASE Len(path) = 2
    BY <1>1, <1>2, <2>1, <2>2, <2>3 DEF Spells
  <2>4. CASE Len(path) = 3
    BY <1>1, <1>2, <1>5, <2>1, <2>2, <2>4 DEF Spells
  <2>5. CASE Len(path) = 4
    BY <1>1, <1>2, <1>5, <1>6, <2>1, <2>2, <2>5 DEF Spells
  <2>6. QED BY <1>1, <2>3, <2>4, <2>5
<1>8. QED BY <1>2, <1>7 DEF rest

\* What transaction_new writes of a valid URI.
LEMMA Written ==
  ASSUME NEW u \in ValidUris
  PROVE  /\ Spells(uri_segments(Unset, u), u)
         /\ /\ uri_segments(Other, u) \in Seq(Int) /\ uri_segments(Other, u) # <<>>
            /\ uri_segments(Other, u)[1] = Other
            /\ Spells(Tail(uri_segments(Other, u)), u)
<1> DEFINE o == u.objectId
           i == u.instanceId
           r == u.resourceId
<1>1. /\ o \in Ids /\ i \in (Ids \ {LWM2M_MAX_ID}) \cup {Unset} /\ r \in Ids \cup {Unset}
      /\ i = Unset => r = Unset
      /\ Ids \subseteq Int /\ Unset \notin Ids /\ Empty \notin Ids /\ Unset \in Int
  BY ValidParts
<1>2. Other # Unset /\ Other \in Int
  BY DEF Other, Unset
<1> HIDE DEF o, i, r
<1>3. CASE i = Unset
  <2> DEFINE p == <<>> \o <<o>> \o <<>> \o <<>>
             q == <<Other>> \o <<o>> \o <<>> \o <<>>
  <2>1. uri_segments(Unset, u) = p
    BY <1>1, <1>3 DEF uri_segments, o, i, r
  <2>2. uri_segments(Other, u) = q
    BY <1>1, <1>2, <1>3 DEF uri_segments, o, i, r
  <2>3. p \in Seq(Int)
    BY <1>1, <1>2
  <2>4. Len(p) = 1
    BY <1>1, <1>2
  <2>5. p[1] = o
    BY <1>1, <1>2
  <2>6. q \in Seq(Int)
    BY <1>1, <1>2
  <2>7. Len(q) = 2
    BY <1>1, <1>2
  <2>8. q[1] = Other
    BY <1>1, <1>2
  <2>9. q[2] = o
    BY <1>1, <1>2
  <2> HIDE DEF p, q
  <2>10. Spells(p, u)
    BY <1>1, <1>3, <2>3, <2>4, <2>5 DEF Spells, o, i, r
  <2>11. q # <<>> /\ Spells(Tail(q), u)
    <3>1. Follows(q, u)
      BY <1>1, <1>3, <2>6, <2>7, <2>9 DEF o, i, r, Follows
    <3>2. QED BY <3>1, TailSpells
  <2>12. QED BY <2>1, <2>2, <2>6, <2>8, <2>10, <2>11
<1>4. CASE i # Unset /\ r = Unset
  <2> DEFINE p == <<>> \o <<o>> \o <<i>> \o <<>>
             q == <<Other>> \o <<o>> \o <<i>> \o <<>>
  <2>1. uri_segments(Unset, u) = p
    BY <1>1, <1>4 DEF uri_segments, o, i, r
  <2>2. uri_segments(Other, u) = q
    BY <1>1, <1>2, <1>4 DEF uri_segments, o, i, r
  <2>3. p \in Seq(Int)
    BY <1>1, <1>2
  <2>4. Len(p) = 2
    BY <1>1, <1>2
  <2>5. p[1] = o
    BY <1>1, <1>2
  <2>6. p[2] = i
    BY <1>1, <1>2
  <2>7. q \in Seq(Int)
    BY <1>1, <1>2
  <2>8. Len(q) = 3
    BY <1>1, <1>2
  <2>9. q[1] = Other
    BY <1>1, <1>2
  <2>10. q[2] = o
    BY <1>1, <1>2
  <2>11. q[3] = i
    BY <1>1, <1>2
  <2> HIDE DEF p, q
  <2>12. Spells(p, u)
    BY <1>1, <1>4, <2>3, <2>4, <2>5, <2>6 DEF Spells, o, i, r
  <2>13. q # <<>> /\ Spells(Tail(q), u)
    <3>1. Follows(q, u)
      BY <1>1, <1>4, <2>7, <2>8, <2>10, <2>11 DEF o, i, r, Follows
    <3>2. QED BY <3>1, TailSpells
  <2>14. QED BY <2>1, <2>2, <2>7, <2>9, <2>12, <2>13
<1>5. CASE i # Unset /\ r # Unset
  <2> DEFINE p == <<>> \o <<o>> \o <<i>> \o <<r>>
             q == <<Other>> \o <<o>> \o <<i>> \o <<r>>
  <2>1. uri_segments(Unset, u) = p
    BY <1>1, <1>5 DEF uri_segments, o, i, r
  <2>2. uri_segments(Other, u) = q
    BY <1>1, <1>2, <1>5 DEF uri_segments, o, i, r
  <2>3. p \in Seq(Int)
    BY <1>1, <1>2
  <2>4. Len(p) = 3
    BY <1>1, <1>2
  <2>5. p[1] = o
    BY <1>1, <1>2
  <2>6. p[2] = i
    BY <1>1, <1>2
  <2>7. p[3] = r
    BY <1>1, <1>2
  <2>8. q \in Seq(Int)
    BY <1>1, <1>2
  <2>9. Len(q) = 4
    BY <1>1, <1>2
  <2>10. q[1] = Other
    BY <1>1, <1>2
  <2>11. q[2] = o
    BY <1>1, <1>2
  <2>12. q[3] = i
    BY <1>1, <1>2
  <2>13. q[4] = r
    BY <1>1, <1>2
  <2> HIDE DEF p, q
  <2>14. Spells(p, u)
    BY <1>1, <1>5, <2>3, <2>4, <2>5, <2>6, <2>7 DEF Spells, o, i, r
  <2>15. q # <<>> /\ Spells(Tail(q), u)
    <3>1. Follows(q, u)
      BY <1>1, <1>5, <2>8, <2>9, <2>11, <2>12, <2>13 DEF o, i, r, Follows
    <3>2. QED BY <3>1, TailSpells
  <2>16. QED BY <2>1, <2>2, <2>8, <2>10, <2>14, <2>15
<1>6. QED BY <1>3, <1>4, <1>5

\* What spells a valid URI is read as it.
LEMMA IdsDecoded ==
  ASSUME NEW u \in ValidUris, NEW path, Spells(path, u)
  PROVE  decode_ids(path) = u /\ path[1] \in Ids
<1>1. LWM2M_MAX_ID \in Nat
  BY UriAssumption
<1>2. /\ u.objectId \in Ids => Object(u.objectId) = u.objectId
      /\ u.instanceId \in Ids \ {LWM2M_MAX_ID} => Instance(u.instanceId) = u.instanceId
      /\ u.resourceId \in Ids => Object(u.resourceId) = u.resourceId
  BY <1>1, SegmentRead DEF Ids
<1>3. /\ u = DM(u.objectId, u.instanceId, u.resourceId)
      /\ u.objectId \in Ids /\ u.instanceId \in (Ids \ {LWM2M_MAX_ID}) \cup {Unset}
      /\ u.resourceId \in Ids \cup {Unset} /\ Unset \notin Ids /\ Empty \notin Ids
      /\ u.instanceId = Unset => u.resourceId = Unset
  BY ValidParts
<1>4. CASE Len(path) = 1
  BY <1>2, <1>3, <1>4 DEF decode_ids, Spells
<1>5. CASE Len(path) = 2
  BY <1>2, <1>3, <1>5 DEF decode_ids, Spells
<1>6. CASE Len(path) = 3
  <2>1. /\ path[1] = u.objectId /\ path[2] = u.instanceId /\ path[3] = u.resourceId
        /\ u.instanceId # Unset /\ path \in Seq(Int)
    BY <1>6 DEF Spells
  <2>2. /\ Object(path[1]) = path[1] /\ Instance(path[2]) = path[2] /\ Object(path[3]) = path[3]
        /\ path[1] # Unset /\ path[2] # Unset /\ path[3] # Unset
        /\ path[2] # Empty /\ path[3] # Empty
    BY <1>2, <1>3, <1>6, <2>1 DEF Spells
  <2>3. decode_ids(path) = DM(path[1], path[2], path[3])
    BY <1>6, <2>2 DEF decode_ids
  <2>4. QED BY <1>3, <2>1, <2>3
<1>7. QED BY <1>4, <1>5, <1>6 DEF Spells

\* Segments that are neither "rd" nor "bs" nor empty are read as IDs, behind the
\* alternative path if there is one.
LEMMA Decoded ==
  ASSUME NEW path, path # <<>>, path[1] \in Ids
  PROVE  lwm2m_decode_uri(Unset, path) = decode_ids(path)
<1>1. path[1] \notin {Rd, Bs, Empty}
  BY UriAssumption DEF Ids, Rd, Bs, Empty
<1>2. QED BY <1>1 DEF lwm2m_decode_uri

\* The same behind the alternative path.
LEMMA DecodedBehind ==
  ASSUME NEW path, path # <<>>, path[1] = Other, Tail(path) # <<>>, Tail(path)[1] \in Ids
  PROVE  lwm2m_decode_uri(Other, path) = decode_ids(Tail(path))
<1>1. Tail(path)[1] # Empty /\ Other \notin {Rd, Bs, Unset}
  BY UriAssumption DEF Ids, Rd, Bs, Empty, Other, Unset
<1>2. QED BY <1>1 DEF lwm2m_decode_uri

\* What transaction_new writes, lwm2m_decode_uri reads back.
LEMMA ReadsBack == DecodesWhatItEncodes
<1> SUFFICES ASSUME NEW u \in ValidUris
             PROVE  /\ lwm2m_decode_uri(Unset, uri_segments(Unset, u)) = u
                    /\ lwm2m_decode_uri(Other, uri_segments(Other, u)) = u
  BY DEF DecodesWhatItEncodes
<1>1. \A path : Spells(path, u) => path # <<>>
  BY DEF Spells
<1>2. lwm2m_decode_uri(Unset, uri_segments(Unset, u)) = u
  BY <1>1, Written, Decoded, IdsDecoded
<1>3. lwm2m_decode_uri(Other, uri_segments(Other, u)) = u
  BY <1>1, Written, DecodedBehind, IdsDecoded
<1>4. QED BY <1>2, <1>3

\* A text fired and its segments: the one reading refuses what the other one reads
\* as the highest resource, an instance unset or all objects.
LEMMA FiredObserved == FiredIsObserved
<1> DEFINE Read == 0 .. LWM2M_MAX_ID + 1 \cup {Empty, Other}
<1> SUFFICES ASSUME NEW n \in 1 .. 3, NEW path \in [1 .. n -> Read],
                    lwm2m_stringToUri(path) # Null
             PROVE  lwm2m_stringToUri(path) = lwm2m_decode_uri(Unset, path)
  BY DEF FiredIsObserved
<1> DEFINE cut == n \in {2, 3} /\ path[n] = Empty
           ids == IF cut THEN SubSeq(path, 1, n - 1) ELSE path
           m == IF cut THEN n - 1 ELSE n
           o == Object(ids[1])
           i == IF m < 2 THEN Unset ELSE Instance(ids[2])
           r == IF m < 3 THEN Unset ELSE Instance(ids[3])
<1>1. path \in Seq(Read) /\ Len(path) = n
  OBVIOUS
<1>2. m \in 1 .. 3 /\ m <= n /\ DOMAIN ids = 1 .. m /\ Len(ids) = m /\ \A k \in 1 .. m : ids[k] = path[k]
  BY <1>1
<1>3. /\ \A k \in 1 .. m : ids[k] # Empty
      /\ o # Unset /\ (m >= 2 => i # Unset) /\ (m = 3 => r # Unset)
      /\ lwm2m_stringToUri(path) = DM(o, i, r)
  BY <1>1, <1>2 DEF lwm2m_stringToUri
<1>4. \A k \in 1 .. m : path[k] \in 0 .. LWM2M_MAX_ID + 1 \cup {Other}
  BY <1>2, <1>3
<1>5. path[1] \in Ids
  BY <1>2, <1>3, <1>4, SegmentRead DEF Ids
<1>6. m = 3 => Object(path[3]) = r
  BY <1>2, <1>3, <1>4, SegmentRead
<1>7. lwm2m_decode_uri(Unset, path) = decode_ids(path)
  BY <1>1, <1>5, Decoded
<1>8. decode_ids(path) = DM(o, i, r)
  <2>1. CASE m = n
    BY <1>1, <1>2, <1>3, <1>6, <2>1 DEF decode_ids
  <2>2. CASE m # n
    BY <1>1, <1>2, <1>3, <2>2 DEF decode_ids
  <2>3. QED BY <2>1, <2>2
<1>9. QED BY <1>3, <1>7, <1>8

\* The two ends mean the same by a path, a number is another one's ID only where its
\* tenfold wraps onto it, and a change fired reaches its observers, for every highest
\* ID an int can tell apart from what is beyond it.
THEOREM NamesMeanTheSame == Spec => []UrisMeanTheSame
<1>1. UrisMeanTheSame
  BY ReadsBack, AllNumbersRead, FiredObserved DEF UrisMeanTheSame
<1>2. QED BY <1>1, PTL

-----------------------------------------------------------------------------
(* Loops.                                                                  *)

\* Induction up to N, on a set instead of a predicate: a least exception there would
\* be, the inclusion of finite sets being well-founded, is none.
LEMMA Upwards ==
  ASSUME NEW N \in Nat, NEW S, 0 \in S, \A n \in S : n \in Nat /\ n < N => n + 1 \in S
  PROVE  \A n \in 0 .. N : n \in S
<1> DEFINE T == {n \in 0 .. N : n \notin S}
           U == {1 .. n : n \in T}
<1> SUFFICES ASSUME T # {} PROVE FALSE
  OBVIOUS
<1>1. U \subseteq FiniteSubsetsOf(Nat) /\ U # {}
  <2> SUFFICES ASSUME NEW n \in T PROVE 1 .. n \in FiniteSubsetsOf(Nat)
    OBVIOUS
  <2>1. IsFiniteSet(1 .. n)
    BY FS_Interval
  <2>2. QED BY <2>1 DEF FiniteSubsetsOf
<1>2. PICK X \in U : \A Y \in U : <<Y, X>> \notin StrictSubsetOrdering(Nat)
  <2>1. IsWellFoundedOn(StrictSubsetOrdering(Nat), FiniteSubsetsOf(Nat))
    BY FS_StrictSubsetOrderingWellFounded
  <2> HIDE DEF U
  <2>2. QED BY <1>1, <2>1, WFMin
<1>3. PICK x \in T : X = 1 .. x
  BY <1>2
<1>4. x - 1 \in 0 .. N /\ x - 1 \notin S
  <2>1. x # 0 /\ x \in 0 .. N /\ x \notin S
    OBVIOUS
  <2>2. x - 1 \in Nat /\ x - 1 < N /\ (x - 1) + 1 = x
    BY <2>1
  <2>3. x - 1 \in S => (x - 1) + 1 \in S
    BY <2>2
  <2>4. QED BY <2>1, <2>2, <2>3
<1>5. <<1 .. x - 1, 1 .. x>> \in StrictSubsetOrdering(Nat)
  <2>1. x \in 1 .. x /\ x \notin 1 .. x - 1 /\ 1 .. x - 1 \subseteq 1 .. x
    BY <1>4
  <2>2. 1 .. x - 1 \in SUBSET Nat /\ 1 .. x \in SUBSET Nat
    OBVIOUS
  <2>3. QED BY <2>1, <2>2 DEF StrictSubsetOrdering
<1>6. QED BY <1>2, <1>3, <1>4, <1>5

Rounds(N, S) == [1 .. N -> [S -> S]]

\* A loop of N rounds, round n of which takes a state to step[n] of it, has a course.
LEMMA Course ==
  ASSUME NEW N \in Nat, NEW S, NEW start \in S, NEW step \in Rounds(N, S)
  PROVE  \E f \in [0 .. N -> S] :
           f[0] = start /\ \A n \in 1 .. N : f[n] = step[n][f[n - 1]]
<1> USE DEF Rounds
<1> DEFINE Goes(m, f) == f[0] = start /\ \A n \in 1 .. m : f[n] = step[n][f[n - 1]]
           Far == {m \in 0 .. N : \E f \in [0 .. m -> S] : Goes(m, f)}
<1>1. 0 \in Far
  <2> DEFINE g == [n \in 0 .. 0 |-> start]
  <2>1. g \in [0 .. 0 -> S] /\ Goes(0, g)
    OBVIOUS
  <2> HIDE DEF g, Goes
  <2>2. QED BY <2>1
<1>2. ASSUME NEW m \in Far, m < N
      PROVE  m + 1 \in Far
  <2>1. PICK f \in [0 .. m -> S] : Goes(m, f)
    OBVIOUS
  <2> DEFINE g == [n \in 0 .. m + 1 |-> IF n <= m THEN f[n] ELSE step[m + 1][f[m]]]
  <2>2. m \in 0 .. N /\ m + 1 \in 1 .. N /\ m \in 0 .. m
    BY <1>2
  <2>3. step[m + 1][f[m]] \in S
    BY <2>1, <2>2
  <2>4. g \in [0 .. m + 1 -> S] /\ g[0] = start
    BY <2>1, <2>2, <2>3
  <2>5. ASSUME NEW n \in 1 .. m + 1
        PROVE  g[n] = step[n][g[n - 1]]
    <3>1. CASE n <= m
      BY <2>1, <2>2, <3>1
    <3>2. CASE n = m + 1
      BY <2>1, <2>2, <3>2
    <3>3. QED BY <2>2, <3>1, <3>2
  <2>6. Goes(m + 1, g)
    BY <2>4, <2>5
  <2> HIDE DEF g, Goes
  <2>7. QED BY <2>2, <2>4, <2>6
<1>3. \A n \in 0 .. N : n \in Far
  <2> HIDE DEF Far
  <2>1. QED BY <1>1, <1>2, Upwards
<1>4. QED BY <1>3

-----------------------------------------------------------------------------
(* An option as bytes.  The runs look at the values where a header         *)
(* changes; here are all that can be written.                              *)

\* What the number and the length of an option may be: two bytes more than 268.
IsField(n) == n \in Nat /\ n < 65805

\* The nibble of a field and the bytes it spills into.
LEMMA FieldParts ==
  ASSUME NEW n, IsField(n)
  PROVE  /\ coap_option_nibble(n) \in 0 .. 14
         /\ Extension(n) \in Seq(Byte) /\ Len(Extension(n)) \in 0 .. 2
<1>1. CASE n < 13
  <2>1. coap_option_nibble(n) = n /\ Extension(n) = <<>>
    BY <1>1, SMT DEF IsField, coap_option_nibble, Extension
  <2>2. QED BY <1>1, <2>1, SMT DEF IsField
<1>2. CASE n \in 13 .. 268
  <2>1. coap_option_nibble(n) = 13 /\ Extension(n) = <<n - 13>>
    BY <1>2, SMT DEF coap_option_nibble, Extension
  <2>2. n - 13 \in Byte
    BY <1>2, SMT DEF Byte
  <2>3. QED BY <2>1, <2>2
<1>3. CASE n > 268
  BY <1>3, SMT DEF IsField, coap_option_nibble, Extension, Byte
<1>4. QED BY <1>1, <1>2, <1>3, SMT DEF IsField

\* The bytes from a position on are those of a sequence.
Holds(bytes, at, s) == at \in Nat /\ \A i \in 1 .. Len(s) : bytes[at + i - 1] = s[i]

\* A field is read as it was written, and reading goes on behind it.
LEMMA FieldReads ==
  ASSUME NEW n, IsField(n), NEW bytes, NEW at, Holds(bytes, at, Extension(n))
  PROVE  Extended(bytes, coap_option_nibble(n), at) =
           [value |-> n, next |-> at + Len(Extension(n))]
<1>1. CASE n < 13
  BY <1>1, SMT DEF IsField, coap_option_nibble, Extension, Extended, Holds
<1>2. CASE n \in 13 .. 268
  <2> DEFINE e == <<n - 13>>
  <2>1. Extension(n) = e /\ coap_option_nibble(n) = 13
    BY <1>2, SMT DEF IsField, coap_option_nibble, Extension
  <2>2. Len(e) = 1 /\ e[1] = n - 13
    BY SMT
  <2>3. bytes[at + 1 - 1] = e[1] /\ at + 1 - 1 = at
    BY <2>1, <2>2, SMT DEF Holds
  <2>4. 13 + bytes[at] = n
    BY <2>2, <2>3, SMT DEF IsField
  <2>5. QED BY <2>1, <2>2, <2>4, SMT DEF Extended
<1>3. CASE n > 268
  <2> DEFINE e == <<((n - 269) \div 256) % 256, (n - 269) % 256>>
  <2>1. Extension(n) = e /\ coap_option_nibble(n) = 14
    BY <1>3, SMT DEF IsField, coap_option_nibble, Extension
  <2>2. Len(e) = 2 /\ e[1] = ((n - 269) \div 256) % 256 /\ e[2] = (n - 269) % 256
    BY SMT
  <2>3. bytes[at + 1 - 1] = e[1] /\ bytes[at + 2 - 1] = e[2] /\ at + 1 - 1 = at /\ at + 2 - 1 = at + 1
    BY <2>1, <2>2, SMT DEF Holds
  <2>4. 269 + 256 * bytes[at] + bytes[at + 1] = n
    BY <1>3, <2>2, <2>3, SMT DEF IsField
  <2>5. QED BY <2>1, <2>2, <2>4, SMT DEF Extended
<1>4. QED BY <1>1, <1>2, <1>3, SMT DEF IsField

\* Two nibbles in a byte.
TwoNibbles(f, a, b) == a \in 0 .. 14 /\ b \in 0 .. 14 /\ f = 16 * a + b

\* Each is read as it was written, and the byte is not the mark of a payload.
LEMMA NibblesRead ==
  ASSUME NEW f, NEW a, NEW b, TwoNibbles(f, a, b)
  PROVE  f \in Byte /\ f < 240 /\ f \div 16 = a /\ f % 16 = b
  BY SMT DEF TwoNibbles, Byte

\* One sequence behind another.
LEMMA Joined ==
  ASSUME NEW S, NEW s \in Seq(S), NEW t \in Seq(S)
  PROVE  /\ s \o t \in Seq(S) /\ Len(s \o t) = Len(s) + Len(t)
         /\ \A i \in 1 .. Len(s) : (s \o t)[i] = s[i]
         /\ \A i \in 1 .. Len(t) : (s \o t)[Len(s) + i] = t[i]
  OBVIOUS

\* A sequence between two others is found where the first one ends.
LEMMA Between ==
  ASSUME NEW S, NEW a \in Seq(S), NEW b \in Seq(S), NEW c \in Seq(S)
  PROVE  /\ a \o b \o c \in Seq(S) /\ Len(a \o b \o c) = Len(a) + Len(b) + Len(c)
         /\ \A i \in 1 .. Len(a) : (a \o b \o c)[i] = a[i]
         /\ \A i \in 1 .. Len(b) : (a \o b \o c)[Len(a) + i] = b[i]
         /\ \A i \in 1 .. Len(c) : (a \o b \o c)[Len(a) + Len(b) + i] = c[i]
<1> DEFINE d == a \o b
<1>1. /\ d \in Seq(S) /\ Len(d) = Len(a) + Len(b)
      /\ \A i \in 1 .. Len(a) : d[i] = a[i]
      /\ \A i \in 1 .. Len(b) : d[Len(a) + i] = b[i]
      /\ Len(a) \in Nat /\ Len(b) \in Nat /\ Len(c) \in Nat
  OBVIOUS
<1> HIDE DEF d
<1> DEFINE e == d \o c
<1>2. /\ e \in Seq(S) /\ Len(e) = Len(d) + Len(c)
      /\ \A i \in 1 .. Len(d) : e[i] = d[i]
      /\ \A i \in 1 .. Len(c) : e[Len(d) + i] = c[i]
  <2>1. d \in Seq(S)
    BY <1>1
  <2>2. QED BY <2>1, Joined
<1> HIDE DEF e
<1>3. /\ e \in Seq(S) /\ Len(e) = Len(a) + Len(b) + Len(c)
      /\ \A i \in 1 .. Len(a) : e[i] = a[i]
      /\ \A i \in 1 .. Len(b) : e[Len(a) + i] = b[i]
      /\ \A i \in 1 .. Len(c) : e[Len(a) + Len(b) + i] = c[i]
  BY <1>1, <1>2
<1>4. QED BY <1>3 DEF d, e

\* A header is read wherever it stands.
LEMMA HeaderRead ==
  ASSUME NEW delta, NEW length, IsField(delta), IsField(length),
         NEW header, header = coap_set_option_header(delta, length),
         NEW bytes, NEW at, Holds(bytes, at, header)
  PROVE  /\ header \in Seq(Byte) /\ Len(header) >= 1 /\ bytes[at] < 240
         /\ OptionHeader(bytes, at) =
              [delta |-> delta, length |-> length, next |-> at + Len(header)]
<1> DEFINE first == 16 * coap_option_nibble(delta) + coap_option_nibble(length)
           one == <<first>>
           d == Extension(delta)
           l == Extension(length)
<1>1. /\ coap_option_nibble(delta) \in 0 .. 14 /\ coap_option_nibble(length) \in 0 .. 14
      /\ d \in Seq(Byte) /\ Len(d) \in 0 .. 2 /\ l \in Seq(Byte) /\ Len(l) \in 0 .. 2
  BY FieldParts
<1>2. /\ first \in Byte /\ first < 240
      /\ first \div 16 = coap_option_nibble(delta) /\ first % 16 = coap_option_nibble(length)
  <2>1. TwoNibbles(first, coap_option_nibble(delta), coap_option_nibble(length))
    BY <1>1 DEF TwoNibbles
  <2> HIDE DEF first
  <2>2. QED BY <2>1, NibblesRead
<1>3. header = one \o d \o l
  BY DEF coap_set_option_header
<1> HIDE DEF first, d, l
<1>4. one \in Seq(Byte) /\ Len(one) = 1 /\ one[1] = first
  BY <1>2
<1> HIDE DEF one
<1>5. /\ header \in Seq(Byte) /\ Len(header) = 1 + Len(d) + Len(l) /\ header[1] = first
      /\ \A i \in 1 .. Len(d) : header[1 + i] = d[i]
      /\ \A i \in 1 .. Len(l) : header[1 + Len(d) + i] = l[i]
  <2>1. one \in Seq(Byte) /\ d \in Seq(Byte) /\ l \in Seq(Byte)
    BY <1>1, <1>4
  <2>2. /\ header \in Seq(Byte) /\ Len(header) = Len(one) + Len(d) + Len(l)
        /\ \A i \in 1 .. Len(one) : header[i] = one[i]
        /\ \A i \in 1 .. Len(d) : header[Len(one) + i] = d[i]
        /\ \A i \in 1 .. Len(l) : header[Len(one) + Len(d) + i] = l[i]
    BY <1>3, <2>1, Between
  <2>3. QED BY <1>4, <2>2
<1>6. at \in Nat /\ \A i \in 1 .. Len(header) : bytes[at + i - 1] = header[i]
  BY DEF Holds
<1>7. bytes[at] = first
  BY <1>1, <1>5, <1>6
<1>8. Holds(bytes, at + 1, d)
  <2>1. ASSUME NEW i \in 1 .. Len(d) PROVE bytes[at + 1 + i - 1] = d[i]
    <3>1. 1 + i \in 1 .. Len(header) /\ at + 1 + i - 1 = at + (1 + i) - 1
      BY <1>1, <1>5, <1>6
    <3>2. bytes[at + (1 + i) - 1] = header[1 + i]
      BY <1>6, <3>1
    <3>3. QED BY <1>5, <3>1, <3>2
  <2>2. QED BY <1>6, <2>1 DEF Holds
<1>9. Holds(bytes, at + 1 + Len(d), l)
  <2>1. ASSUME NEW i \in 1 .. Len(l) PROVE bytes[at + 1 + Len(d) + i - 1] = l[i]
    <3>1. /\ 1 + Len(d) + i \in 1 .. Len(header)
          /\ at + 1 + Len(d) + i - 1 = at + (1 + Len(d) + i) - 1
      BY <1>1, <1>5, <1>6
    <3>2. bytes[at + (1 + Len(d) + i) - 1] = header[1 + Len(d) + i]
      BY <1>6, <3>1
    <3>3. QED BY <1>5, <3>1, <3>2
  <2>2. at + 1 + Len(d) \in Nat
    BY <1>1, <1>6
  <2>3. QED BY <2>1, <2>2 DEF Holds
<1> DEFINE dd == Extended(bytes, bytes[at] \div 16, at + 1)
           ll == Extended(bytes, bytes[at] % 16, dd.next)
<1>10. dd = [value |-> delta, next |-> at + 1 + Len(d)]
  BY <1>2, <1>7, <1>8, FieldReads DEF d
<1>11. ll = [value |-> length, next |-> at + 1 + Len(d) + Len(l)]
  <2> HIDE DEF dd
  <2>1. dd.next = at + 1 + Len(d)
    BY <1>10
  <2>2. QED BY <1>2, <1>7, <1>9, <2>1, FieldReads DEF l
<1>12. OptionHeader(bytes, at) = [delta |-> dd.value, length |-> ll.value, next |-> ll.next]
  BY DEF OptionHeader
<1> HIDE DEF dd, ll
<1>13. at + 1 + Len(d) + Len(l) = at + Len(header)
  BY <1>1, <1>5, <1>6
<1>14. OptionHeader(bytes, at) =
         [delta |-> delta, length |-> length, next |-> at + Len(header)]
  BY <1>10, <1>11, <1>12, <1>13
<1>15. Len(header) >= 1
  BY <1>1, <1>5
<1>16. QED BY <1>2, <1>5, <1>7, <1>14, <1>15

\* The header of an option is a few bytes, and at least one.
LEMMA HeaderWritten ==
  ASSUME NEW delta, NEW length, IsField(delta), IsField(length)
  PROVE  /\ coap_set_option_header(delta, length) \in Seq(Byte)
         /\ Len(coap_set_option_header(delta, length)) >= 1
<1> DEFINE header == coap_set_option_header(delta, length)
<1>1. Holds(header, 1, header)
  BY DEF Holds
<1> HIDE DEF header
<1>2. header = coap_set_option_header(delta, length)
  BY DEF header
<1>3. QED BY <1>1, <1>2, HeaderRead

\* The header of an option tells its number and its length, at every value they may
\* take, wherever it stands and whatever follows it; it is never the payload marker.
THEOREM OptionHeadersReadBack ==
  \A delta, length, header :
    IsField(delta) /\ IsField(length) /\ header = coap_set_option_header(delta, length) =>
      \A before \in Seq(Byte), behind \in Seq(Byte) :
        /\ header[1] < 240
        /\ OptionHeader(before \o header \o behind, Len(before) + 1) =
             [delta |-> delta, length |-> length, next |-> Len(before) + Len(header) + 1]
<1> SUFFICES ASSUME NEW delta, NEW length, NEW header, IsField(delta), IsField(length),
                    header = coap_set_option_header(delta, length),
                    NEW before \in Seq(Byte), NEW behind \in Seq(Byte)
             PROVE  /\ header[1] < 240
                    /\ OptionHeader(before \o header \o behind, Len(before) + 1) =
                         [delta |-> delta, length |-> length,
                          next |-> Len(before) + Len(header) + 1]
  BY Zenon
<1> DEFINE bytes == before \o header \o behind
           at == Len(before) + 1
<1>1. header \in Seq(Byte) /\ Len(header) >= 1
  <2>1. Holds(header, 1, header)
    BY DEF Holds
  <2>2. QED BY <2>1, HeaderRead
<1>2. at \in Nat /\ \A i \in 1 .. Len(header) : bytes[Len(before) + i] = header[i]
  BY <1>1, Between
<1>3. Holds(bytes, at, header)
  <2> SUFFICES ASSUME NEW i \in 1 .. Len(header) PROVE bytes[at + i - 1] = header[i]
    BY <1>2 DEF Holds
  <2>1. at + i - 1 = Len(before) + i
    OBVIOUS
  <2>2. QED BY <1>2, <2>1
<1>4. bytes[at] = header[1]
  BY <1>1, <1>2
<1> HIDE DEF bytes, at
<1>5. /\ bytes[at] < 240
      /\ OptionHeader(bytes, at) =
           [delta |-> delta, length |-> length, next |-> at + Len(header)]
  BY <1>3, HeaderRead
<1>6. at + Len(header) = Len(before) + Len(header) + 1
  BY <1>1 DEF at
<1>7. QED BY <1>4, <1>5, <1>6 DEF bytes, at

\* The numbers of a uint32_t.
IsUint32(n) == n \in Nat /\ n < 4294967296

\* The bytes of a number up to the first that is not zero, and the number they say.
Spelled(b, k, n) ==
  /\ k \in 0 .. 4 /\ b \in Seq(Byte) /\ Len(b) = k
  /\ k = 0 => n = 0
  /\ k = 1 => n = b[1]
  /\ k = 2 => n = 256 * b[1] + b[2]
  /\ k = 3 => n = 65536 * b[1] + 256 * b[2] + b[3]
  /\ k = 4 => n = 16777216 * b[1] + 65536 * b[2] + 256 * b[3] + b[4]

\* The four bytes of a number.
LEMMA FourBytes ==
  ASSUME NEW n, IsUint32(n), NEW p, p = n \div 16777216, NEW q, q = (n \div 65536) % 256,
         NEW r, r = (n \div 256) % 256, NEW s, s = n % 256
  PROVE  /\ p \in Byte /\ q \in Byte /\ r \in Byte /\ s \in Byte
         /\ n = 16777216 * p + 65536 * q + 256 * r + s
         /\ n < 16777216 => p = 0 /\ n = 65536 * q + 256 * r + s
         /\ n < 65536 => p = 0 /\ q = 0 /\ n = 256 * r + s
         /\ n < 256 => p = 0 /\ q = 0 /\ r = 0 /\ n = s
<1>1. p \in Int /\ q \in Int /\ r \in Int /\ s \in Int /\ n \in Int
  BY SMT DEF IsUint32
<1>2. p \in Byte
  BY SMT DEF IsUint32, Byte
<1>3. q \in Byte /\ r \in Byte /\ s \in Byte
  BY SMT DEF IsUint32, Byte
<1>4. n = 16777216 * p + 65536 * q + 256 * r + s
  BY SMT DEF IsUint32
<1>5. n < 16777216 => p = 0
  BY SMT DEF IsUint32
<1>6. n < 65536 => q = 0
  BY SMT DEF IsUint32
<1>7. n < 256 => r = 0
  BY SMT DEF IsUint32
<1>8. n < 65536 => n < 16777216
  BY <1>1, SMT
<1>9. n < 256 => n < 65536
  BY <1>1, SMT
<1>10. QED BY <1>1, <1>2, <1>3, <1>4, <1>5, <1>6, <1>7, <1>8, <1>9, SMT

\* The end of a sequence of four.
LEMMA EndOfFour ==
  ASSUME NEW S, NEW t \in Seq(S), Len(t) = 4, NEW m \in 0 .. 4, NEW b, b = SubSeq(t, m + 1, 4)
  PROVE  b \in Seq(S) /\ Len(b) = 4 - m /\ \A i \in 1 .. 4 - m : b[i] = t[m + i]
<1>1. \A i \in 1 .. 4 : t[i] \in S
  BY ElementOfSeq
<1>2. m + 1 \in Int /\ \A i \in m + 1 .. 4 : t[i] \in S
  BY <1>1
<1>3. /\ b \in Seq(S) /\ Len(b) = IF m + 1 <= 4 THEN 4 - (m + 1) + 1 ELSE 0
      /\ \A i \in 1 .. 4 - (m + 1) + 1 : b[i] = t[m + 1 + i - 1]
  BY <1>2, SubSeqProperties
<1>4. Len(b) = 4 - m
  BY <1>3
<1>5. ASSUME NEW i \in 1 .. 4 - m PROVE b[i] = t[m + i]
  <2>1. i \in 1 .. 4 - (m + 1) + 1 /\ m + 1 + i - 1 = m + i
    OBVIOUS
  <2>2. QED BY <1>3, <2>1
<1>6. QED BY <1>3, <1>4, <1>5

\* What is written of a number.
LEMMA IntWritten ==
  ASSUME NEW n, IsUint32(n), NEW b, b = coap_serialize_int(n)
  PROVE  \E k \in 0 .. 4 : Spelled(b, k, n) /\ (k > 0 => b[1] # 0)
<1> DEFINE p == n \div 16777216
           q == (n \div 65536) % 256
           r == (n \div 256) % 256
           s == n % 256
           four == <<p, q, r, s>>
           skip == IF n >= 16777216 THEN 0 ELSE IF n >= 65536 THEN 1 ELSE IF n >= 256 THEN 2
                   ELSE IF n > 0 THEN 3 ELSE 4
<1>1. /\ p \in Byte /\ q \in Byte /\ r \in Byte /\ s \in Byte
      /\ n = 16777216 * p + 65536 * q + 256 * r + s
      /\ n < 16777216 => p = 0 /\ n = 65536 * q + 256 * r + s
      /\ n < 65536 => p = 0 /\ q = 0 /\ n = 256 * r + s
      /\ n < 256 => p = 0 /\ q = 0 /\ r = 0 /\ n = s
  BY FourBytes
<1>2. b = SubSeq(four, skip + 1, 4)
  BY DEF coap_serialize_int
<1>3. n \in Nat
  BY DEF IsUint32
<1>4. n >= 16777216 => p # 0
  BY <1>3, SMT
<1>5. n >= 65536 /\ n < 16777216 => q # 0
  BY <1>3, SMT
<1>6. n >= 256 /\ n < 65536 => r # 0
  BY <1>3, SMT
<1>7. skip \in 0 .. 4
  BY SMT
<1>8. /\ skip = 0 <=> n >= 16777216
      /\ skip = 1 <=> n >= 65536 /\ n < 16777216
      /\ skip = 2 <=> n >= 256 /\ n < 65536
      /\ skip = 3 <=> n > 0 /\ n < 256
      /\ skip = 4 <=> n = 0
  BY <1>3, SMT
<1> HIDE DEF p, q, r, s, skip
<1>9. four \in Seq(Byte) /\ Len(four) = 4 /\ four[1] = p /\ four[2] = q /\ four[3] = r /\ four[4] = s
  BY <1>1
<1> HIDE DEF four
<1>10. /\ b \in Seq(Byte) /\ Len(b) = 4 - skip
       /\ \A i \in 1 .. 4 - skip : b[i] = four[skip + i]
  <2>1. four \in Seq(Byte) /\ Len(four) = 4
    BY <1>9, Zenon
  <2>2. QED BY <1>2, <1>7, <2>1, EndOfFour
<1>11. CASE skip = 0
  <2>1. b[1] = p /\ b[2] = q /\ b[3] = r /\ b[4] = s
    BY <1>9, <1>10, <1>11
  <2>2. Spelled(b, 4, n)
    BY <1>1, <1>10, <1>11, <2>1, SMT DEF Spelled
  <2>3. QED BY <1>4, <1>8, <1>11, <2>1, <2>2
<1>12. CASE skip = 1
  <2>1. b[1] = q /\ b[2] = r /\ b[3] = s
    BY <1>9, <1>10, <1>12
  <2>2. Spelled(b, 3, n)
    BY <1>1, <1>8, <1>10, <1>12, <2>1, SMT DEF Spelled
  <2>3. b[1] # 0
    BY <1>5, <1>8, <1>12, <2>1, SMT
  <2>4. QED BY <2>2, <2>3
<1>13. CASE skip = 2
  <2>1. b[1] = r /\ b[2] = s
    BY <1>9, <1>10, <1>13
  <2>2. Spelled(b, 2, n)
    BY <1>1, <1>8, <1>10, <1>13, <2>1, SMT DEF Spelled
  <2>3. b[1] # 0
    BY <1>6, <1>8, <1>13, <2>1, SMT
  <2>4. QED BY <2>2, <2>3
<1>14. CASE skip = 3
  <2>1. b[1] = s
    BY <1>9, <1>10, <1>14
  <2>2. n = s /\ n > 0
    BY <1>1, <1>8, <1>14, SMT
  <2>3. Spelled(b, 1, n)
    BY <1>10, <1>14, <2>1, <2>2 DEF Spelled
  <2>4. QED BY <2>1, <2>2, <2>3
<1>15. CASE skip = 4
  <2>1. Spelled(b, 0, n)
    BY <1>8, <1>10, <1>15 DEF Spelled
  <2>2. QED BY <2>1
<1>16. QED BY <1>7, <1>11, <1>12, <1>13, <1>14, <1>15

\* What is read from at most four bytes is the number they say: the loop takes one
\* after the other.
LEMMA IntRead ==
  ASSUME NEW b, NEW k, NEW n, Spelled(b, k, n)
  PROVE  coap_parse_int_option(b) = n
<1> DEFINE Step(var) == [i \in 0 .. Len(b) |-> IF i = 0 THEN 0 ELSE 256 * var[i - 1] + b[i]]
           f1 == b[1]
           f2 == 256 * f1 + b[2]
           f3 == 256 * f2 + b[3]
           f4 == 256 * f3 + b[4]
           f == [i \in 0 .. Len(b) |-> IF i = 0 THEN 0 ELSE IF i = 1 THEN f1
                                       ELSE IF i = 2 THEN f2 ELSE IF i = 3 THEN f3 ELSE f4]
           var == CHOOSE v : v = Step(v)
<1>1. \A i \in 1 .. Len(b) : b[i] \in Int
  <2>1. b \in Seq(Byte)
    BY DEF Spelled
  <2>2. \A i \in 1 .. Len(b) : b[i] \in Byte
    BY <2>1
  <2>3. \A x \in Byte : x \in Int
    BY SMT DEF Byte
  <2>4. QED BY <2>2, <2>3
<1>2. /\ k \in 0 .. 4 /\ Len(b) = k /\ \A i \in 1 .. k : b[i] \in Int
      /\ k = 0 => n = 0
      /\ k = 1 => n = b[1]
      /\ k = 2 => n = 256 * b[1] + b[2]
      /\ k = 3 => n = 65536 * b[1] + 256 * b[2] + b[3]
      /\ k = 4 => n = 16777216 * b[1] + 65536 * b[2] + 256 * b[3] + b[4]
  BY <1>1, SMT DEF Spelled
<1>3. coap_parse_int_option(b) = var[Len(b)]
  BY DEF coap_parse_int_option
<1>4. /\ k >= 1 => f1 \in Int
      /\ k >= 2 => f2 \in Int
      /\ k >= 3 => f3 \in Int
      /\ k >= 4 => f4 \in Int
  BY <1>2, SMT
<1>5. f = Step(f)
  <2> HIDE DEF f1, f2, f3, f4
  <2>1. ASSUME NEW i \in 0 .. Len(b) PROVE f[i] = Step(f)[i]
    <3>1. CASE i = 0
      BY <2>1, <3>1, SMT
    <3>2. CASE i = 1
      BY <1>2, <1>4, <2>1, <3>2, SMT DEF f1
    <3>3. CASE i = 2
      BY <1>2, <1>4, <2>1, <3>3, SMT DEF f2
    <3>4. CASE i = 3
      BY <1>2, <1>4, <2>1, <3>4, SMT DEF f3
    <3>5. CASE i = 4
      BY <1>2, <1>4, <2>1, <3>5, SMT DEF f4
    <3>6. QED BY <1>2, <2>1, <3>1, <3>2, <3>3, <3>4, <3>5, SMT
  <2>2. f = [i \in 0 .. Len(b) |-> f[i]] /\ Step(f) = [i \in 0 .. Len(b) |-> Step(f)[i]]
    BY SMT
  <2>3. QED BY <2>1, <2>2, SMT
<1>6. var = Step(var)
  <2> HIDE DEF f, Step
  <2>1. \E v : v = Step(v)
    BY <1>5
  <2>2. QED BY <2>1, Zenon
<1> HIDE DEF var
<1>7. \A i \in 0 .. k : var[i] = IF i = 0 THEN 0 ELSE 256 * var[i - 1] + b[i]
  BY <1>2, <1>6, SMT
<1>8. var[0] = 0
  BY <1>2, <1>7, SMT
<1>9. k >= 1 => var[1] = 256 * var[0] + b[1]
  BY <1>2, <1>7, SMT
<1>10. k >= 2 => var[2] = 256 * var[1] + b[2]
  BY <1>2, <1>7, SMT
<1>11. k >= 3 => var[3] = 256 * var[2] + b[3]
  BY <1>2, <1>7, SMT
<1>12. k >= 4 => var[4] = 256 * var[3] + b[4]
  BY <1>2, <1>7, SMT
<1>13. var[k] = n
  <2>1. CASE k = 0
    BY <1>2, <1>8, <2>1, SMT
  <2>2. CASE k = 1
    BY <1>2, <1>8, <1>9, <2>2, SMT
  <2>3. CASE k = 2
    BY <1>2, <1>8, <1>9, <1>10, <2>3, SMT
  <2>4. CASE k = 3
    BY <1>2, <1>8, <1>9, <1>10, <1>11, <2>4, SMT
  <2>5. CASE k = 4
    <3>1. /\ b[1] \in Int /\ b[2] \in Int /\ b[3] \in Int /\ b[4] \in Int
          /\ n = 16777216 * b[1] + 65536 * b[2] + 256 * b[3] + b[4]
      BY <1>2, <2>5, SMT
    <3>2. /\ var[1] = b[1] /\ var[2] = 256 * var[1] + b[2]
          /\ var[3] = 256 * var[2] + b[3] /\ var[4] = 256 * var[3] + b[4]
      BY <1>8, <1>9, <1>10, <1>11, <1>12, <2>5, <3>1, SMT
    <3>3. QED BY <2>5, <3>1, <3>2, SMT
  <2>6. QED BY <1>2, <2>1, <2>2, <2>3, <2>4, <2>5, SMT
<1>14. QED BY <1>2, <1>3, <1>13

\* A number an option holds is read as it was written, at any value of 32 bits, and
\* takes no more bytes than it needs.
THEOREM NumbersReadBack ==
  \A n : IsUint32(n) =>
    /\ coap_parse_int_option(coap_serialize_int(n)) = n
    /\ Len(coap_serialize_int(n)) \in 0 .. 4
    /\ n > 0 => coap_serialize_int(n)[1] # 0
<1> SUFFICES ASSUME NEW n, IsUint32(n), NEW b, b = coap_serialize_int(n)
             PROVE  /\ coap_parse_int_option(b) = n
                    /\ Len(b) \in 0 .. 4
                    /\ n > 0 => b[1] # 0
  BY Zenon
<1>1. PICK k \in 0 .. 4 : Spelled(b, k, n) /\ (k > 0 => b[1] # 0)
  BY IntWritten
<1>2. coap_parse_int_option(b) = n
  BY <1>1, IntRead
<1>3. Len(b) = k /\ (k = 0 => n = 0)
  BY <1>1, SMT DEF Spelled
<1>4. QED BY <1>1, <1>2, <1>3, SMT
-----------------------------------------------------------------------------
(* Whole messages as bytes.                                                *)

\* 1 << k.
LEMMA Bits ==
  /\ Bit[0] = 1 /\ Bit[1] = 2 /\ Bit[2] = 4 /\ Bit[3] = 8
  /\ Bit[4] = 16 /\ Bit[5] = 32 /\ Bit[6] = 64 /\ Bit[7] = 128
  /\ \A k \in 8 .. 15 : Bit[k] \in Nat /\ Bit[k] > 128
<1> DEFINE Step(b) == [k \in 0 .. 15 |-> IF k = 0 THEN 1 ELSE 2 * b[k - 1]]
<1>1. PICK f \in [0 .. 15 -> Nat] : f[0] = 1 /\ \A n \in 1 .. 15 : f[n] = 2 * f[n - 1]
  <2> DEFINE N == 15
             S == Nat
             one == 1
             double == [n \in Nat |-> 2 * n]
             step == [n \in 1 .. N |-> double]
  <2>1. N \in Nat /\ one \in S /\ step \in Rounds(N, S)
    BY DEF Rounds
  <2>2. PICK f \in [0 .. N -> S] : f[0] = one /\ \A n \in 1 .. N : f[n] = step[n][f[n - 1]]
    <3> HIDE DEF N, S, one, step
    <3>1. QED BY <2>1, Course
  <2>3. ASSUME NEW n \in 1 .. 15 PROVE f[n] = 2 * f[n - 1]
    <3>1. f[n - 1] \in Nat /\ step[n] = double
      BY <2>2
    <3>2. QED BY <2>2, <3>1
  <2>4. QED BY <2>2, <2>3
<1>2. f = Step(f)
  BY <1>1
<1>3. Bit = Step(Bit)
  <2> HIDE DEF Step
  <2>1. \E b : b = Step(b)
    BY <1>2
  <2>2. Bit = CHOOSE b : b = Step(b)
    BY DEF Bit, Step
  <2>3. QED BY <2>1, <2>2, Zenon
<1>4. Bit[0] = 1 /\ \A k \in 1 .. 15 : Bit[k] = 2 * Bit[k - 1]
  BY <1>3
<1>5. /\ Bit[1] = 2 /\ Bit[2] = 4 /\ Bit[3] = 8 /\ Bit[4] = 16 /\ Bit[5] = 32
  BY <1>4
<1>6. /\ Bit[6] = 64 /\ Bit[7] = 128 /\ Bit[8] = 256 /\ Bit[9] = 512 /\ Bit[10] = 1024
  BY <1>4, <1>5
<1>7. /\ Bit[11] = 2048 /\ Bit[12] = 4096 /\ Bit[13] = 8192 /\ Bit[14] = 16384
      /\ Bit[15] = 32768
  BY <1>4, <1>6
<1>8. QED BY <1>4, <1>5, <1>6, <1>7

\* A block size is a bit, and its exponent the position of it.
LEMMA BlockExponent ==
  ASSUME NEW size \in BlockSizes
  PROVE  coap_log_2(size \div 16) \in 0 .. 7 /\ 16 * Bit[coap_log_2(size \div 16)] = size
<1>1. PICK j \in 0 .. 7 : 16 * Bit[j] = size /\ size \div 16 = Bit[j]
  BY Bits DEF BlockSizes
<1> DEFINE B == {k \in 0 .. 15 : Bit[k] <= size \div 16}
<1>2. coap_log_2(size \div 16) = Max(B)
  BY <1>1, Bits DEF coap_log_2
<1>3. j \in B /\ \A k \in B : j >= k
  <2>1. ASSUME NEW k \in B PROVE j >= k
    BY <1>1, Bits
  <2>2. QED BY <1>1, <2>1, Bits
<1> HIDE DEF B
<1>4. Max(B) = j
  <2>1. B \subseteq Int
    BY DEF B
  <2>2. Max(B) \in B /\ \A k \in B : Max(B) >= k
    BY <1>3 DEF Max
  <2>3. j \in Int /\ Max(B) \in Int /\ j >= Max(B) /\ Max(B) >= j
    BY <1>3, <2>1, <2>2
  <2>4. QED BY <2>3
<1>5. QED BY <1>1, <1>2, <1>4

\* Three numbers packed into one.
Packed(n, num, flag, e) ==
  num \in Below(1048576) /\ flag \in {0, 8} /\ e \in 0 .. 7 /\ n = 16 * num + flag + e

\* The number, the flag and the size of a block come out of what they were packed in.
LEMMA Unpacked ==
  ASSUME NEW n, NEW num, NEW flag, NEW e, Packed(n, num, flag, e)
  PROVE  /\ IsUint32(n) /\ n \div 16 = num /\ n % 8 = e
         /\ (n \div 8) % 2 = 1 <=> flag = 8
<1>1. CASE flag = 0
  BY <1>1, SMT DEF Packed, IsUint32, Below
<1>2. CASE flag = 8
  BY <1>2, SMT DEF Packed, IsUint32, Below
<1>3. QED BY <1>1, <1>2, SMT DEF Packed

\* The three parts of a block are packed into one number and found in it again.
LEMMA BlockReads ==
  ASSUME NEW b \in BlockValue, NEW n, n = Block(b)
  PROVE  /\ IsUint32(n)
         /\ [num |-> n \div 16, more |-> (n \div 8) % 2 = 1, size |-> 16 * Bit[n % 8]] = b
<1> DEFINE e == coap_log_2(b.size \div 16)
           flag == IF b.more THEN 8 ELSE 0
           more == (n \div 8) % 2 = 1
<1>1. b.num \in Below(1048576) /\ b.size \in BlockSizes
  BY SMT DEF BlockValue
<1>2. e \in 0 .. 7 /\ 16 * Bit[e] = b.size
  BY <1>1, BlockExponent, SMT
<1>3. n = 16 * b.num + flag + e
  BY SMT DEF Block
<1>4. flag \in {0, 8} /\ (flag = 8 <=> b.more)
  BY SMT
<1> HIDE DEF e, flag
<1>5. Packed(n, b.num, flag, e)
  BY <1>1, <1>2, <1>3, <1>4, SMT DEF Packed
<1>6. /\ IsUint32(n) /\ n \div 16 = b.num /\ n % 8 = e
      /\ more <=> flag = 8
  BY <1>5, Unpacked, SMT
<1>7. more \in BOOLEAN
  BY SMT
<1> HIDE DEF more
<1>8. b.more \in BOOLEAN /\ b = [num |-> b.num, more |-> b.more, size |-> b.size]
  BY SMT DEF BlockValue
<1>9. more = b.more
  <2>1. b.more \in BOOLEAN /\ (more <=> b.more)
    BY <1>4, <1>6, <1>8, Zenon
  <2> DEFINE has == b.more
  <2> HIDE DEF has
  <2>2. has \in BOOLEAN /\ (more <=> has)
    BY <2>1, Zenon DEF has
  <2>3. more = has
    BY <1>7, <2>2, Zenon
  <2>4. QED BY <2>3, Zenon DEF has
<1>10. [num |-> n \div 16, more |-> more, size |-> 16 * Bit[n % 8]] = b
  BY <1>2, <1>6, <1>8, <1>9, Zenon
<1>11. QED BY <1>6, <1>10 DEF more

\* Bytes that hold two sequences hold each of them.
LEMMA HoldsBoth ==
  ASSUME NEW a \in Seq(Byte), NEW b \in Seq(Byte), NEW bytes, NEW at, Holds(bytes, at, a \o b)
  PROVE  Holds(bytes, at, a) /\ Holds(bytes, at + Len(a), b)
<1> DEFINE c == a \o b
<1>1. /\ Len(c) = Len(a) + Len(b) /\ \A i \in 1 .. Len(a) : c[i] = a[i]
      /\ \A i \in 1 .. Len(b) : c[Len(a) + i] = b[i]
      /\ Len(a) \in Nat /\ Len(b) \in Nat
  OBVIOUS
<1>2. at \in Nat /\ \A i \in 1 .. Len(c) : bytes[at + i - 1] = c[i]
  BY DEF Holds
<1> HIDE DEF c
<1>3. \A i \in 1 .. Len(a) : bytes[at + i - 1] = a[i]
  BY <1>1, <1>2
<1>4. ASSUME NEW i \in 1 .. Len(b) PROVE bytes[at + Len(a) + i - 1] = b[i]
  <2>1. Len(a) + i \in 1 .. Len(c) /\ at + Len(a) + i - 1 = at + (Len(a) + i) - 1
    BY <1>1, <1>2
  <2>2. QED BY <1>1, <1>2, <2>1
<1>5. QED BY <1>1, <1>2, <1>3, <1>4 DEF Holds

\* What is held is what a slice gives.
LEMMA SliceHeld ==
  ASSUME NEW bytes \in Seq(Byte), NEW at \in Nat \ {0}, NEW s \in Seq(Byte),
         Holds(bytes, at, s), at + Len(s) - 1 <= Len(bytes)
  PROVE  SubSeq(bytes, at, at + Len(s) - 1) = s
<1> DEFINE t == SubSeq(bytes, at, at + Len(s) - 1)
<1>1. at \in Int /\ at + Len(s) - 1 \in Int /\ at >= 1 /\ at + Len(s) - 1 <= Len(bytes)
  OBVIOUS
<1>2. ASSUME NEW i \in at .. at + Len(s) - 1 PROVE bytes[i] \in Byte
  <2>1. i \in 1 .. Len(bytes)
    BY <1>1
  <2>2. QED BY <2>1
<1>3. /\ t \in Seq(Byte)
      /\ Len(t) = IF at <= at + Len(s) - 1 THEN at + Len(s) - 1 - at + 1 ELSE 0
      /\ \A i \in 1 .. at + Len(s) - 1 - at + 1 : t[i] = bytes[at + i - 1]
  <2>1. QED BY <1>1, <1>2, SubSeqProperties
<1> HIDE DEF t
<1>4. Len(t) = Len(s) /\ \A i \in 1 .. Len(s) : t[i] = bytes[at + i - 1]
  <2>1. /\ at + Len(s) - 1 - at + 1 = Len(s)
        /\ (at <= at + Len(s) - 1 <=> Len(s) # 0)
    BY <1>1
  <2>2. QED BY <1>2, <1>3, <2>1
<1>5. \A i \in 1 .. Len(s) : t[i] = s[i]
  BY <1>4 DEF Holds
<1>6. t = s
  BY <1>2, <1>3, <1>4, <1>5, SeqEqual
<1>7. QED BY <1>6 DEF t

\* What is written piece by piece is held piece by piece.
LEMMA Pieces ==
  ASSUME NEW N \in Nat, NEW f \in [0 .. N -> Seq(Byte)], NEW piece \in [1 .. N -> Seq(Byte)],
         \A n \in 1 .. N : f[n] = f[n - 1] \o piece[n],
         NEW bytes, NEW at, Holds(bytes, at, f[N])
  PROVE  /\ \A n \in 0 .. N : Holds(bytes, at, f[n]) /\ Len(f[n]) <= Len(f[N])
         /\ \A n \in 1 .. N : /\ Holds(bytes, at + Len(f[n - 1]), piece[n])
                              /\ Len(f[n]) = Len(f[n - 1]) + Len(piece[n])
<1>1. \A n \in 0 .. N : f[n] \in Seq(Byte) /\ Len(f[n]) \in Nat
  OBVIOUS
<1>2. \A n \in 1 .. N : n - 1 \in 0 .. N /\ n \in 0 .. N /\ piece[n] \in Seq(Byte) /\ Len(piece[n]) \in Nat
  OBVIOUS
<1>3. ASSUME NEW n \in 1 .. N
      PROVE  /\ f[n] = f[n - 1] \o piece[n]
             /\ Len(f[n]) = Len(f[n - 1]) + Len(piece[n])
             /\ Holds(bytes, at, f[n]) =>
                  Holds(bytes, at, f[n - 1]) /\ Holds(bytes, at + Len(f[n - 1]), piece[n])
  <2>1. f[n - 1] \in Seq(Byte) /\ piece[n] \in Seq(Byte) /\ f[n] = f[n - 1] \o piece[n]
    BY <1>1, <1>2
  <2>2. QED BY <2>1, HoldsBoth, Joined
<1> DEFINE T == {k \in 0 .. N : Holds(bytes, at, f[N - k]) /\ Len(f[N - k]) <= Len(f[N])}
<1>4. 0 \in T
  BY <1>1
<1>5. ASSUME NEW k \in T, k \in Nat, k < N PROVE k + 1 \in T
  <2>1. N - k \in 1 .. N /\ N - (k + 1) = (N - k) - 1 /\ k + 1 \in 0 .. N
    BY <1>5
  <2>2. Holds(bytes, at, f[N - k]) /\ Len(f[N - k]) <= Len(f[N])
    OBVIOUS
  <2> DEFINE n == N - k
  <2> HIDE DEF n
  <2>3. n \in 1 .. N /\ Holds(bytes, at, f[n]) /\ Len(f[n]) <= Len(f[N])
    BY <2>1, <2>2 DEF n
  <2>4. Holds(bytes, at, f[n - 1]) /\ Len(f[n - 1]) <= Len(f[N])
    BY <1>1, <1>2, <1>3, <2>3
  <2>5. QED BY <2>1, <2>4 DEF n
<1>6. \A k \in 0 .. N : k \in T
  <2> HIDE DEF T
  <2>1. QED BY <1>4, <1>5, Upwards
<1>7. ASSUME NEW n \in 0 .. N PROVE Holds(bytes, at, f[n]) /\ Len(f[n]) <= Len(f[N])
  <2>1. N - n \in 0 .. N /\ N - (N - n) = n
    OBVIOUS
  <2>2. Holds(bytes, at, f[N - (N - n)]) /\ Len(f[N - (N - n)]) <= Len(f[N])
    BY <1>6, <2>1
  <2>3. QED BY <2>1, <2>2
<1>8. QED BY <1>2, <1>3, <1>7

\* Pieces are put together one after the other.
LEMMA FlatCourse ==
  ASSUME NEW A, NEW pieces \in Seq(Seq(A))
  PROVE  \E f \in [0 .. Len(pieces) -> Seq(A)] :
           /\ f[0] = <<>>
           /\ \A k \in 1 .. Len(pieces) : f[k] = f[k - 1] \o pieces[k]
           /\ Flat(pieces) = f[Len(pieces)]
<1> DEFINE N == Len(pieces)
           S == Seq(A)
           empty == <<>>
           step == [k \in 1 .. N |-> [b \in S |-> b \o pieces[k]]]
           Step(o) == [k \in 0 .. N |-> IF k = 0 THEN <<>> ELSE o[k - 1] \o pieces[k]]
           out == CHOOSE o : o = Step(o)
           Goes(f) == f[0] = <<>> /\ \A k \in 1 .. N : f[k] = f[k - 1] \o pieces[k]
<1>1. N \in Nat /\ empty \in S /\ \A k \in 1 .. N : pieces[k] \in S
  OBVIOUS
<1>2. step \in Rounds(N, S)
  BY <1>1 DEF Rounds
<1>3. PICK f \in [0 .. N -> S] : f[0] = empty /\ \A k \in 1 .. N : f[k] = step[k][f[k - 1]]
  <2> HIDE DEF N, S, empty, step
  <2>1. QED BY <1>1, <1>2, Course
<1>4. Goes(f)
  <2>1. ASSUME NEW k \in 1 .. N PROVE f[k] = f[k - 1] \o pieces[k]
    <3>1. f[k] = step[k][f[k - 1]]
      BY <1>3, Zenon
    <3>2. f[k - 1] \in S
      <4> HIDE DEF N, S
      <4>1. QED BY <1>1, <1>3
    <3>3. step[k][f[k - 1]] = f[k - 1] \o pieces[k]
      <4> HIDE DEF N, S
      <4>1. QED BY <3>2, Zenon
    <3>4. QED BY <3>1, <3>3, Zenon
  <2>2. QED BY <1>3, <2>1
<1>5. f = Step(f)
  <2>1. ASSUME NEW k \in 0 .. N PROVE f[k] = Step(f)[k]
    <3>1. CASE k = 0
      BY <1>4, <3>1
    <3>2. CASE k \in 1 .. N
      <4>1. f[k] = f[k - 1] \o pieces[k]
        BY <1>4, <3>2, Zenon
      <4>2. Step(f)[k] = f[k - 1] \o pieces[k]
        <5>1. k # 0
          BY <3>2
        <5>2. QED BY <5>1, Zenon
      <4>3. QED BY <4>1, <4>2, Zenon
    <3>3. k = 0 \/ k \in 1 .. N
      BY <1>1
    <3>4. QED BY <3>1, <3>2, <3>3, Zenon
  <2>2. f = [k \in 0 .. N |-> f[k]] /\ Step(f) = [k \in 0 .. N |-> Step(f)[k]]
    OBVIOUS
  <2> HIDE DEF Step
  <2>3. QED BY <2>1, <2>2, Zenon
<1>6. out = Step(out)
  <2> HIDE DEF Step
  <2>1. \E o : o = Step(o)
    BY <1>5
  <2>2. QED BY <2>1, Zenon
<1>7. Flat(pieces) = out[N]
  BY DEF Flat
<1> HIDE DEF out
<1>8. Goes(out)
  <2>1. out[0] = <<>>
    BY <1>1, <1>6
  <2>2. ASSUME NEW k \in 1 .. N PROVE out[k] = out[k - 1] \o pieces[k]
    <3>1. k \in 0 .. N /\ k # 0
      OBVIOUS
    <3>2. out[k] = Step(out)[k]
      BY <1>6, Zenon
    <3>3. Step(out)[k] = out[k - 1] \o pieces[k]
      BY <3>1, Zenon
    <3>4. QED BY <3>2, <3>3, Zenon
  <2>3. QED BY <2>1, <2>2
<1>9. \A k \in 0 .. N : out[k] = f[k]
  <2> DEFINE T == {k \in 0 .. N : out[k] = f[k]}
  <2>1. 0 \in T
    BY <1>1, <1>4, <1>8
  <2>2. ASSUME NEW k \in T, k \in Nat, k < N PROVE k + 1 \in T
    <3>1. k + 1 \in 1 .. N /\ k + 1 - 1 = k /\ out[k] = f[k]
      BY <2>2
    <3> DEFINE n == k + 1
    <3> HIDE DEF n
    <3>2. n \in 1 .. N /\ out[n - 1] = f[n - 1]
      BY <3>1 DEF n
    <3>3. out[n] = out[n - 1] \o pieces[n] /\ f[n] = f[n - 1] \o pieces[n]
      BY <1>4, <1>8, <3>2, Zenon
    <3>4. out[n] = f[n]
      BY <3>2, <3>3, Zenon
    <3>5. QED BY <3>1, <3>4 DEF n
  <2>3. \A k \in 0 .. N : k \in T
    <3> HIDE DEF T, N
    <3>1. QED BY <1>1, <2>1, <2>2, Upwards
  <2>4. QED BY <2>3
<1>10. Flat(pieces) = f[N]
  BY <1>1, <1>7, <1>9
<1>11. QED BY <1>4, <1>10, Zenon

\* The rounds of the reading loop.
Reads(bytes, start, f) ==
  /\ f = [k \in 0 .. Len(bytes) |-> f[k]] /\ f[0] = start
  /\ \A k \in 1 .. Len(bytes) : f[k] = NextOption(bytes, f[k - 1])

\* The loop has a course, and the answer is what its last round leaves.
LEMMA ReadingCourse ==
  ASSUME NEW bytes \in Seq(Byte), NEW m, NEW at
  PROVE  \E f : /\ Reads(bytes, Reading("NO_ERROR", m, at, 0), f)
                /\ coap_parse_options(m, bytes, at) = Parsed(f[Len(bytes)].status, f[Len(bytes)].message)
<1> DEFINE N == Len(bytes)
           start == Reading("NO_ERROR", m, at, 0)
           Step(o) == [k \in 0 .. N |-> IF k = 0 THEN start ELSE NextOption(bytes, o[k - 1])]
           out == CHOOSE o : o = Step(o)
           Far == {n \in 0 .. N : \E f : f = [k \in 0 .. n |-> IF k = 0 THEN start
                                                          ELSE NextOption(bytes, f[k - 1])]}
<1>1. N \in Nat
  OBVIOUS
<1> HIDE DEF N, start
<1>2. 0 \in Far
  <2> DEFINE f == [k \in 0 .. 0 |-> start]
  <2>1. f = [k \in 0 .. 0 |-> IF k = 0 THEN start ELSE NextOption(bytes, f[k - 1])]
    OBVIOUS
  <2> HIDE DEF f
  <2>2. QED BY <1>1, <2>1
<1>3. ASSUME NEW n \in Far, n \in Nat, n < N PROVE n + 1 \in Far
  <2>1. PICK f : f = [k \in 0 .. n |-> IF k = 0 THEN start ELSE NextOption(bytes, f[k - 1])]
    BY Zenon
  <2> DEFINE g == [k \in 0 .. n + 1 |-> IF k <= n THEN f[k] ELSE NextOption(bytes, f[n])]
             h == [k \in 0 .. n + 1 |-> IF k = 0 THEN start ELSE NextOption(bytes, g[k - 1])]
  <2>2. n \in 0 .. N /\ n + 1 \in 0 .. N /\ n + 1 - 1 = n
    BY <1>1, <1>3
  <2>3. ASSUME NEW k \in 0 .. n + 1 PROVE g[k] = h[k]
    <3>1. CASE k = 0
      <4>1. f[0] = start
        BY <2>1, <1>3
      <4>2. h[0] = start
        BY <1>3
      <4>3. g[0] = f[0]
        BY <1>3
      <4>4. QED BY <3>1, <4>1, <4>2, <4>3
    <3>2. CASE k \in 1 .. n
      <4>1. k \in 0 .. n /\ k # 0 /\ k - 1 \in 0 .. n + 1 /\ k <= n /\ k - 1 <= n
        BY <1>3, <3>2
      <4>2. f[k] = NextOption(bytes, f[k - 1])
        BY <2>1, <4>1, Zenon
      <4>3. g[k] = f[k] /\ g[k - 1] = f[k - 1]
        BY <4>1
      <4>4. h[k] = NextOption(bytes, g[k - 1])
        BY <4>1, Zenon
      <4>5. QED BY <4>2, <4>3, <4>4
    <3>3. CASE k = n + 1
      <4>1. k - 1 = n /\ ~(k <= n) /\ k # 0 /\ n \in 0 .. n + 1 /\ n <= n
        BY <1>3, <3>3
      <4>2. g[k] = NextOption(bytes, f[n]) /\ g[n] = f[n]
        BY <4>1, Zenon
      <4>3. h[k] = NextOption(bytes, g[k - 1])
        BY <4>1, Zenon
      <4>4. QED BY <4>1, <4>2, <4>3
    <3>4. k = 0 \/ k \in 1 .. n \/ k = n + 1
      BY <1>3
    <3>5. QED BY <3>1, <3>2, <3>3, <3>4
  <2>4. g = h
    <3>1. g = [k \in 0 .. n + 1 |-> g[k]] /\ h = [k \in 0 .. n + 1 |-> h[k]]
      OBVIOUS
    <3> HIDE DEF g, h
    <3>2. QED BY <2>3, <3>1, Zenon
  <2>5. g = [k \in 0 .. n + 1 |-> IF k = 0 THEN start ELSE NextOption(bytes, g[k - 1])]
    BY <2>4
  <2> HIDE DEF g
  <2>6. QED BY <2>2, <2>5, Zenon
<1>4. N \in Far
  <2> HIDE DEF Far
  <2>1. \A n \in 0 .. N : n \in Far
    BY <1>1, <1>2, <1>3, Upwards
  <2>2. QED BY <1>1, <2>1
<1>5. out = Step(out)
  <2>1. \E o : o = Step(o)
    BY <1>4, Zenon
  <2> HIDE DEF Step
  <2>2. QED BY <2>1, Zenon
<1>6. coap_parse_options(m, bytes, at) = Parsed(out[N].status, out[N].message)
  BY DEF coap_parse_options, N, start
<1> HIDE DEF out
<1>7. out = [k \in 0 .. N |-> out[k]]
  BY <1>5
<1>8. out[0] = start
  BY <1>1, <1>5
<1>9. ASSUME NEW k \in 1 .. N PROVE out[k] = NextOption(bytes, out[k - 1])
  <2>1. k \in 0 .. N /\ k # 0
    BY <1>1
  <2>2. QED BY <1>5, <2>1, Zenon
<1>10. Reads(bytes, start, out)
  BY <1>7, <1>8, <1>9 DEF Reads, N
<1>11. QED BY <1>6, <1>10 DEF N, start

\* Behind the last byte no round reads anything.
LEMMA ReadingEnds ==
  ASSUME NEW bytes \in Seq(Byte), NEW start, NEW f, Reads(bytes, start, f),
         NEW k \in 0 .. Len(bytes), f[k].at > Len(bytes)
  PROVE  f[Len(bytes)] = f[k]
<1> DEFINE N == Len(bytes)
           T == {n \in 0 .. N - k : f[k + n] = f[k]}
<1>1. N \in Nat /\ N - k \in Nat /\ k + (N - k) = N
  OBVIOUS
<1>2. 0 \in T
  BY <1>1
<1>3. ASSUME NEW n \in T, n \in Nat, n < N - k PROVE n + 1 \in T
  <2>1. k + n + 1 \in 1 .. N /\ k + (n + 1) = k + n + 1 /\ k + n + 1 - 1 = k + n
        /\ n + 1 \in 0 .. N - k
    BY <1>1, <1>3
  <2>2. f[k + n] = f[k]
    OBVIOUS
  <2> DEFINE j == k + n + 1
  <2>3. f[j] = NextOption(bytes, f[j - 1])
    <3>1. j \in 1 .. Len(bytes)
      BY <2>1
    <3> HIDE DEF j
    <3>2. QED BY <3>1, Zenon DEF Reads
  <2>4. NextOption(bytes, f[k]) = f[k]
    BY DEF NextOption
  <2>5. f[k + (n + 1)] = f[k]
    <3>1. k + (n + 1) = j /\ j - 1 = k + n
      BY <1>1, <2>1
    <3> HIDE DEF j
    <3>2. QED BY <2>2, <2>3, <2>4, <3>1, Zenon
  <2>6. QED BY <2>1, <2>5
<1>4. \A n \in 0 .. N - k : n \in T
  <2> HIDE DEF T, N
  <2>1. QED BY <1>1, <1>2, <1>3, Upwards
<1>5. N - k \in 0 .. N - k
  BY <1>1
<1>6. f[k + (N - k)] = f[k]
  BY <1>4, <1>5
<1>7. QED BY <1>1, <1>6

At(m, at, current) == Reading("NO_ERROR", m, at, current)

\* A round reads the option that stands where it begins.
LEMMA OneRound ==
  ASSUME NEW bytes \in Seq(Byte), NEW m, NEW at \in Nat \ {0}, NEW current \in Nat,
         NEW delta, IsField(delta), NEW s \in ShortString,
         NEW header, header = coap_set_option_header(delta, Len(s)),
         Holds(bytes, at, header \o s), at + Len(header) + Len(s) - 1 <= Len(bytes),
         NEW number, number = current + delta, Understood(number), number # PROXY_URI
  PROVE  NextOption(bytes, At(m, at, current)) =
           At(Taken(m, number, s), at + Len(header) + Len(s), number)
<1> DEFINE here == At(m, at, current)
           read == OptionHeader(bytes, at)
           next == at + Len(header)
<1>1. s \in Seq(Byte) /\ Len(s) \in Nat /\ IsField(Len(s))
  <2>1. s \in Seq(Byte) /\ Len(s) \in Nat /\ Len(s) <= 255
    BY DEF ShortString
  <2>2. QED BY <2>1, SMT DEF IsField
<1>2. header \in Seq(Byte) /\ Len(header) \in Nat /\ Len(header) >= 1
  BY <1>1, HeaderWritten
<1>3. Holds(bytes, at, header) /\ Holds(bytes, next, s)
  BY <1>1, <1>2, HoldsBoth
<1>4. bytes[at] < 240 /\ read = [delta |-> delta, length |-> Len(s), next |-> next]
  BY <1>1, <1>3, HeaderRead
<1>5. at <= Len(bytes)
  BY <1>1, <1>2
<1>6. bytes[at] \in Byte
  BY <1>5
<1>7. ~(bytes[at] >= 240)
  <2>1. bytes[at] \in Int
    <3>1. \A x \in Byte : x \in Int
      BY DEF Byte
    <3>2. QED BY <1>6, <3>1
  <2> DEFINE b == bytes[at]
  <2> HIDE DEF b
  <2>2. b \in Int /\ b < 240
    BY <1>4, <2>1 DEF b
  <2>3. ~(b >= 240)
    BY <2>2
  <2>4. QED BY <2>3 DEF b
<1>8. SubSeq(bytes, next, next + Len(s) - 1) = s
  <2>1. next \in Nat \ {0} /\ next + Len(s) - 1 <= Len(bytes)
    BY <1>1, <1>2
  <2> HIDE DEF next
  <2>2. QED BY <1>1, <1>3, <2>1, SliceHeld
<1>9. /\ here.status = "NO_ERROR" /\ here.at = at /\ here.current = current
      /\ here.message = m
  BY DEF At, Reading
<1> HIDE DEF here, next, read
<1>10. NextOption(bytes, here) = At(Taken(m, number, s), next + Len(s), number)
  <2>1. ~(here.status # "NO_ERROR" \/ here.at > Len(bytes))
    BY <1>5, <1>9
  <2>2. /\ read = OptionHeader(bytes, here.at) /\ read.delta = delta /\ read.length = Len(s)
        /\ read.next = next
    BY <1>4, <1>9 DEF read
  <2>3. number = here.current + read.delta
    BY <1>9, <2>2
  <2> DEFINE end == read.next + read.length
             found == SubSeq(bytes, read.next, end - 1)
  <2>4. found = s /\ end = next + Len(s)
    <3>1. end = next + Len(s)
      BY <2>2
    <3>2. read.next = next /\ end - 1 = next + Len(s) - 1
      <4>1. read.next = next
        BY <2>2
      <4>2. end - 1 = next + Len(s) - 1
        <5>1. next \in Nat /\ Len(s) \in Nat
          BY <1>1, <1>2 DEF next
        <5> HIDE DEF end
        <5>2. QED BY <3>1, <5>1
      <4>3. QED BY <4>1, <4>2
    <3>3. found = SubSeq(bytes, next, next + Len(s) - 1)
      <4> HIDE DEF end
      <4>1. QED BY <3>2, Zenon
    <3>4. QED BY <1>8, <3>1, <3>3, Zenon
  <2>5. NextOption(bytes, here) =
          Reading(here.status, Taken(here.message, number, found), end, number)
    <3>1. ~(bytes[here.at] >= 240)
      BY <1>7, <1>9
    <3>2. read = OptionHeader(bytes, here.at) /\ number = here.current + read.delta
      BY <2>2, <2>3
    <3>3. QED BY <2>1, <3>1, <3>2, Zenon DEF NextOption
  <2>6. QED BY <1>9, <2>4, <2>5, Zenon DEF At
<1>11. QED BY <1>10 DEF here, next

Numbers == {OBSERVE, LOCATION_PATH, URI_PATH, URI_QUERY, BLOCK2, BLOCK1}

\* A number is written as one string.
LEMMA IntString ==
  ASSUME NEW n, IsUint32(n)
  PROVE  coap_serialize_int(n) \in ShortString /\ coap_parse_int_option(coap_serialize_int(n)) = n
<1> DEFINE b == coap_serialize_int(n)
<1>1. PICK k \in 0 .. 4 : Spelled(b, k, n)
  BY IntWritten
<1>2. b \in Seq(Byte) /\ Len(b) = k
  <2> HIDE DEF b
  <2>1. QED BY <1>1, SMT DEF Spelled
<1> HIDE DEF b
<1>3. b \in ShortString
  BY <1>2 DEF ShortString
<1>4. coap_parse_int_option(b) = n
  BY <1>1, IntRead
<1>5. QED BY <1>3, <1>4 DEF b

\* A short string is not cut where its length is taken as a byte.
LEMMA WholeString ==
  ASSUME NEW s \in ShortString
  PROVE  SubSeq(s, 1, Len(s) % 256) = s
<1>1. s \in Seq(Byte) /\ Len(s) \in Nat /\ Len(s) <= 255
  BY DEF ShortString
<1>2. Len(s) % 256 = Len(s)
  BY <1>1
<1>3. SubSeq(s, 1, Len(s)) = s
  BY <1>1, SubSeqFull
<1>4. QED BY <1>2, <1>3

\* Every option is of one kind: the observe counter, a block or a list of strings.
LEMMA NumberKinds ==
  /\ OBSERVE \notin Multis /\ OBSERVE \notin BlockOptions
  /\ \A n \in BlockOptions : n # OBSERVE /\ n \notin Multis
  /\ \A n \in Multis : n # OBSERVE /\ n \notin BlockOptions
  /\ \A n \in Numbers : n = OBSERVE \/ n \in BlockOptions \/ n \in Multis
  BY DEF OBSERVE, Multis, BlockOptions, Numbers, LOCATION_PATH, URI_PATH, URI_QUERY, BLOCK1, BLOCK2

\* The strings of an option are short, and when they are read the option is again
\* what it was: string by string if it is a list, and else from its only one.
LEMMA StringsRead ==
  ASSUME NEW number \in Numbers, NEW v \in OptionValue(number),
         NEW strings, strings = Strings(number, v)
  PROVE  /\ strings \in Seq(ShortString) /\ Len(strings) >= 1
         /\ number \in Multis => strings = v
         /\ number \notin Multis =>
              /\ Len(strings) = 1
              /\ \A m : Taken(m, number, strings[1]) = SET_OPTION(m, number, v)
<1>1. CASE number = OBSERVE
  <2> DEFINE s == coap_serialize_int(v)
  <2>1. v \in ObserveValue
    BY <1>1, NumberKinds, Zenon DEF OptionValue
  <2>2. IsUint32(v)
    BY <2>1, SMT DEF ObserveValue, Below, IsUint32
  <2>3. s \in ShortString /\ coap_parse_int_option(s) = v
    BY <2>2, IntString
  <2>4. strings = <<s>>
    BY <1>1, NumberKinds, Zenon DEF Strings
  <2>5. \A m : Taken(m, number, s) = SET_OPTION(m, number, coap_parse_int_option(s))
    BY <1>1, NumberKinds, Zenon DEF Taken
  <2> HIDE DEF s
  <2>6. strings \in Seq(ShortString) /\ Len(strings) = 1 /\ strings[1] = s
    BY <2>3, <2>4
  <2>7. \A m : Taken(m, number, strings[1]) = SET_OPTION(m, number, v)
    BY <2>3, <2>5, <2>6, Zenon
  <2>8. QED BY <1>1, <2>6, <2>7, NumberKinds
<1>2. CASE number \in BlockOptions
  <2> DEFINE n == Block(v)
             s == coap_serialize_int(n)
             p == coap_parse_int_option(s)
             again == [num |-> p \div 16, more |-> (p \div 8) % 2 = 1, size |-> 16 * Bit[p % 8]]
  <2>1. v \in BlockValue
    BY <1>2, NumberKinds, Zenon DEF OptionValue
  <2>2. /\ IsUint32(n)
        /\ [num |-> n \div 16, more |-> (n \div 8) % 2 = 1, size |-> 16 * Bit[n % 8]] = v
    BY <2>1, BlockReads
  <2>3. s \in ShortString /\ p = n
    <3> HIDE DEF n
    <3>1. QED BY <2>2, IntString
  <2>4. strings = <<s>>
    BY <1>2, NumberKinds, Zenon DEF Strings
  <2>5. again = v
    BY <2>2, <2>3, Zenon
  <2>6. \A m : Taken(m, number, s) = SET_OPTION(m, number, again)
    <3> HIDE DEF s
    <3>1. QED BY <1>2, NumberKinds, Zenon DEF Taken
  <2> HIDE DEF s, again
  <2>7. strings \in Seq(ShortString) /\ Len(strings) = 1 /\ strings[1] = s
    BY <2>3, <2>4
  <2>8. \A m : Taken(m, number, strings[1]) = SET_OPTION(m, number, v)
    BY <2>5, <2>6, <2>7, Zenon
  <2>9. QED BY <1>2, <2>7, <2>8, NumberKinds
<1>3. CASE number \in Multis
  <2>1. v \in Seq(ShortString) \ {<<>>}
    BY <1>3, NumberKinds, Zenon DEF OptionValue
  <2>2. strings = [k \in DOMAIN v |-> SubSeq(v[k], 1, Len(v[k]) % 256)]
    BY <1>3, NumberKinds, Zenon DEF Strings
  <2>3. \A k \in DOMAIN v : v[k] \in ShortString
    BY <2>1
  <2>4. \A k \in DOMAIN v : SubSeq(v[k], 1, Len(v[k]) % 256) = v[k]
    BY <2>3, WholeString
  <2>5. strings = [k \in DOMAIN v |-> v[k]]
    BY <2>2, <2>4, Zenon
  <2>6. v = [k \in DOMAIN v |-> v[k]]
    BY <2>1
  <2>7. strings = v
    BY <2>5, <2>6, Zenon
  <2>8. QED BY <1>3, <2>1, <2>7
<1>4. QED BY <1>1, <1>2, <1>3, NumberKinds

\* A string of a list is taken behind those before it.
LEMMA StringTaken ==
  ASSUME NEW number \in Multis, NEW s \in ShortString, NEW m,
         NEW before, before = IF number \in DOMAIN m.options THEN m.options[number] ELSE <<>>
  PROVE  Taken(m, number, s) = SET_OPTION(m, number, before \o <<s>>)
<1>1. Taken(m, number, s) =
        SET_OPTION(m, number, (IF number \in DOMAIN m.options THEN m.options[number] ELSE <<>>)
                                 \o <<SubSeq(s, 1, Len(s) % 256)>>)
  BY NumberKinds, Zenon DEF Taken
<1>2. QED BY <1>1, WholeString, Zenon

\* A message of which the options have been read that are given here.
Partly(m, options) ==
  [type |-> m.type, code |-> m.code, mid |-> m.mid, token |-> m.token,
   options |-> options, payload |-> <<>>]

\* Options with one that is set, or set anew.
Put(o, number, v) == [n \in DOMAIN o \cup {number} |-> IF n = number THEN v ELSE o[n]]

\* An option set over another one of a message that is partly read.
LEMMA OptionSet ==
  ASSUME NEW m, NEW o, NEW number, NEW v
  PROVE  /\ SET_OPTION(Partly(m, o), number, v) = Partly(m, Put(o, number, v))
         /\ Partly(m, o).options = o
<1> DEFINE Records(x) == [type : {m.type}, code : {m.code}, mid : {m.mid}, token : {m.token},
                          options : {x}, payload : {<<>>}]
           r == Partly(m, o)
           x == Put(o, number, v)
<1>1. r \in Records(o) /\ r.options = o
  BY SMT DEF Partly
<1>2. SET_OPTION(r, number, v) = [r EXCEPT !.options = x]
  BY <1>1, Zenon DEF SET_OPTION, Put
<1> HIDE DEF r, x
<1>3. [r EXCEPT !.options = x] \in Records(x)
  BY <1>1, SMT
<1>4. \A q \in Records(x) : q = Partly(m, x)
  BY SMT DEF Partly
<1>5. QED BY <1>1, <1>2, <1>3, <1>4 DEF r, x

\* Bytes written up to an option, and the number of the last one among them.
WrittenUpTo(w, below) ==
  w = [bytes |-> w.bytes, current |-> w.current] /\ w.bytes \in Seq(Byte)
    /\ w.current \in Nat /\ w.current < below

\* The strings of an option with their headers.
PiecesOf(number, current, strings) ==
  [k \in DOMAIN strings |->
     coap_set_option_header(IF k = 1 THEN number - current ELSE 0, Len(strings[k])) \o strings[k]]

\* The strings of an option become as many pieces, the first with the distance to the
\* option before, the others with none.
LEMMA PiecesWritten ==
  ASSUME NEW number \in Nat, NEW current \in Nat, current < number, number < 64,
         NEW strings \in Seq(ShortString)
  PROVE  /\ PiecesOf(number, current, strings) \in Seq(Seq(Byte))
         /\ Len(PiecesOf(number, current, strings)) = Len(strings)
         /\ \A k \in 1 .. Len(strings) :
              LET delta == IF k = 1 THEN number - current ELSE 0
                  header == coap_set_option_header(delta, Len(strings[k]))
              IN  /\ IsField(delta) /\ header \in Seq(Byte) /\ Len(header) >= 1
                  /\ strings[k] \in ShortString
                  /\ PiecesOf(number, current, strings)[k] = header \o strings[k]
                  /\ Len(header \o strings[k]) = Len(header) + Len(strings[k])
<1> DEFINE N == Len(strings)
           delta(k) == IF k = 1 THEN number - current ELSE 0
           header(k) == coap_set_option_header(delta(k), Len(strings[k]))
           pieces == PiecesOf(number, current, strings)
<1>1. N \in Nat /\ DOMAIN strings = 1 .. N
  OBVIOUS
<1>2. ASSUME NEW k \in 1 .. N
      PROVE  /\ IsField(delta(k)) /\ header(k) \in Seq(Byte) /\ Len(header(k)) >= 1
             /\ strings[k] \in ShortString
             /\ pieces[k] = header(k) \o strings[k]
             /\ header(k) \o strings[k] \in Seq(Byte)
             /\ Len(header(k) \o strings[k]) = Len(header(k)) + Len(strings[k])
  <2>1. strings[k] \in ShortString
    OBVIOUS
  <2>2. strings[k] \in Seq(Byte) /\ Len(strings[k]) \in Nat /\ Len(strings[k]) <= 255
    BY <2>1 DEF ShortString
  <2>3. IsField(Len(strings[k])) /\ IsField(delta(k))
    BY <2>2, SMT DEF IsField
  <2> HIDE DEF delta
  <2>4. header(k) \in Seq(Byte) /\ Len(header(k)) >= 1
    BY <2>3, HeaderWritten
  <2>5. pieces[k] = header(k) \o strings[k]
    BY <1>1 DEF PiecesOf, delta
  <2> HIDE DEF header
  <2>6. header(k) \o strings[k] \in Seq(Byte)
        /\ Len(header(k) \o strings[k]) = Len(header(k)) + Len(strings[k])
    BY <2>2, <2>4, ConcatProperties
  <2>7. QED BY <2>1, <2>3, <2>4, <2>5, <2>6
<1>3. pieces = [k \in 1 .. N |-> pieces[k]]
  <2>1. DOMAIN strings = 1 .. Len(strings)
    OBVIOUS
  <2>2. QED BY <2>1, Zenon DEF PiecesOf
<1> HIDE DEF pieces, header, delta
<1>4. \A k \in 1 .. N : pieces[k] \in Seq(Byte)
  BY <1>2
<1>5. pieces \in Seq(Seq(Byte)) /\ Len(pieces) = N
  <2> DEFINE S == Seq(Byte)
  <2>1. \A k \in 1 .. N : pieces[k] \in S
    BY <1>4
  <2> HIDE DEF S, N
  <2>2. pieces \in Seq(S) /\ Len(pieces) = N
    BY <1>1, <1>3, <2>1
  <2>3. QED BY <2>2 DEF S, N
<1>6. QED BY <1>2, <1>5 DEF pieces, header, delta

\* What an option adds to the bytes.
LEMMA OptionAdds ==
  ASSUME NEW options, NEW number \in Numbers,
         number \in DOMAIN options => options[number] \in OptionValue(number),
         NEW w, WrittenUpTo(w, number), NEW after, after = WithOption(options, number, w)
  PROVE  /\ WrittenUpTo(after, number + 1) /\ Len(w.bytes) <= Len(after.bytes)
         /\ \A bytes, base : Holds(bytes, base, after.bytes) => Holds(bytes, base, w.bytes)
<1>1. w.bytes \in Seq(Byte) /\ w.current \in Nat /\ w.current < number
  BY DEF WrittenUpTo
<1>2. number \in Nat /\ number < 64
  BY DEF Numbers, OBSERVE, LOCATION_PATH, URI_PATH, URI_QUERY, BLOCK2, BLOCK1
<1>3. CASE number \notin DOMAIN options
  <2>1. after = w
    BY <1>3 DEF WithOption
  <2>2. WrittenUpTo(w, number + 1)
    BY <1>2 DEF WrittenUpTo
  <2>3. QED BY <1>1, <2>1, <2>2
<1>4. CASE number \in DOMAIN options
  <2> DEFINE strings == Strings(number, options[number])
             added == coap_serialize_option(number, w.current, strings)
             pieces == PiecesOf(number, w.current, strings)
  <2>1. after = [bytes |-> w.bytes \o added, current |-> number]
    BY <1>4, Zenon DEF WithOption
  <2>2. strings \in Seq(ShortString)
    BY <1>4, StringsRead
  <2> HIDE DEF strings
  <2>3. pieces \in Seq(Seq(Byte))
    BY <1>1, <1>2, <2>2, PiecesWritten
  <2>4. added = Flat(pieces)
    BY DEF coap_serialize_option, PiecesOf
  <2> HIDE DEF pieces
  <2>5. added \in Seq(Byte)
    <3> HIDE DEF added
    <3>1. PICK f \in [0 .. Len(pieces) -> Seq(Byte)] : Flat(pieces) = f[Len(pieces)]
      BY <2>3, FlatCourse
    <3>2. Len(pieces) \in 0 .. Len(pieces)
      BY <2>3
    <3>3. QED BY <2>4, <3>1, <3>2
  <2> HIDE DEF added
  <2>6. after.bytes = w.bytes \o added /\ after.current = number
        /\ after = [bytes |-> after.bytes, current |-> after.current]
    BY <2>1
  <2>7. w.bytes \o added \in Seq(Byte) /\ Len(w.bytes) <= Len(w.bytes \o added)
    BY <1>1, <2>5
  <2>8. \A bytes, base : Holds(bytes, base, w.bytes \o added) => Holds(bytes, base, w.bytes)
    BY <1>1, <2>5, HoldsBoth
  <2>9. WrittenUpTo(after, number + 1)
    BY <1>2, <2>6, <2>7 DEF WrittenUpTo
  <2>10. QED BY <2>6, <2>7, <2>8, <2>9
<1>5. QED BY <1>3, <1>4
\* The options of a message up to some, and with one more while it is read.
UpTo(m, P) == [n \in DOMAIN m.options \cap P |-> m.options[n]]
With(m, P, number, v) ==
  [n \in (DOMAIN m.options \cap P) \cup {number} |-> IF n = number THEN v ELSE m.options[n]]

\* The options up to a number do not have it; with it they do.
LEMMA Has ==
  ASSUME NEW m, NEW P, NEW number, number \notin P, NEW u
  PROVE  /\ number \notin DOMAIN UpTo(m, P)
         /\ number \in DOMAIN With(m, P, number, u)
  BY DEF UpTo, With

\* The option that was added has the value it was added with.
LEMMA HasValue ==
  ASSUME NEW m, NEW P, NEW number, NEW u
  PROVE  With(m, P, number, u)[number] = u
  BY DEF With

\* Setting the next option, for the first time or again, leaves the others as they were.
LEMMA SetOver ==
  ASSUME NEW m, NEW P, NEW number, number \notin P, NEW u, NEW v
  PROVE  /\ SET_OPTION(Partly(m, UpTo(m, P)), number, v) = Partly(m, With(m, P, number, v))
         /\ SET_OPTION(Partly(m, With(m, P, number, u)), number, v) = Partly(m, With(m, P, number, v))
<1> DEFINE D == DOMAIN m.options \cap P
           a == UpTo(m, P)
           b == With(m, P, number, u)
           c == With(m, P, number, v)
<1>1. DOMAIN a = D /\ \A n \in D : a[n] = m.options[n]
  BY DEF UpTo
<1>2. DOMAIN b = D \cup {number} /\ b[number] = u /\ \A n \in D : n # number => b[n] = m.options[n]
  BY DEF With
<1>3. c = [n \in D \cup {number} |-> IF n = number THEN v ELSE m.options[n]]
  BY DEF With
<1>4. number \notin D
  OBVIOUS
<1> HIDE DEF a, b, c, D
<1>5. Put(a, number, v) = c
  BY <1>1, <1>3 DEF Put
<1>6. Put(b, number, v) = c
  <2>1. DOMAIN b \cup {number} = D \cup {number}
    BY <1>2
  <2>2. \A n \in D \cup {number} : (IF n = number THEN v ELSE b[n]) = (IF n = number THEN v ELSE m.options[n])
    BY <1>2
  <2>3. QED BY <1>3, <2>1, <2>2, Zenon DEF Put
<1>7. SET_OPTION(Partly(m, a), number, v) = Partly(m, c)
  BY <1>5, OptionSet
<1>8. SET_OPTION(Partly(m, b), number, v) = Partly(m, c)
  BY <1>6, OptionSet
<1>9. QED BY <1>1, <1>2, <1>7, <1>8, <1>4 DEF a, b, c

\* One element more of a sequence.
LEMMA LongerPrefix ==
  ASSUME NEW S, NEW v \in Seq(S), NEW i \in 0 .. Len(v) - 1
  PROVE  SubSeq(v, 1, i + 1) = SubSeq(v, 1, i) \o <<v[i + 1]>>
<1>1. i + 1 \in 1 .. Len(v) /\ 1 \in 1 .. Len(v) /\ i + 1 - 1 = i
  OBVIOUS
<1> DEFINE n == i + 1
<1> HIDE DEF n
<1>2. 1 \in 1 .. Len(v) /\ n \in 1 .. Len(v)
  BY <1>1 DEF n
<1>3. n \in 1 .. Len(v)
  BY <1>2
<1>4. SubSeq(v, 1, n) = SubSeq(v, 1, n - 1) \o <<v[n]>>
  BY <1>2, SubSeqRecursiveSecond
<1>5. QED BY <1>1, <1>4 DEF n

\* What has been read of an option after some of its strings.
Sofar(number, v, i) == IF number \in Multis THEN SubSeq(v, 1, i) ELSE v
Before(m, P, number, i) ==
  Partly(m, IF i = 0 THEN UpTo(m, P) ELSE With(m, P, number, Sofar(number, m.options[number], i)))

\* Before its first string is read an option is not there.
LEMMA FirstSet ==
  ASSUME NEW m, NEW P, NEW number, number \notin P, NEW now, now = Partly(m, UpTo(m, P))
  PROVE  number \notin DOMAIN now.options
<1>1. Partly(m, UpTo(m, P)).options = UpTo(m, P)
  BY OptionSet
<1>2. number \notin DOMAIN UpTo(m, P)
  BY Has
<1>3. QED BY <1>1, <1>2, Zenon

\* Afterwards it is, with the strings read so far.
LEMMA LaterSet ==
  ASSUME NEW m, NEW P, NEW number, number \notin P, NEW u,
         NEW now, now = Partly(m, With(m, P, number, u))
  PROVE  /\ number \in DOMAIN now.options
         /\ u = now.options[number]
         /\ \A x : SET_OPTION(now, number, x) = Partly(m, With(m, P, number, x))
<1>1. ASSUME NEW x
      PROVE  SET_OPTION(Partly(m, With(m, P, number, u)), number, x) = Partly(m, With(m, P, number, x))
  BY SetOver
<1>2. Partly(m, With(m, P, number, u)).options = With(m, P, number, u)
  BY OptionSet
<1>3. number \in DOMAIN With(m, P, number, u)
  BY Has
<1>4. With(m, P, number, u)[number] = u
  BY HasValue
<1>5. QED BY <1>1, <1>2, <1>3, <1>4, Zenon

\* One string more.
LEMMA NextString ==
  ASSUME NEW m, NEW P, NEW number \in Numbers, number \notin P,
         number \in DOMAIN m.options, m.options[number] \in OptionValue(number),
         NEW strings, strings = Strings(number, m.options[number]), NEW i \in 0 .. Len(strings) - 1
  PROVE  Taken(Before(m, P, number, i), number, strings[i + 1]) = Before(m, P, number, i + 1)
<1> DEFINE v == m.options[number]
           s == strings[i + 1]
           now == Before(m, P, number, i)
           list == With(m, P, number, Sofar(number, v, i))
<1>1. /\ strings \in Seq(ShortString) /\ Len(strings) \in Nat
      /\ number \in Multis => strings = v
      /\ number \notin Multis => Len(strings) = 1 /\ \A x : Taken(x, number, strings[1]) = SET_OPTION(x, number, v)
  <2>1. strings \in Seq(ShortString) => Len(strings) \in Nat
    OBVIOUS
  <2> HIDE DEF v
  <2>2. v \in OptionValue(number) /\ strings = Strings(number, v)
    BY DEF v
  <2>3. QED BY <2>1, <2>2, StringsRead
<1>2. i \in Nat /\ i + 1 \in 1 .. Len(strings) /\ i + 1 # 0
  BY <1>1
<1>3. s \in ShortString
  BY <1>1, <1>2
<1> HIDE DEF v
<1>4. Before(m, P, number, i + 1) = Partly(m, With(m, P, number, Sofar(number, v, i + 1)))
  BY <1>2 DEF Before, v
<1>5. /\ i = 0 => now = Partly(m, UpTo(m, P))
      /\ i # 0 => now = Partly(m, list)
  BY DEF Before, v
<1> HIDE DEF now, s
<1>6. /\ \A x : SET_OPTION(now, number, x) = Partly(m, With(m, P, number, x))
      /\ i = 0 => number \notin DOMAIN now.options
      /\ i # 0 => number \in DOMAIN now.options /\ now.options[number] = Sofar(number, v, i)
  <2> DEFINE u == Sofar(number, v, i)
  <2> HIDE DEF u
  <2>1. /\ i = 0 => now = Partly(m, UpTo(m, P))
        /\ i # 0 => now = Partly(m, With(m, P, number, u))
    BY <1>5 DEF u
  <2>2. CASE i = 0
    <3>1. now = Partly(m, UpTo(m, P))
      BY <2>1, <2>2
    <3>2. number \notin DOMAIN now.options
      BY <3>1, FirstSet
    <3>3. ASSUME NEW x PROVE SET_OPTION(now, number, x) = Partly(m, With(m, P, number, x))
      <4> HIDE DEF list
      <4>1. SET_OPTION(Partly(m, UpTo(m, P)), number, x) = Partly(m, With(m, P, number, x))
        BY SetOver
      <4>2. QED BY <3>1, <4>1, Zenon
    <3>4. QED BY <2>2, <3>2, <3>3, Zenon
  <2>3. CASE i # 0
    <3>1. now = Partly(m, With(m, P, number, u))
      BY <2>1, <2>3
    <3>2. /\ number \in DOMAIN now.options
          /\ u = now.options[number]
          /\ \A x : SET_OPTION(now, number, x) = Partly(m, With(m, P, number, x))
      BY <3>1, LaterSet
    <3>3. QED BY <2>3, <3>2, Zenon DEF u
  <2>4. QED BY <2>2, <2>3, Zenon
<1>7. SET_OPTION(now, number, Sofar(number, v, i + 1)) = Before(m, P, number, i + 1)
  BY <1>4, <1>6, Zenon
<1>8. CASE number \notin Multis
  <2>1. i = 0 /\ i + 1 = 1
    BY <1>1, <1>2, <1>8
  <2>2. s = strings[1]
    BY <2>1 DEF s
  <2>3. Taken(now, number, s) = SET_OPTION(now, number, v)
    BY <1>1, <1>8, <2>2, Zenon
  <2>4. Sofar(number, v, i + 1) = v
    BY <1>8 DEF Sofar
  <2>5. QED BY <1>7, <2>3, <2>4, Zenon DEF now, s
<1>9. CASE number \in Multis
  <2> DEFINE before == IF number \in DOMAIN now.options THEN now.options[number] ELSE <<>>
  <2>1. v \in Seq(ShortString) /\ strings = v
    BY <1>1, <1>9
  <2>2. before = SubSeq(v, 1, i)
    <3>1. CASE i = 0
      <4>1. before = <<>>
        BY <1>6, <3>1
      <4>2. SubSeq(v, 1, i) = <<>>
        BY <2>1, <3>1
      <4>3. QED BY <4>1, <4>2
    <3>2. CASE i # 0
      <4>1. Sofar(number, v, i) = SubSeq(v, 1, i)
        BY <1>9 DEF Sofar
      <4>2. before = Sofar(number, v, i)
        BY <1>6, <3>2, Zenon
      <4>3. QED BY <4>1, <4>2
    <3>3. QED BY <3>1, <3>2
  <2>3. Taken(now, number, s) = SET_OPTION(now, number, before \o <<s>>)
    <3> DEFINE b == before
    <3> HIDE DEF b
    <3>1. b = IF number \in DOMAIN now.options THEN now.options[number] ELSE <<>>
      BY DEF b
    <3>2. Taken(now, number, s) = SET_OPTION(now, number, b \o <<s>>)
      BY <1>3, <1>9, <3>1, StringTaken
    <3>3. QED BY <3>2 DEF b
  <2>4. SubSeq(v, 1, i + 1) = SubSeq(v, 1, i) \o <<s>>
    BY <1>2, <2>1, LongerPrefix DEF s
  <2>5. Sofar(number, v, i + 1) = SubSeq(v, 1, i + 1)
    BY <1>9 DEF Sofar
  <2> HIDE DEF before
  <2>6. Taken(now, number, s) = SET_OPTION(now, number, Sofar(number, v, i + 1))
    BY <2>2, <2>3, <2>4, <2>5, Zenon
  <2>7. QED BY <1>7, <2>6, Zenon DEF now, s
<1>10. QED BY <1>8, <1>9 DEF now, s

\* The reader understands every option that is written.
LEMMA NumbersUnderstood ==
  ASSUME NEW number \in Numbers
  PROVE  Understood(number) /\ number # PROXY_URI /\ number \in Nat /\ number < 64
<1>1. DOMAIN Order = 1 .. 6 /\ Order[1] = OBSERVE /\ Order[2] = LOCATION_PATH /\ Order[3] = URI_PATH
      /\ Order[4] = URI_QUERY /\ Order[5] = BLOCK2 /\ Order[6] = BLOCK1
  BY DEF Order
<1>2. \E k \in DOMAIN Order : Order[k] = number
  <2>1. 1 \in 1 .. 6 /\ 2 \in 1 .. 6 /\ 3 \in 1 .. 6 /\ 4 \in 1 .. 6 /\ 5 \in 1 .. 6 /\ 6 \in 1 .. 6
    OBVIOUS
  <2>2. QED BY <1>1, <2>1, Zenon DEF Numbers
<1>3. Understood(number)
  BY <1>2, Zenon DEF Understood
<1>4. number # PROXY_URI /\ number \in Nat /\ number < 64
  BY DEF Numbers, PROXY_URI, OBSERVE, LOCATION_PATH, URI_PATH, URI_QUERY, BLOCK2, BLOCK1
<1>5. QED BY <1>3, <1>4

\* An option stands at a position, and the next one where this one ends.
Stands(bytes, at, current, number, s, next) ==
  LET delta == number - current
      header == coap_set_option_header(delta, Len(s))
  IN  /\ bytes \in Seq(Byte) /\ at \in Nat \ {0} /\ current \in Nat /\ s \in ShortString
      /\ number \in Nat /\ Understood(number) /\ number # PROXY_URI
      /\ IsField(delta) /\ Holds(bytes, at, header \o s)
      /\ next = at + Len(header) + Len(s) /\ next - 1 <= Len(bytes)

\* One round of the reader takes the string that stands where it is.
LEMMA RoundReads ==
  ASSUME NEW bytes, NEW at, NEW current, NEW number, NEW s, NEW next,
         Stands(bytes, at, current, number, s, next), NEW m
  PROVE  NextOption(bytes, At(m, at, current)) = At(Taken(m, number, s), next, number)
<1> DEFINE delta == number - current
           header == coap_set_option_header(delta, Len(s))
<1>1. /\ bytes \in Seq(Byte) /\ at \in Nat \ {0} /\ current \in Nat /\ s \in ShortString
      /\ number \in Nat /\ Understood(number) /\ number # PROXY_URI
      /\ IsField(delta) /\ Holds(bytes, at, header \o s)
      /\ next = at + Len(header) + Len(s) /\ next - 1 <= Len(bytes)
  BY Zenon DEF Stands
<1>2. number = current + delta
  BY <1>1
<1> HIDE DEF delta
<1>3. header = coap_set_option_header(delta, Len(s))
  OBVIOUS
<1> HIDE DEF header
<1>4. at + Len(header) + Len(s) - 1 <= Len(bytes)
  BY <1>1
<1>5. QED BY <1>1, <1>2, <1>3, <1>4, OneRound

\* An option that is set and has not been read, and the strings it is written as.
Chosen(m, P, number, strings) ==
  /\ number \in Numbers /\ number \notin P
  /\ number \in DOMAIN m.options /\ m.options[number] \in OptionValue(number)
  /\ strings = Strings(number, m.options[number])

\* A round takes the next string of an option.
LEMMA StringRead ==
  ASSUME NEW bytes, NEW start, NEW f, Reads(bytes, start, f),
         NEW m, NEW P, NEW number, NEW strings, Chosen(m, P, number, strings),
         NEW i \in 0 .. Len(strings) - 1,
         NEW at, NEW current, NEW next, Stands(bytes, at, current, number, strings[i + 1], next),
         NEW k \in 0 .. Len(bytes) - 1, Len(bytes) \in Nat,
         f[k] = At(Before(m, P, number, i), at, current)
  PROVE  f[k + 1] = At(Before(m, P, number, i + 1), next, number)
<1> DEFINE now == Before(m, P, number, i)
           s == strings[i + 1]
           j == k + 1
<1>1. Taken(now, number, s) = Before(m, P, number, i + 1)
  <2>1. /\ number \in Numbers /\ number \notin P
        /\ number \in DOMAIN m.options /\ m.options[number] \in OptionValue(number)
        /\ strings = Strings(number, m.options[number])
    BY DEF Chosen
  <2>2. QED BY <2>1, NextString
<1>2. Stands(bytes, at, current, number, s, next)
  OBVIOUS
<1> HIDE DEF now, s
<1>3. NextOption(bytes, At(now, at, current)) = At(Taken(now, number, s), next, number)
  BY <1>2, RoundReads
<1>4. f[k + 1] = NextOption(bytes, f[k])
  <2>1. j \in 1 .. Len(bytes) /\ j - 1 = k
    OBVIOUS
  <2> HIDE DEF j
  <2>2. f[j] = NextOption(bytes, f[j - 1])
    BY <2>1, Zenon DEF Reads
  <2>3. QED BY <2>1, <2>2 DEF j
<1>5. QED BY <1>1, <1>3, <1>4, Zenon DEF now

\* A string of an option with its header.
HeaderOf(number, current, strings, k) ==
  coap_set_option_header(IF k = 1 THEN number - current ELSE 0, Len(strings[k]))
Spelt(number, current, strings, k) ==
  /\ IsField(IF k = 1 THEN number - current ELSE 0)
  /\ HeaderOf(number, current, strings, k) \in Seq(Byte)
  /\ Len(HeaderOf(number, current, strings, k)) >= 1
  /\ strings[k] \in ShortString
  /\ PiecesOf(number, current, strings)[k] = HeaderOf(number, current, strings, k) \o strings[k]
  /\ Len(PiecesOf(number, current, strings)[k]) =
       Len(HeaderOf(number, current, strings, k)) + Len(strings[k])

\* Each piece is the header and the string that belong there.
LEMMA PieceWritten ==
  ASSUME NEW number \in Nat, NEW current \in Nat, current < number, number < 64,
         NEW strings \in Seq(ShortString), NEW k \in 1 .. Len(strings)
  PROVE  Spelt(number, current, strings, k)
<1>1. \A n \in 1 .. Len(strings) :
        LET delta == IF n = 1 THEN number - current ELSE 0
            header == coap_set_option_header(delta, Len(strings[n]))
        IN  /\ IsField(delta) /\ header \in Seq(Byte) /\ Len(header) >= 1
            /\ strings[n] \in ShortString
            /\ PiecesOf(number, current, strings)[n] = header \o strings[n]
            /\ Len(header \o strings[n]) = Len(header) + Len(strings[n])
  BY PiecesWritten, Zenon
<1>2. QED BY <1>1, Zenon DEF Spelt, HeaderOf

\* Sequences, each of which is the one before it and one piece more.
Stack(N, h, pieces) ==
  /\ N \in Nat /\ h \in [0 .. N -> Seq(Byte)] /\ pieces \in [1 .. N -> Seq(Byte)]
  /\ \A n \in 1 .. N : h[n] = h[n - 1] \o pieces[n]
Held(N, h, pieces, bytes, at, n) ==
  /\ Holds(bytes, at + Len(h[n - 1]), pieces[n])
  /\ Len(h[n]) = Len(h[n - 1]) + Len(pieces[n])
  /\ Len(h[n]) <= Len(h[N])
  /\ Len(h[n - 1]) \in Nat /\ Len(h[n]) \in Nat /\ Len(h[N]) \in Nat

\* A sequence that holds a stack of pieces holds each of them in its place.
LEMMA PieceHeld ==
  ASSUME NEW N, NEW h, NEW pieces, Stack(N, h, pieces), NEW bytes, NEW at, Holds(bytes, at, h[N]),
         NEW n \in 1 .. N
  PROVE  Held(N, h, pieces, bytes, at, n)
<1>1. /\ N \in Nat /\ h \in [0 .. N -> Seq(Byte)] /\ pieces \in [1 .. N -> Seq(Byte)]
      /\ \A k \in 1 .. N : h[k] = h[k - 1] \o pieces[k]
  BY DEF Stack
<1>2. n \in 0 .. N /\ n - 1 \in 0 .. N /\ N \in 0 .. N
  BY <1>1
<1>3. /\ \A k \in 0 .. N : Holds(bytes, at, h[k]) /\ Len(h[k]) <= Len(h[N])
      /\ \A k \in 1 .. N : /\ Holds(bytes, at + Len(h[k - 1]), pieces[k])
                            /\ Len(h[k]) = Len(h[k - 1]) + Len(pieces[k])
  BY <1>1, Pieces
<1>4. \A k \in 0 .. N : Len(h[k]) \in Nat
  BY <1>1
<1>5. QED BY <1>2, <1>3, <1>4, Zenon DEF Held

\* The strings of an option stand one behind the other.
StandsAt(bytes, at, number, current, strings, h, k) ==
  /\ Stands(bytes, at + Len(h[k - 1]), IF k = 1 THEN current ELSE number, number,
            strings[k], at + Len(h[k]))
  /\ Len(h[k - 1]) \in Nat /\ Len(h[k]) \in Nat
  /\ Len(h[k - 1]) < Len(h[k]) /\ at + Len(h[k]) - 1 <= Len(bytes)

\* Where an option was written each of its strings stands in its place.
LEMMA StringsStand ==
  ASSUME NEW bytes \in Seq(Byte), NEW at \in Nat \ {0}, NEW number \in Numbers,
         NEW current \in Nat, current < number, NEW strings \in Seq(ShortString),
         NEW N, N = Len(strings), NEW h, Stack(N, h, PiecesOf(number, current, strings)),
         Holds(bytes, at, h[N]), at + Len(h[N]) - 1 <= Len(bytes), NEW k \in 1 .. N
  PROVE  StandsAt(bytes, at, number, current, strings, h, k)
<1> DEFINE pieces == PiecesOf(number, current, strings)
           s == strings[k]
           header == HeaderOf(number, current, strings, k)
           c == IF k = 1 THEN current ELSE number
           a == Len(h[k - 1])
           b == Len(h[k])
           d == Len(h[N])
<1>1. number \in Nat /\ number < 64 /\ Understood(number) /\ number # PROXY_URI
  BY NumbersUnderstood
<1>2. Spelt(number, current, strings, k)
  BY <1>1, PieceWritten
<1>3. Held(N, h, pieces, bytes, at, k)
  <2> HIDE DEF pieces
  <2>1. QED BY PieceHeld DEF pieces
<1>4. k \in Nat /\ Len(bytes) \in Nat /\ c \in Nat
      /\ (IF k = 1 THEN number - current ELSE 0) = number - c
  BY <1>1
<1>5. /\ header \in Seq(Byte) /\ Len(header) >= 1 /\ s \in ShortString
      /\ pieces[k] = header \o s /\ Len(pieces[k]) = Len(header) + Len(s)
      /\ IsField(number - c) /\ header = coap_set_option_header(number - c, Len(s))
  <2> DEFINE delta == IF k = 1 THEN number - current ELSE 0
  <2>1. delta = number - c
    BY <1>4
  <2>2. /\ header \in Seq(Byte) /\ Len(header) >= 1 /\ s \in ShortString
        /\ pieces[k] = header \o s /\ Len(pieces[k]) = Len(header) + Len(s)
        /\ IsField(delta)
    BY <1>2, Zenon DEF Spelt
  <2>3. header = coap_set_option_header(delta, Len(s))
    BY Zenon DEF HeaderOf
  <2> HIDE DEF delta, c, s, header, pieces
  <2>4. QED BY <2>1, <2>2, <2>3, Zenon
<1>6. /\ Holds(bytes, at + a, pieces[k]) /\ b = a + Len(pieces[k]) /\ b <= d
      /\ a \in Nat /\ b \in Nat /\ d \in Nat /\ at + d - 1 <= Len(bytes)
  BY <1>3, Zenon DEF Held
<1> HIDE DEF pieces, s, header, c, a, b, d
<1>7. Len(header) \in Nat /\ s \in Seq(Byte) /\ Len(s) \in Nat
  BY <1>5 DEF ShortString
<1>8. /\ at + b = (at + a) + Len(header) + Len(s) /\ at + a \in Nat \ {0}
      /\ at + b - 1 <= Len(bytes) /\ a < b
  <2>1. b = a + (Len(header) + Len(s))
    BY <1>5, <1>6
  <2>2. QED BY <1>4, <1>5, <1>6, <1>7, <2>1
<1>9. Holds(bytes, at + a, header \o s)
  BY <1>5, <1>6
<1>10. Stands(bytes, at + a, c, number, s, at + b)
  <2> DEFINE x == coap_set_option_header(number - c, Len(s))
  <2> HIDE DEF x
  <2>1. header = x
    BY <1>5 DEF x
  <2>2. Holds(bytes, at + a, x \o s) /\ at + b = (at + a) + Len(x) + Len(s)
    BY <1>8, <1>9, <2>1
  <2>3. at + a \in Nat \ {0}
    BY <1>8
  <2>4. c \in Nat
    BY <1>4
  <2>5. s \in ShortString /\ IsField(number - c)
    BY <1>5
  <2>6. (at + b) - 1 <= Len(bytes)
    BY <1>4, <1>6, <1>8
  <2>7. QED BY <1>1, <2>2, <2>3, <2>4, <2>5, <2>6, Zenon DEF Stands, x
<1>11. QED BY <1>6, <1>8, <1>10, Zenon DEF StandsAt, a, b, c, s
\* The loop has come to where a string of the option begins, or to the end of the last,
\* in no more rounds than it has passed bytes.
ReadTo(f, first, at, number, current, h, m, P, i) ==
  \E k \in 0 .. first + Len(h[i]) :
    f[k] = At(Before(m, P, number, i), at + Len(h[i]), IF i = 0 THEN current ELSE number)

\* A reader that has taken some strings of an option takes the next one.
LEMMA NextRead ==
  ASSUME NEW bytes \in Seq(Byte), NEW start, NEW f, Reads(bytes, start, f),
         NEW m, NEW P, NEW number, NEW strings, Chosen(m, P, number, strings), NEW i \in 0 .. Len(strings) - 1,
         NEW at \in Nat, NEW first \in Nat, first < at, NEW current, NEW h,
         StandsAt(bytes, at, number, current, strings, h, i + 1),
         ReadTo(f, first, at, number, current, h, m, P, i)
  PROVE  ReadTo(f, first, at, number, current, h, m, P, i + 1)
<1> DEFINE j == i + 1
           c == IF i = 0 THEN current ELSE number
           a == Len(h[i])
           b == Len(h[j])
           now == Before(m, P, number, i)
           then == Before(m, P, number, j)
           s == strings[j]
<1>1. i \in Nat /\ j - 1 = i /\ j # 0 /\ (j = 1 <=> i = 0) /\ Len(bytes) \in Nat
  <2> DEFINE v == m.options[number]
  <2>1. number \in Numbers /\ v \in OptionValue(number) /\ strings = Strings(number, v)
    BY DEF Chosen
  <2> HIDE DEF v
  <2>2. strings \in Seq(ShortString)
    BY <2>1, StringsRead
  <2>3. Len(strings) \in Nat
    BY <2>2
  <2>4. QED BY <2>3
<1>2. PICK k \in 0 .. first + a : f[k] = At(now, at + a, c)
  BY Zenon DEF ReadTo
<1> HIDE DEF j
<1>3. /\ Stands(bytes, at + Len(h[j - 1]), IF j = 1 THEN current ELSE number, number, s, at + b)
      /\ Len(h[j - 1]) \in Nat /\ b \in Nat /\ Len(h[j - 1]) < b /\ at + b - 1 <= Len(bytes)
  <2>1. StandsAt(bytes, at, number, current, strings, h, j)
    BY DEF j
  <2>2. QED BY <2>1, Zenon DEF StandsAt
<1>4. Stands(bytes, at + a, c, number, s, at + b) /\ a \in Nat /\ b \in Nat /\ a < b
  <2>1. (IF j = 1 THEN current ELSE number) = c /\ h[j - 1] = h[i]
    BY <1>1
  <2>2. QED BY <1>3, <2>1, Zenon
<1> HIDE DEF a, b, c, now, then, s
<1>5. k \in 0 .. Len(bytes) - 1
  BY <1>1, <1>2, <1>3, <1>4
<1>6. f[k + 1] = At(Before(m, P, number, i + 1), at + b, number)
  <2>1. Stands(bytes, at + a, c, number, strings[i + 1], at + b)
    BY <1>4 DEF s, j
  <2>2. f[k] = At(Before(m, P, number, i), at + a, c)
    BY <1>2 DEF now
  <2> DEFINE here == at + a
             next == at + b
  <2>3. f[k] = At(Before(m, P, number, i), here, c) /\ Stands(bytes, here, c, number, strings[i + 1], next)
    BY <2>1, <2>2
  <2> HIDE DEF here, next
  <2>4. f[k + 1] = At(Before(m, P, number, i + 1), next, number)
    BY <1>1, <1>5, <2>3, StringRead
  <2>5. QED BY <2>4 DEF next
<1>7. k + 1 \in 0 .. first + b
  BY <1>2, <1>4
<1>8. f[k + 1] = At(then, at + b, IF j = 0 THEN current ELSE number)
  BY <1>1, <1>6, Zenon DEF then, j
<1>9. ReadTo(f, first, at, number, current, h, m, P, j)
  BY <1>7, <1>8, Zenon DEF ReadTo, b, then
<1>10. QED BY <1>9 DEF j

\* All strings of an option have been read.
LEMMA ListRead ==
  ASSUME NEW bytes \in Seq(Byte), NEW start, NEW f, Reads(bytes, start, f),
         NEW m, NEW P, NEW number, NEW strings, Chosen(m, P, number, strings),
         NEW at \in Nat, NEW first \in Nat, first < at, NEW current, NEW h,
         \A k \in 1 .. Len(strings) : StandsAt(bytes, at, number, current, strings, h, k),
         ReadTo(f, first, at, number, current, h, m, P, 0)
  PROVE  ReadTo(f, first, at, number, current, h, m, P, Len(strings))
<1> DEFINE N == Len(strings)
           T == {i \in 0 .. N : ReadTo(f, first, at, number, current, h, m, P, i)}
<1>1. N \in Nat
  <2> DEFINE v == m.options[number]
  <2>1. number \in Numbers /\ v \in OptionValue(number) /\ strings = Strings(number, v)
    BY DEF Chosen
  <2> HIDE DEF v
  <2>2. strings \in Seq(ShortString)
    BY <2>1, StringsRead
  <2>3. QED BY <2>2
<1>2. 0 \in T
  BY <1>1
<1>3. ASSUME NEW i \in T, i \in Nat, i < N PROVE i + 1 \in T
  <2>1. i \in 0 .. Len(strings) - 1 /\ i + 1 \in 1 .. Len(strings) /\ i + 1 \in 0 .. N
        /\ ReadTo(f, first, at, number, current, h, m, P, i)
    BY <1>1, <1>3
  <2> DEFINE j == i + 1
  <2>2. StandsAt(bytes, at, number, current, strings, h, i + 1)
    <3>1. j \in 1 .. Len(strings)
      BY <2>1
    <3> HIDE DEF j
    <3>2. StandsAt(bytes, at, number, current, strings, h, j)
      BY <3>1
    <3>3. QED BY <3>2 DEF j
  <2>3. ReadTo(f, first, at, number, current, h, m, P, i + 1)
    BY <2>1, <2>2, NextRead
  <2>4. QED BY <2>1, <2>3
<1>4. \A i \in 0 .. N : i \in T
  <2> HIDE DEF T, N
  <2>1. QED BY <1>1, <1>2, <1>3, Upwards
<1>5. N \in 0 .. N
  BY <1>1
<1>6. QED BY <1>4, <1>5

\* With its last string an option is what it was.
LEMMA WholeRead ==
  ASSUME NEW m, NEW P, NEW number, NEW strings, Chosen(m, P, number, strings)
  PROVE  Before(m, P, number, Len(strings)) = Partly(m, UpTo(m, P \cup {number}))
<1> DEFINE v == m.options[number]
           N == Len(strings)
<1>1. /\ number \in Numbers /\ number \notin P
      /\ number \in DOMAIN m.options /\ v \in OptionValue(number)
      /\ strings = Strings(number, v)
  BY DEF Chosen
<1> HIDE DEF v
<1>2. strings \in Seq(ShortString) /\ N >= 1 /\ (number \in Multis => strings = v)
  BY <1>1, StringsRead
<1>3. N # 0 /\ N \in Nat
  BY <1>2
<1>4. Sofar(number, v, N) = v
  <2>1. CASE number \in Multis
    <3>1. SubSeq(v, 1, N) = v
      BY <1>2, <2>1, SubSeqFull
    <3>2. QED BY <2>1, <3>1 DEF Sofar
  <2>2. CASE number \notin Multis
    BY <2>2 DEF Sofar
  <2>3. QED BY <2>1, <2>2
<1>5. With(m, P, number, v) = UpTo(m, P \cup {number})
  <2>1. (DOMAIN m.options \cap P) \cup {number} = DOMAIN m.options \cap (P \cup {number})
    BY <1>1
  <2>2. \A n : (IF n = number THEN v ELSE m.options[n]) = m.options[n]
    BY DEF v
  <2> HIDE DEF N
  <2>3. QED BY <2>1, <2>2, Zenon DEF With, UpTo
<1> HIDE DEF N
<1>6. Before(m, P, number, N) = Partly(m, With(m, P, number, Sofar(number, v, N)))
  BY <1>3 DEF Before, v
<1>7. QED BY <1>4, <1>5, <1>6, Zenon DEF N

\* The loop has come behind what is written here, and has read the options in P.
Arrived(f, base, w, m, P) ==
  \E k \in 0 .. Len(w.bytes) : f[k] = At(Partly(m, UpTo(m, P)), base + Len(w.bytes), w.current)

Counted(number, current, strings) ==
  /\ PiecesOf(number, current, strings) \in Seq(Seq(Byte))
  /\ Len(PiecesOf(number, current, strings)) = Len(strings)

\* There are as many pieces as strings, and they are bytes.
LEMMA PiecesCounted ==
  ASSUME NEW number \in Nat, NEW current \in Nat, current < number, number < 64,
         NEW strings \in Seq(ShortString)
  PROVE  Counted(number, current, strings)
<1>1. PiecesOf(number, current, strings) \in Seq(Seq(Byte))
  BY PiecesWritten
<1>2. Len(PiecesOf(number, current, strings)) = Len(strings)
  BY PiecesWritten
<1>3. QED BY <1>1, <1>2 DEF Counted

\* An option is read as it was written.
LEMMA OptionRead ==
  ASSUME NEW bytes \in Seq(Byte), NEW start, NEW f, Reads(bytes, start, f),
         NEW m, NEW P, NEW number \in Numbers, number \notin P,
         number \in DOMAIN m.options => m.options[number] \in OptionValue(number),
         NEW w, WrittenUpTo(w, number), NEW after, after = WithOption(m.options, number, w),
         NEW base \in Nat \ {0}, Holds(bytes, base, after.bytes),
         base + Len(after.bytes) - 1 <= Len(bytes), Arrived(f, base, w, m, P)
  PROVE  Arrived(f, base, after, m, P \cup {number})
<1> DEFINE D == DOMAIN m.options
<1>1. CASE number \notin D
  <2>1. after = w
    BY <1>1 DEF WithOption
  <2>2. UpTo(m, P \cup {number}) = UpTo(m, P)
    <3>1. D \cap (P \cup {number}) = D \cap P
      BY <1>1
    <3> HIDE DEF D
    <3>2. QED BY <3>1, Zenon DEF UpTo, D
  <2>3. QED BY <2>1, <2>2, Zenon DEF Arrived
<1>2. CASE number \in D
  <2> DEFINE strings == Strings(number, m.options[number])
             added == coap_serialize_option(number, w.current, strings)
             pieces == PiecesOf(number, w.current, strings)
             N == Len(strings)
             first == Len(w.bytes)
             at == base + first
             c == w.current
  <2>1. after = [bytes |-> w.bytes \o added, current |-> number]
    BY <1>2, Zenon DEF WithOption
  <2>2. strings \in Seq(ShortString)
    BY <1>2, StringsRead
  <2>3. Chosen(m, P, number, strings)
    BY <1>2, Zenon DEF Chosen
  <2> HIDE DEF strings
  <2>4. w.bytes \in Seq(Byte) /\ c \in Nat /\ c < number
    BY DEF WrittenUpTo
  <2>5. number \in Nat /\ number < 64
    BY NumbersUnderstood
  <2>6. pieces \in Seq(Seq(Byte)) /\ Len(pieces) = N
    <3> HIDE DEF added, first, at, N
    <3>1. Counted(number, c, strings)
      BY <2>2, <2>4, <2>5, PiecesCounted
    <3>2. QED BY <3>1, Zenon DEF Counted, N
  <2>7. added = Flat(pieces)
    BY DEF coap_serialize_option, PiecesOf
  <2> HIDE DEF pieces
  <2>8. PICK h \in [0 .. Len(pieces) -> Seq(Byte)] :
          /\ h[0] = <<>>
          /\ \A k \in 1 .. Len(pieces) : h[k] = h[k - 1] \o pieces[k]
          /\ Flat(pieces) = h[Len(pieces)]
    BY <2>6, FlatCourse
  <2>9. N \in Nat /\ first \in Nat /\ at \in Nat \ {0} /\ first < at
    BY <2>2, <2>4
  <2>10. Stack(N, h, pieces) /\ added = h[N]
    <3> DEFINE S == Seq(Byte)
    <3>1. pieces \in Seq(S)
      BY <2>6
    <3> HIDE DEF S
    <3>2. pieces \in [1 .. N -> S]
      BY <2>6, <3>1
    <3>3. pieces \in [1 .. N -> Seq(Byte)]
      BY <3>2 DEF S
    <3> HIDE DEF N, added
    <3>4. h \in [0 .. N -> Seq(Byte)] /\ (\A k \in 1 .. N : h[k] = h[k - 1] \o pieces[k]) /\ added = h[N]
      BY <2>6, <2>7, <2>8, Zenon
    <3>5. QED BY <2>9, <3>3, <3>4, Zenon DEF Stack
  <2> HIDE DEF N, added
  <2>11. h[N] \in Seq(Byte)
    <3>1. N \in 0 .. N
      BY <2>9
    <3>2. QED BY <2>10, <3>1, Zenon DEF Stack
  <2>12. /\ Holds(bytes, at, h[N]) /\ at + Len(h[N]) - 1 <= Len(bytes)
         /\ Len(after.bytes) = first + Len(h[N]) /\ after.current = number
    <3> DEFINE a == w.bytes
               b == h[N]
    <3>1. a \in Seq(Byte) /\ b \in Seq(Byte) /\ after.bytes = a \o b /\ after.current = number
      <4>1. a \in Seq(Byte) /\ b \in Seq(Byte) /\ added = b
        BY <2>4, <2>10, <2>11
      <4>2. after.bytes = a \o added /\ after.current = number
        BY <2>1
      <4> HIDE DEF a, b
      <4>3. QED BY <4>1, <4>2
    <3> HIDE DEF a, b
    <3>2. Len(a \o b) = Len(a) + Len(b) /\ Len(a) \in Nat /\ Len(b) \in Nat /\ Len(bytes) \in Nat
      BY <3>1
    <3>3. Holds(bytes, base, a) /\ Holds(bytes, base + Len(a), b)
      BY <3>1, HoldsBoth
    <3>4. (base + Len(a)) + Len(b) - 1 <= Len(bytes)
      BY <3>1, <3>2
    <3>5. QED BY <3>1, <3>2, <3>3, <3>4 DEF a, b
  <2>13. \A k \in 1 .. N : StandsAt(bytes, at, number, c, strings, h, k)
    <3> SUFFICES ASSUME NEW k \in 1 .. N PROVE StandsAt(bytes, at, number, c, strings, h, k)
      OBVIOUS
    <3>1. N = Len(strings) /\ Stack(N, h, PiecesOf(number, c, strings))
      BY <2>10 DEF N, pieces
    <3> HIDE DEF at, c, first
    <3>2. QED BY <2>2, <2>4, <2>9, <2>12, <3>1, StringsStand
  <2>14. ReadTo(f, first, at, number, c, h, m, P, 0)
    <3>1. PICK k \in 0 .. first : f[k] = At(Partly(m, UpTo(m, P)), at, c)
      BY Zenon DEF Arrived
    <3>2. Len(h[0]) = 0
      BY <2>8
    <3>3. first + Len(h[0]) = first /\ at + Len(h[0]) = at
      BY <2>9, <3>2
    <3>4. Before(m, P, number, 0) = Partly(m, UpTo(m, P))
      BY DEF Before
    <3> HIDE DEF first, at, c
    <3>5. QED BY <3>1, <3>3, <3>4, Zenon DEF ReadTo
  <2> HIDE DEF first, at, c
  <2>15. ReadTo(f, first, at, number, c, h, m, P, N)
    BY <2>3, <2>9, <2>13, <2>14, ListRead DEF N
  <2>16. Before(m, P, number, N) = Partly(m, UpTo(m, P \cup {number}))
    BY <2>3, WholeRead, Zenon DEF N
  <2>17. PICK k \in 0 .. first + Len(h[N]) :
           f[k] = At(Partly(m, UpTo(m, P \cup {number})), at + Len(h[N]), number)
    <3>1. N # 0
      <4>1. Len(strings) >= 1
        BY <1>2, StringsRead DEF strings
      <4>2. QED BY <2>9, <4>1 DEF N
    <3>2. QED BY <2>15, <2>16, <3>1, Zenon DEF ReadTo
  <2>18. base + Len(after.bytes) = at + Len(h[N])
    <3> DEFINE y == Len(h[N])
    <3>1. y \in Nat
      BY <2>11
    <3>2. Len(after.bytes) = first + y
      BY <2>12
    <3> HIDE DEF y
    <3>3. base + Len(after.bytes) = at + y
      BY <2>9, <3>1, <3>2 DEF at
    <3>4. QED BY <3>3 DEF y
  <2>19. QED BY <2>12, <2>17, <2>18, Zenon DEF Arrived
<1>3. QED BY <1>1, <1>2

\* The order in which options are written is that of their numbers and names each of them.
LEMMA OrderFacts ==
  /\ Len(Order) = 6
  /\ \A k \in 1 .. 6 : Order[k] \in Numbers /\ Order[k] \in Nat /\ Order[k] >= 1
  /\ \A k \in 1 .. 6 : \A j \in 1 .. 6 : j < k => Order[j] < Order[k]
  /\ \A n \in Numbers : \E k \in 1 .. 6 : n = Order[k]
<1>1. /\ Order[1] = 6 /\ Order[2] = 8 /\ Order[3] = 11 /\ Order[4] = 15 /\ Order[5] = 23 /\ Order[6] = 27
      /\ Len(Order) = 6 /\ Numbers = {6, 8, 11, 15, 23, 27}
  BY DEF Order, Numbers, OBSERVE, LOCATION_PATH, URI_PATH, URI_QUERY, BLOCK2, BLOCK1
<1> DEFINE Kth(k) == Order[k]
<1>2. /\ Kth(1) = 6 /\ Kth(2) = 8 /\ Kth(3) = 11 /\ Kth(4) = 15 /\ Kth(5) = 23 /\ Kth(6) = 27
  BY <1>1
<1>3. \A k \in 1 .. 6 : k = 1 \/ k = 2 \/ k = 3 \/ k = 4 \/ k = 5 \/ k = 6
  OBVIOUS
<1>4. \A k \in 1 .. 6 : Order[k] \in Numbers /\ Order[k] \in Nat /\ Order[k] >= 1
  BY <1>1, <1>3
<1>5. \A k \in 1 .. 6 : \A j \in 1 .. 6 : j < k => Order[j] < Order[k]
  BY <1>1, <1>3
<1>6. \A n \in Numbers : \E k \in 1 .. 6 : n = Order[k]
  <2> SUFFICES ASSUME NEW n \in Numbers PROVE \E k \in 1 .. 6 : n = Order[k]
    OBVIOUS
  <2>1. 1 \in 1 .. 6 /\ 2 \in 1 .. 6 /\ 3 \in 1 .. 6 /\ 4 \in 1 .. 6 /\ 5 \in 1 .. 6 /\ 6 \in 1 .. 6
    OBVIOUS
  <2>2. n = 6 \/ n = 8 \/ n = 11 \/ n = 15 \/ n = 23 \/ n = 27
    BY <1>1
  <2>3. QED BY <1>1, <2>1, <2>2, Zenon
<1>7. QED BY <1>1, <1>4, <1>5, <1>6

\* The bytes after each option.
Steps(options, w) ==
  /\ w[0] = [bytes |-> <<>>, current |-> 0]
  /\ \A k \in 1 .. 6 : w[k] = WithOption(options, Order[k], w[k - 1])

\* Writing the options is six steps, one for each number.
LEMMA OptionsCourse ==
  ASSUME NEW options
  PROVE  \E w : Steps(options, w) /\ coap_serialize_options(options) = w[6].bytes
<1> DEFINE start == [bytes |-> <<>>, current |-> 0]
           Step(o) == [k \in 0 .. Len(Order) |->
                         IF k = 0 THEN start ELSE WithOption(options, Order[k], o[k - 1])]
           out == CHOOSE o : o = Step(o)
           w0 == start
           w1 == WithOption(options, Order[1], w0)
           w2 == WithOption(options, Order[2], w1)
           w3 == WithOption(options, Order[3], w2)
           w4 == WithOption(options, Order[4], w3)
           w5 == WithOption(options, Order[5], w4)
           w6 == WithOption(options, Order[6], w5)
           Value(k) == IF k = 0 THEN w0 ELSE IF k = 1 THEN w1 ELSE IF k = 2 THEN w2
                       ELSE IF k = 3 THEN w3 ELSE IF k = 4 THEN w4 ELSE IF k = 5 THEN w5 ELSE w6
           g == [k \in 0 .. 6 |-> Value(k)]
<1>1. Len(Order) = 6
  BY OrderFacts
<1>2. g = Step(g)
  <2> HIDE DEF start
  <2>1. w0 = start /\ w1 = WithOption(options, Order[1], w0) /\ w2 = WithOption(options, Order[2], w1)
        /\ w3 = WithOption(options, Order[3], w2) /\ w4 = WithOption(options, Order[4], w3)
        /\ w5 = WithOption(options, Order[5], w4) /\ w6 = WithOption(options, Order[6], w5)
    OBVIOUS
  <2> HIDE DEF w0, w1, w2, w3, w4, w5, w6
  <2>2. /\ g[0] = w0 /\ g[1] = w1 /\ g[2] = w2 /\ g[3] = w3 /\ g[4] = w4 /\ g[5] = w5 /\ g[6] = w6
        /\ 1 - 1 = 0 /\ 2 - 1 = 1 /\ 3 - 1 = 2 /\ 4 - 1 = 3 /\ 5 - 1 = 4 /\ 6 - 1 = 5
        /\ 1 # 0 /\ 2 # 0 /\ 3 # 0 /\ 4 # 0 /\ 5 # 0 /\ 6 # 0
    OBVIOUS
  <2>3. \A k \in 0 .. 6 : k = 0 \/ k = 1 \/ k = 2 \/ k = 3 \/ k = 4 \/ k = 5 \/ k = 6
    OBVIOUS
  <2>4. g = [k \in 0 .. 6 |-> g[k]]
    BY Zenon
  <2> HIDE DEF g, Value
  <2>5. \A k \in 0 .. 6 : g[k] = IF k = 0 THEN start ELSE WithOption(options, Order[k], g[k - 1])
    BY <2>1, <2>2, <2>3, Zenon
  <2>6. QED BY <1>1, <2>4, <2>5, Zenon
<1> HIDE DEF g, start
<1>3. out = Step(out)
  <2> HIDE DEF Step
  <2>1. \E o : o = Step(o)
    BY <1>2
  <2>2. QED BY <2>1, Zenon
<1>4. coap_serialize_options(options) = out[Len(Order)].bytes
  BY Zenon DEF coap_serialize_options, start
<1> HIDE DEF out
<1>5. out[0] = start /\ \A k \in 1 .. 6 : out[k] = WithOption(options, Order[k], out[k - 1])
  <2>1. \A k \in 1 .. 6 : k \in 0 .. 6 /\ k # 0
    OBVIOUS
  <2>2. 0 \in 0 .. 6
    OBVIOUS
  <2>3. out[0] = Step(out)[0] /\ \A k \in 1 .. 6 : out[k] = Step(out)[k]
    BY <1>3, Zenon
  <2>4. Step(out)[0] = start
    BY <1>1, <2>2
  <2>5. ASSUME NEW k \in 1 .. 6 PROVE Step(out)[k] = WithOption(options, Order[k], out[k - 1])
    BY <1>1, <2>1, Zenon
  <2>6. QED BY <2>3, <2>4, <2>5, Zenon
<1>6. QED BY <1>1, <1>4, <1>5, Zenon DEF Steps, start

\* All of them have values that can be written.
Typed(options) == \A n \in DOMAIN options : n \in Numbers /\ options[n] \in OptionValue(n)
Following(k) == IF k < 6 THEN Order[k + 1] ELSE 64
Adds(w, after) ==
  /\ Len(w.bytes) <= Len(after.bytes)
  /\ \A bytes, base : Holds(bytes, base, after.bytes) => Holds(bytes, base, w.bytes)

\* One of these steps keeps the bytes and the last number written what they should be.
LEMMA OneMore ==
  ASSUME NEW options, Typed(options), NEW w, Steps(options, w), NEW k \in 1 .. 6,
         WrittenUpTo(w[k - 1], Order[k])
  PROVE  WrittenUpTo(w[k], Order[k] + 1) /\ Adds(w[k - 1], w[k])
<1> DEFINE number == Order[k]
           a == w[k - 1]
           after == w[k]
<1>1. number \in Numbers /\ (number \in DOMAIN options => options[number] \in OptionValue(number))
  BY OrderFacts DEF Typed
<1>2. after = WithOption(options, number, a) /\ WrittenUpTo(a, number)
  BY DEF Steps
<1> HIDE DEF number, a, after
<1>3. /\ WrittenUpTo(after, number + 1) /\ Len(a.bytes) <= Len(after.bytes)
      /\ \A bytes, base : Holds(bytes, base, after.bytes) => Holds(bytes, base, a.bytes)
  BY <1>1, <1>2, OptionAdds
<1>4. QED BY <1>3, Zenon DEF Adds, number, a, after

\* All of them do.
LEMMA OptionsTyped ==
  ASSUME NEW options, Typed(options), NEW w, Steps(options, w)
  PROVE  /\ \A k \in 0 .. 6 : WrittenUpTo(w[k], Following(k))
         /\ \A k \in 1 .. 6 : WrittenUpTo(w[k - 1], Order[k]) /\ Adds(w[k - 1], w[k])
<1> DEFINE T == {k \in 0 .. 6 : WrittenUpTo(w[k], Following(k))}
<1>1. 0 \in T
  <2>1. w[0] = [bytes |-> <<>>, current |-> 0]
    BY DEF Steps
  <2>2. Following(0) \in Nat /\ 0 < Following(0)
    BY OrderFacts DEF Following
  <2>3. <<>> \in Seq(Byte)
    OBVIOUS
  <2>4. WrittenUpTo(w[0], Following(0))
    <3> DEFINE empty == <<>>
    <3>1. w[0] = [bytes |-> empty, current |-> 0] /\ empty \in Seq(Byte)
      BY <2>1, <2>3
    <3> HIDE DEF empty
    <3>2. QED BY <2>2, <3>1 DEF WrittenUpTo
  <2>5. QED BY <2>4
<1>2. ASSUME NEW k \in 0 .. 5, WrittenUpTo(w[k], Following(k))
      PROVE  WrittenUpTo(w[k], Order[k + 1])
  BY <1>2 DEF Following
<1>3. ASSUME NEW k \in T, k \in Nat, k < 6 PROVE k + 1 \in T
  <2> DEFINE j == k + 1
  <2>1. j \in 1 .. 6 /\ j - 1 = k /\ k \in 0 .. 5 /\ j \in Nat
    BY <1>3
  <2>2. WrittenUpTo(w[k], Order[j])
    BY <1>2, <2>1
  <2> HIDE DEF j
  <2>3. WrittenUpTo(w[j], Order[j] + 1)
    BY <2>1, <2>2, OneMore
  <2>4. Order[j] + 1 <= Following(j) /\ Following(j) \in Nat /\ Order[j] \in Nat
    <3>1. CASE j < 6
      <4>1. j + 1 \in 1 .. 6 /\ j < j + 1
        BY <2>1, <3>1
      <4>2. Order[j] < Order[j + 1] /\ Order[j] \in Nat /\ Order[j + 1] \in Nat
        BY <2>1, <4>1, OrderFacts
      <4>3. QED BY <3>1, <4>2 DEF Following
    <3>2. CASE ~(j < 6)
      <4>1. Order[j] \in Nat /\ Order[j] < 64
        BY <2>1, OrderFacts, NumbersUnderstood
      <4>2. QED BY <3>2, <4>1 DEF Following
    <3>3. QED BY <3>1, <3>2
  <2>5. WrittenUpTo(w[j], Following(j))
    BY <2>3, <2>4 DEF WrittenUpTo
  <2>6. j \in T
    BY <2>1, <2>5
  <2>7. QED BY <2>6 DEF j
<1>4. \A k \in 0 .. 6 : k \in T
  <2> HIDE DEF T
  <2>1. QED BY <1>1, <1>3, Upwards
<1>5. ASSUME NEW k \in 1 .. 6
      PROVE  WrittenUpTo(w[k - 1], Order[k]) /\ Adds(w[k - 1], w[k])
  <2> DEFINE j == k - 1
  <2>1. j \in 0 .. 5 /\ j \in 0 .. 6 /\ j + 1 = k
    OBVIOUS
  <2> HIDE DEF j
  <2>2. WrittenUpTo(w[j], Order[k])
    BY <1>2, <1>4, <2>1
  <2>3. QED BY <2>2, OneMore DEF j
<1>6. QED BY <1>4, <1>5

\* What is written stays as it is when more is written.
LEMMA OptionsHeld ==
  ASSUME NEW options, Typed(options), NEW w, Steps(options, w),
         NEW bytes, NEW base, Holds(bytes, base, w[6].bytes)
  PROVE  \A k \in 0 .. 6 : Holds(bytes, base, w[k].bytes) /\ Len(w[k].bytes) <= Len(w[6].bytes)
<1> DEFINE Fits(k) == Holds(bytes, base, w[k].bytes) /\ Len(w[k].bytes) <= Len(w[6].bytes)
           T == {n \in 0 .. 6 : Fits(6 - n)}
<1>1. \A k \in 0 .. 6 : Len(w[k].bytes) \in Nat
  <2> SUFFICES ASSUME NEW k \in 0 .. 6 PROVE Len(w[k].bytes) \in Nat
    OBVIOUS
  <2>1. WrittenUpTo(w[k], Following(k))
    BY OptionsTyped
  <2>2. w[k].bytes \in Seq(Byte)
    BY <2>1, Zenon DEF WrittenUpTo
  <2>3. QED BY <2>2
<1>2. ASSUME NEW k \in 1 .. 6, Fits(k) PROVE Fits(k - 1)
  <2> DEFINE j == k - 1
  <2>1. Adds(w[j], w[k])
    BY OptionsTyped
  <2>2. j \in 0 .. 6 /\ k \in 0 .. 6 /\ 6 \in 0 .. 6
    OBVIOUS
  <2> HIDE DEF j
  <2>3. Holds(bytes, base, w[j].bytes) /\ Len(w[j].bytes) <= Len(w[k].bytes)
    BY <1>2, <2>1, Zenon DEF Adds
  <2>4. Fits(j)
    <3> DEFINE a == Len(w[j].bytes)
               b == Len(w[k].bytes)
               c == Len(w[6].bytes)
    <3>1. a <= b /\ b <= c /\ a \in Nat /\ b \in Nat /\ c \in Nat
      BY <1>1, <1>2, <2>2, <2>3, Zenon
    <3> HIDE DEF a, b, c
    <3>2. a <= c
      BY <3>1
    <3>3. QED BY <2>3, <3>2 DEF a, c
  <2>5. QED BY <2>4 DEF j
<1>3. 0 \in T
  <2>1. 6 - 0 = 6 /\ 6 \in 0 .. 6
    OBVIOUS
  <2>2. Fits(6)
    BY <1>1, <2>1
  <2>3. QED BY <2>1, <2>2
<1>4. ASSUME NEW n \in T, n \in Nat, n < 6 PROVE n + 1 \in T
  <2>1. 6 - n \in 1 .. 6 /\ 6 - n - 1 = 6 - (n + 1) /\ n + 1 \in 0 .. 6
    BY <1>4
  <2>2. Fits(6 - n)
    OBVIOUS
  <2> HIDE DEF Fits
  <2>3. Fits(6 - n - 1)
    BY <1>2, <2>1, <2>2
  <2>4. QED BY <2>1, <2>3
<1>5. \A n \in 0 .. 6 : n \in T
  <2> HIDE DEF T
  <2>1. QED BY <1>3, <1>4, Upwards
<1>6. ASSUME NEW k \in 0 .. 6 PROVE Fits(k)
  <2>1. 6 - k \in 0 .. 6 /\ 6 - (6 - k) = k
    OBVIOUS
  <2> HIDE DEF Fits
  <2>2. Fits(6 - (6 - k))
    BY <1>5, <2>1
  <2>3. QED BY <2>1, <2>2
<1>7. QED BY <1>6

\* All options are read as they were written.
LEMMA OptionsRead ==
  ASSUME NEW m, Typed(m.options), m.options = [n \in DOMAIN m.options |-> m.options[n]],
         NEW w, Steps(m.options, w), NEW bytes \in Seq(Byte), NEW base \in Nat \ {0},
         Holds(bytes, base, w[6].bytes), base + Len(w[6].bytes) - 1 <= Len(bytes),
         NEW start, NEW f, Reads(bytes, start, f), start = At(Partly(m, <<>>), base, 0)
  PROVE  \E k \in 0 .. Len(w[6].bytes) :
           f[k] = At(Partly(m, m.options), base + Len(w[6].bytes), w[6].current)
<1> DEFINE P(k) == {Order[j] : j \in 1 .. k}
           Comes(k) == Arrived(f, base, w[k], m, P(k))
           T == {k \in 0 .. 6 : Comes(k)}
<1>1. 0 \in T
  <2>1. w[0].bytes = <<>> /\ w[0].current = 0 /\ Len(w[0].bytes) = 0
    BY DEF Steps
  <2>2. UpTo(m, P(0)) = <<>>
    <3>1. DOMAIN m.options \cap P(0) = {}
      OBVIOUS
    <3> HIDE DEF P
    <3>2. DOMAIN UpTo(m, P(0)) = {}
      BY <3>1 DEF UpTo
    <3>3. UpTo(m, P(0)) = [n \in {} |-> m.options[n]]
      BY <3>1, Zenon DEF UpTo
    <3>4. <<>> = [n \in {} |-> m.options[n]]
      OBVIOUS
    <3>5. QED BY <3>3, <3>4
  <2>3. f[0] = At(Partly(m, <<>>), base, 0)
    BY Zenon DEF Reads
  <2>4. base + 0 = base /\ 0 \in 0 .. 0
    OBVIOUS
  <2> DEFINE empty == <<>>
  <2>5. UpTo(m, P(0)) = empty /\ f[0] = At(Partly(m, empty), base, 0)
    BY <2>2, <2>3, Zenon
  <2> HIDE DEF empty, P
  <2>6. Comes(0)
    BY <2>1, <2>4, <2>5, Zenon DEF Arrived
  <2>7. QED BY <2>6
<1>2. ASSUME NEW k \in T, k \in Nat, k < 6 PROVE k + 1 \in T
  <2> DEFINE j == k + 1
             number == Order[j]
             a == w[k]
             after == w[j]
  <2>1. j \in 1 .. 6 /\ j - 1 = k /\ j \in 0 .. 6
    BY <1>2
  <2>2. P(j) = P(k) \cup {number}
    <3>1. 1 .. j = (1 .. k) \cup {j}
      BY <2>1
    <3> HIDE DEF j
    <3>2. QED BY <3>1, Zenon
  <2>3. number \notin P(k)
    <3>1. \A i \in 1 .. k : i \in 1 .. 6 /\ i < j
      BY <1>2
    <3> HIDE DEF j
    <3>2. \A i \in 1 .. k : Order[i] < Order[j] /\ Order[i] \in Nat /\ Order[j] \in Nat
      BY <2>1, <3>1, OrderFacts
    <3>3. \A i \in 1 .. k : Order[i] # Order[j]
      BY <3>2
    <3>4. QED BY <3>3, Zenon
  <2> HIDE DEF j
  <2>4. number \in Numbers /\ (number \in DOMAIN m.options => m.options[number] \in OptionValue(number))
    BY <2>1, OrderFacts DEF Typed
  <2>5. WrittenUpTo(a, number)
    BY <2>1, OptionsTyped
  <2>6. after = WithOption(m.options, number, a)
    BY <2>1 DEF Steps
  <2>7. Holds(bytes, base, after.bytes) /\ Len(after.bytes) <= Len(w[6].bytes)
    BY <2>1, OptionsHeld
  <2>8. base + Len(after.bytes) - 1 <= Len(bytes)
    <3> DEFINE x == Len(after.bytes)
               y == Len(w[6].bytes)
    <3>1. WrittenUpTo(w[j], Following(j)) /\ WrittenUpTo(w[6], Following(6))
      BY <2>1, OptionsTyped
    <3>2. w[j].bytes \in Seq(Byte) /\ w[6].bytes \in Seq(Byte)
      BY <3>1, Zenon DEF WrittenUpTo
    <3>3. x \in Nat /\ y \in Nat /\ x <= y /\ base + y - 1 <= Len(bytes) /\ Len(bytes) \in Nat
      BY <2>7, <3>2
    <3> HIDE DEF x, y
    <3>4. base + x - 1 <= Len(bytes)
      BY <3>3
    <3>5. QED BY <3>4 DEF x
  <2>9. Arrived(f, base, a, m, P(k))
    OBVIOUS
  <2> DEFINE Q == P(k)
  <2>10. number \notin Q /\ Arrived(f, base, a, m, Q) /\ P(j) = Q \cup {number}
    BY <2>2, <2>3, <2>9
  <2> HIDE DEF P, Q, number, a, after
  <2>11. Arrived(f, base, after, m, Q \cup {number})
    BY <2>4, <2>5, <2>6, <2>7, <2>8, <2>10, OptionRead
  <2>12. Comes(j)
    BY <2>10, <2>11, Zenon DEF after
  <2>13. QED BY <2>1, <2>12 DEF j
<1>3. \A k \in 0 .. 6 : k \in T
  <2> HIDE DEF T
  <2>1. QED BY <1>1, <1>2, Upwards
<1>4. Comes(6)
  BY <1>3
<1>5. UpTo(m, P(6)) = m.options
  <2>1. DOMAIN m.options \cap P(6) = DOMAIN m.options
    <3>1. \A n \in DOMAIN m.options : n \in P(6)
      BY OrderFacts, Zenon DEF Typed
    <3> HIDE DEF P
    <3>2. QED BY <3>1
  <2> HIDE DEF P
  <2>2. QED BY <2>1, Zenon DEF UpTo
<1> HIDE DEF P
<1>6. QED BY <1>4, <1>5, Zenon DEF Arrived

\* Setting the token of a new message gives the message without its options.
LEMMA TokenSet ==
  ASSUME NEW m, m.token \in Seq(Byte), Len(m.token) <= COAP_TOKEN_LEN
  PROVE  coap_set_header_token(coap_init_message(m.type, m.code, m.mid), m.token) = Partly(m, <<>>)
<1> DEFINE t == m.token
           n == IF Len(t) < COAP_TOKEN_LEN THEN Len(t) ELSE COAP_TOKEN_LEN
           r == coap_init_message(m.type, m.code, m.mid)
           Records(x) == [type : {m.type}, code : {m.code}, mid : {m.mid}, token : {x},
                          options : {<<>>}, payload : {<<>>}]
<1>1. SubSeq(t, 1, n) = t
  <2>1. n = Len(t)
    BY DEF COAP_TOKEN_LEN
  <2> HIDE DEF n
  <2>2. QED BY <2>1, SubSeqFull
<1>2. r \in Records(<<>>)
  BY DEF coap_init_message, NoOptions
<1> HIDE DEF r, t
<1>3. [r EXCEPT !.token = t] \in Records(t)
  BY <1>2
<1>4. coap_set_header_token(r, t) = [r EXCEPT !.token = t]
  BY <1>1, Zenon DEF coap_set_header_token
<1>5. \A q \in Records(t) : q = Partly(m, <<>>)
  BY DEF Partly, t
<1>6. QED BY <1>3, <1>4, <1>5 DEF r, t

\* The first four bytes say what they were made of.
LEMMA FirstByte ==
  ASSUME NEW type \in 0 .. 3, NEW n \in 0 .. 8, NEW b, b = 64 + 16 * type + n
  PROVE  b \in Byte /\ b \div 64 = 1 /\ (b \div 16) % 4 = type /\ b % 16 = n
  BY DEF Byte

\* The two bytes of a message ID bring it back.
LEMMA MidBytes ==
  ASSUME NEW mid \in Below(65536)
  PROVE  mid \div 256 \in Byte /\ mid % 256 \in Byte /\ 256 * (mid \div 256) + (mid % 256) = mid
<1>1. mid \in Nat /\ mid < 65536
  BY DEF Below
<1>2. QED BY <1>1, SMT DEF Byte

Front(m) == <<64 + 16 * m.type + Len(m.token), m.code, m.mid \div 256, m.mid % 256>>
HeaderBytes(m) == (Front(m) \o m.token) \o coap_serialize_options(m.options)
PayloadBytes(m) == IF m.payload = <<>> THEN <<>> ELSE <<255>> \o m.payload

\* A message that is written is its header, token and options, then the payload.
LEMMA MessageWritten ==
  ASSUME NEW m, coap_packet_t(m), coap_serialize_message(m) # <<>>
  PROVE  coap_serialize_message(m) = HeaderBytes(m) \o PayloadBytes(m)
<1>1. coap_serialize_message(m) =
        IF Len(HeaderBytes(m)) > COAP_MAX_HEADER_SIZE THEN <<>> ELSE HeaderBytes(m) \o PayloadBytes(m)
  BY Zenon DEF coap_serialize_message, HeaderBytes, Front, PayloadBytes
<1>2. QED BY <1>1, Zenon

\* Where the parts of a whole are.
Whole(ab, a, b) == ab = a \o b

Abut(ab, a, b) ==
  /\ ab \in Seq(Byte) /\ Len(ab) = Len(a) + Len(b)
  /\ Len(a) \in Nat /\ Len(b) \in Nat /\ Len(ab) \in Nat
  /\ \A bytes, at : Holds(bytes, at, ab) => Holds(bytes, at, a) /\ Holds(bytes, at + Len(a), b)

\* What was put together of two parts has the second where the first ends.
LEMMA WholeParts ==
  ASSUME NEW a \in Seq(Byte), NEW b \in Seq(Byte), NEW ab, Whole(ab, a, b)
  PROVE  Abut(ab, a, b)
<1>1. ab = a \o b
  BY DEF Whole
<1>2. ab \in Seq(Byte) /\ Len(ab) = Len(a) + Len(b)
  BY <1>1
<1>3. Len(a) \in Nat /\ Len(b) \in Nat /\ Len(ab) \in Nat
  BY <1>2
<1>4. \A bytes, at : Holds(bytes, at, ab) => Holds(bytes, at, a) /\ Holds(bytes, at + Len(a), b)
  BY <1>1, HoldsBoth
<1>5. QED BY <1>2, <1>3, <1>4, Zenon DEF Abut

Parted(bytes, base, a, b, c, d) ==
  /\ bytes \in Seq(Byte) /\ base \in Nat \ {0}
  /\ Holds(bytes, 1, a) /\ Holds(bytes, 5, b) /\ Holds(bytes, base, c)
  /\ Holds(bytes, base + Len(c), d)
  /\ Len(bytes) = base + Len(c) + Len(d) - 1

\* Header, token, options and payload lie one behind the other.
LEMMA PartsHeld ==
  ASSUME NEW a \in Seq(Byte), NEW b \in Seq(Byte), NEW c \in Seq(Byte), NEW d \in Seq(Byte),
         Len(a) = 4, NEW ab, Whole(ab, a, b), NEW abc, Whole(abc, ab, c), NEW bytes, Whole(bytes, abc, d),
         NEW base, base = 5 + Len(b)
  PROVE  Parted(bytes, base, a, b, c, d)
<1>1. /\ ab \in Seq(Byte) /\ Len(ab) = 4 + Len(b) /\ Len(b) \in Nat /\ Len(ab) \in Nat
      /\ \A at : Holds(bytes, at, ab) => Holds(bytes, at, a) /\ Holds(bytes, at + 4, b)
  <2>1. Abut(ab, a, b)
    BY WholeParts
  <2>2. QED BY <2>1, Zenon DEF Abut
<1>2. /\ abc \in Seq(Byte) /\ Len(abc) = Len(ab) + Len(c) /\ Len(c) \in Nat /\ Len(abc) \in Nat
      /\ \A at : Holds(bytes, at, abc) => Holds(bytes, at, ab) /\ Holds(bytes, at + Len(ab), c)
  <2>1. Abut(abc, ab, c)
    BY <1>1, WholeParts
  <2>2. QED BY <2>1, Zenon DEF Abut
<1>3. /\ bytes \in Seq(Byte) /\ Len(bytes) = Len(abc) + Len(d) /\ Len(d) \in Nat
      /\ \A at : Holds(bytes, at, bytes) => Holds(bytes, at, abc) /\ Holds(bytes, at + Len(abc), d)
  <2>1. Abut(bytes, abc, d)
    BY <1>2, WholeParts
  <2>2. QED BY <2>1, Zenon DEF Abut
<1>4. Holds(bytes, 1, bytes)
  <2>1. \A i \in 1 .. Len(bytes) : bytes[1 + i - 1] = bytes[i]
    BY <1>3
  <2>2. QED BY <2>1 DEF Holds
<1>5. /\ Holds(bytes, 1, a) /\ Holds(bytes, 1 + 4, b) /\ Holds(bytes, 1 + Len(ab), c)
      /\ Holds(bytes, 1 + Len(abc), d)
  BY <1>1, <1>2, <1>3, <1>4
<1>6. base \in Nat \ {0}
  BY <1>1
<1>7. 1 + 4 = 5 /\ 1 + Len(ab) = base /\ 1 + Len(abc) = base + Len(c)
  BY <1>1, <1>2
<1>8. Len(bytes) = base + Len(c) + Len(d) - 1
  BY <1>1, <1>2, <1>3
<1>9. /\ bytes \in Seq(Byte)
      /\ Holds(bytes, 1, a) /\ Holds(bytes, 5, b) /\ Holds(bytes, base, c)
      /\ Holds(bytes, base + Len(c), d)
  BY <1>3, <1>5, <1>7
<1>10. QED BY <1>6, <1>8, <1>9, Zenon DEF Parted

\* Where the parts of a message are.
LEMMA MessageParts ==
  ASSUME NEW m, coap_packet_t(m), coap_serialize_options(m.options) \in Seq(Byte)
  PROVE  /\ Front(m) \in Seq(Byte) /\ Len(Front(m)) = 4
         /\ m.token \in Seq(Byte) /\ Len(m.token) \in 0 .. 8
         /\ PayloadBytes(m) \in Seq(Byte)
<1> DEFINE a == Front(m)
           b == m.token
           d == PayloadBytes(m)
<1>1. /\ m.type \in 0 .. 3 /\ m.code \in Byte /\ m.mid \in Below(65536)
      /\ b \in Seq(Byte) /\ Len(b) <= 8 /\ m.payload \in Seq(Byte)
  BY DEF coap_packet_t, COAP_TOKEN_LEN
<1>2. Len(b) \in 0 .. 8
  <2> DEFINE n == Len(b)
  <2>1. n \in Nat
    BY <1>1
  <2>2. n <= 8
    BY <1>1
  <2> HIDE DEF n
  <2>3. n \in 0 .. 8
    BY <2>1, <2>2
  <2>4. QED BY <2>3 DEF n
<1>3. a \in Seq(Byte) /\ Len(a) = 4
  <2> DEFINE first == 64 + 16 * m.type + Len(b)
             third == m.mid \div 256
             fourth == m.mid % 256
             length == Len(b)
  <2>1. first \in Byte /\ third \in Byte /\ fourth \in Byte
    <3>1. length \in 0 .. 8
      BY <1>2
    <3> DEFINE type == m.type
               mid == m.mid
    <3>2. type \in 0 .. 3 /\ mid \in Below(65536)
      BY <1>1
    <3>3. first = 64 + 16 * type + length /\ third = mid \div 256 /\ fourth = mid % 256
      OBVIOUS
    <3> HIDE DEF length, first, type, mid, third, fourth, a, b, d
    <3>4. first \in Byte
      <4>1. /\ type \in 0 .. 3 /\ length \in 0 .. 8 /\ first = 64 + 16 * type + length
        BY <3>1, <3>2, <3>3
      <4>2. QED BY <4>1, FirstByte, Zenon
    <3>5. mid \div 256 \in Byte /\ mid % 256 \in Byte
      BY <3>2, MidBytes
    <3>6. QED BY <3>3, <3>4, <3>5
  <2>2. a = <<first, m.code, third, fourth>>
    BY DEF Front
  <2> HIDE DEF first, third, fourth, a
  <2>3. QED BY <1>1, <2>1, <2>2
<1>4. d \in Seq(Byte)
  <2>1. 255 \in Byte
    BY DEF Byte
  <2>2. <<255>> \o m.payload \in Seq(Byte)
    BY <1>1, <2>1
  <2>3. QED BY <2>2 DEF PayloadBytes
<1>5. QED BY <1>1, <1>2, <1>3, <1>4
\* The token follows the first four bytes.
LEMMA TokenHeld ==
  ASSUME NEW bytes \in Seq(Byte), NEW token \in Seq(Byte), Holds(bytes, 5, token),
         4 + Len(token) <= Len(bytes)
  PROVE  SubSeq(bytes, 5, 4 + Len(token)) = token
<1> DEFINE five == 5
<1>1. five \in Nat \ {0} /\ Len(token) \in Nat /\ five + Len(token) - 1 = 4 + Len(token)
  OBVIOUS
<1>2. Holds(bytes, five, token) /\ five + Len(token) - 1 <= Len(bytes)
  BY <1>1
<1> HIDE DEF five
<1>3. SubSeq(bytes, five, five + Len(token) - 1) = token
  BY <1>1, <1>2, SliceHeld
<1>4. QED BY <1>1, <1>3 DEF five

\* The four parts of the first byte.
Split(b, type, n) == b \div 64 = 1 /\ (b \div 16) % 4 = type /\ b % 16 = n

\* The first byte of a message gives back the type and the length of the token.
LEMMA FirstSplit ==
  ASSUME NEW type \in 0 .. 3, NEW n \in 0 .. 8, NEW b, b = 64 + 16 * type + n
  PROVE  Split(b, type, n)
  BY FirstByte DEF Split

\* What the header says.
LEMMA FrontParsed ==
  ASSUME NEW m, coap_packet_t(m), NEW bytes \in Seq(Byte), Holds(bytes, 1, Front(m)),
         Holds(bytes, 5, m.token), 4 + Len(m.token) <= Len(bytes)
  PROVE  coap_parse(bytes) = coap_parse_options(Partly(m, <<>>), bytes, 5 + Len(m.token))
<1> DEFINE token == m.token
           length == Len(token)
           type == m.type
           mid == m.mid
           b1 == bytes[1]
           b3 == bytes[3]
           b4 == bytes[4]
           short == IF b1 % 16 < COAP_TOKEN_LEN THEN b1 % 16 ELSE COAP_TOKEN_LEN
           begun == coap_init_message((b1 \div 16) % 4, bytes[2], 256 * b3 + b4)
<1>1. type \in 0 .. 3 /\ mid \in Below(65536) /\ token \in Seq(Byte) /\ length <= COAP_TOKEN_LEN
  BY DEF coap_packet_t
<1>2. length \in 0 .. 8
  <2>1. length \in Nat /\ length <= 8
    BY <1>1 DEF COAP_TOKEN_LEN
  <2> HIDE DEF length
  <2>2. QED BY <2>1
<1>3. b1 = 64 + 16 * type + length /\ bytes[2] = m.code /\ b3 = mid \div 256 /\ b4 = mid % 256
  <2> DEFINE a == Front(m)
  <2>1. Len(a) = 4 /\ a[1] = 64 + 16 * type + length /\ a[2] = m.code /\ a[3] = mid \div 256 /\ a[4] = mid % 256
    BY DEF Front
  <2>2. \A i \in 1 .. Len(a) : bytes[1 + i - 1] = a[i]
    BY Zenon DEF Holds
  <2> HIDE DEF a
  <2>3. bytes[1] = a[1] /\ bytes[2] = a[2] /\ bytes[3] = a[3] /\ bytes[4] = a[4]
    <3>1. 1 \in 1 .. 4 /\ 2 \in 1 .. 4 /\ 3 \in 1 .. 4 /\ 4 \in 1 .. 4
          /\ 1 + 1 - 1 = 1 /\ 1 + 2 - 1 = 2 /\ 1 + 3 - 1 = 3 /\ 1 + 4 - 1 = 4
      OBVIOUS
    <3>2. QED BY <2>1, <2>2, <3>1
  <2>4. QED BY <2>1, <2>3, Zenon
<1>4. SubSeq(bytes, 5, 4 + length) = token
  <2>1. token \in Seq(Byte) /\ Holds(bytes, 5, token) /\ 4 + Len(token) <= Len(bytes)
    BY <1>1
  <2> HIDE DEF token, short, begun, b1, b3, b4, type, mid
  <2>2. QED BY <2>1, TokenHeld
<1> HIDE DEF short, begun
<1> HIDE DEF length, type, mid, b1, b3, b4, token
<1>5. b1 \div 64 = 1 /\ (b1 \div 16) % 4 = type /\ b1 % 16 = length
  <2>1. type \in 0 .. 3 /\ length \in 0 .. 8 /\ b1 = 64 + 16 * type + length
    BY <1>1, <1>2, <1>3
  <2>2. Split(b1, type, length)
    BY <2>1, FirstSplit
  <2>3. QED BY <2>2, Zenon DEF Split
<1>6. 256 * b3 + b4 = mid
  BY <1>1, <1>3, MidBytes
<1>7. short = length
  BY <1>2, <1>5 DEF COAP_TOKEN_LEN, short
<1>8. begun = coap_init_message(m.type, m.code, m.mid)
  BY <1>3, <1>5, <1>6, Zenon DEF type, mid, begun
<1>9. coap_set_header_token(begun, SubSeq(bytes, 5, 4 + length)) = Partly(m, <<>>)
  <2>1. SubSeq(bytes, 5, 4 + length) = m.token
    BY <1>4, Zenon DEF token
  <2>2. m.token \in Seq(Byte) /\ Len(m.token) <= COAP_TOKEN_LEN
    BY <1>1 DEF token, length
  <2>3. coap_set_header_token(coap_init_message(m.type, m.code, m.mid), m.token) = Partly(m, <<>>)
    BY <2>2, TokenSet
  <2>4. QED BY <1>8, <2>1, <2>3, Zenon
<1>10. coap_parse(bytes) =
         coap_parse_options(coap_set_header_token(begun, SubSeq(bytes, 5, 4 + short)), bytes, 5 + short)
  <2>1. b1 \div 64 = 1
    BY <1>5
  <2>2. QED BY <2>1, Zenon DEF coap_parse, b1, b3, b4, begun, short
<1>11. QED BY <1>7, <1>9, <1>10, Zenon DEF length, token

\* A payload behind its mark.
MarkOnly(mark) == mark \in Seq(Byte) /\ Len(mark) = 1 /\ mark[1] = 255
EndsWith(bytes, at, p) ==
  /\ bytes[at] = 255 /\ Len(bytes) = at + Len(p) /\ Len(p) \in Nat
  /\ SubSeq(bytes, at + 1, Len(bytes)) = p

\* What follows the byte 255 is the payload, to the end of the message.
LEMMA Marked ==
  ASSUME NEW p \in Seq(Byte), NEW mark \in Seq(Byte), MarkOnly(mark),
         NEW d, Whole(d, mark, p), NEW bytes \in Seq(Byte), NEW at \in Nat \ {0},
         Holds(bytes, at, d), Len(bytes) = at + Len(d) - 1
  PROVE  EndsWith(bytes, at, p)
<1>1. /\ Len(d) = Len(mark) + Len(p) /\ Len(p) \in Nat
      /\ Holds(bytes, at, mark) /\ Holds(bytes, at + Len(mark), p)
  <2>1. Abut(d, mark, p)
    BY WholeParts
  <2>2. QED BY <2>1, Zenon DEF Abut
<1>2. Len(mark) = 1 /\ mark[1] = 255
  BY DEF MarkOnly
<1>3. Len(bytes) = at + Len(p)
  BY <1>2, <1>1
<1>4. bytes[at] = 255
  <2>1. 1 \in 1 .. Len(mark) /\ at + 1 - 1 = at
    BY <1>2
  <2>2. bytes[at + 1 - 1] = mark[1]
    BY <1>1, <2>1, Zenon DEF Holds
  <2>3. QED BY <1>2, <2>1, <2>2
<1> DEFINE next == at + 1
<1>5. next \in Nat \ {0} /\ next + Len(p) - 1 = Len(bytes) /\ Holds(bytes, next, p)
  BY <1>2, <1>1, <1>3
<1> HIDE DEF next
<1>6. next + Len(p) - 1 <= Len(bytes)
  BY <1>5
<1>7. SubSeq(bytes, next, next + Len(p) - 1) = p
  BY <1>5, <1>6, SliceHeld
<1>8. SubSeq(bytes, at + 1, Len(bytes)) = p
  BY <1>5, <1>7 DEF next
<1>9. QED BY <1>1, <1>3, <1>4, <1>8, Zenon DEF EndsWith

\* What follows the options is the payload, if there is one.
LEMMA PayloadRead ==
  ASSUME NEW m, coap_packet_t(m), NEW bytes \in Seq(Byte), NEW start, NEW f, Reads(bytes, start, f),
         NEW at \in Nat \ {0}, NEW current, Holds(bytes, at, PayloadBytes(m)),
         Len(bytes) = at + Len(PayloadBytes(m)) - 1,
         NEW k \in 0 .. at - 1, f[k] = At(Partly(m, m.options), at, current)
  PROVE  f[Len(bytes)].status = "NO_ERROR" /\ f[Len(bytes)].message = m
<1> DEFINE now == Partly(m, m.options)
           N == Len(bytes)
<1>1. /\ f[k].status = "NO_ERROR" /\ f[k].message = now /\ f[k].at = at /\ f[k].current = current
  BY DEF At, Reading
<1>2. /\ m = [type |-> m.type, code |-> m.code, mid |-> m.mid, token |-> m.token,
              options |-> m.options, payload |-> m.payload]
      /\ m.payload \in Seq(Byte)
  BY DEF coap_packet_t
<1>3. CASE m.payload = <<>>
  <2>1. Len(PayloadBytes(m)) = 0
    BY <1>3 DEF PayloadBytes
  <2>2. N = at - 1 /\ k \in 0 .. N /\ at > N
    BY <2>1
  <2>3. f[N] = f[k]
    BY <1>1, <2>2, ReadingEnds
  <2>4. now = m
    BY <1>2, <1>3 DEF Partly
  <2>5. QED BY <1>1, <2>3, <2>4
<1>4. CASE m.payload # <<>>
  <2> DEFINE p == m.payload
             mark == <<255>>
             set == coap_set_payload(now, SubSeq(bytes, at + 1, N))
             end == Reading("NO_ERROR", set, N + 1, current)
  <2>1. MarkOnly(mark) /\ mark \in Seq(Byte) /\ p \in Seq(Byte)
    <3>1. 255 \in Byte
      BY DEF Byte
    <3>2. QED BY <1>2, <3>1 DEF MarkOnly
  <2> DEFINE d == PayloadBytes(m)
  <2>2. Whole(d, mark, p)
    BY <1>4, Zenon DEF PayloadBytes, Whole
  <2> HIDE DEF mark, p, d, N, set, end, now
  <2>3. EndsWith(bytes, at, p)
    <3>1. Holds(bytes, at, d) /\ Len(bytes) = at + Len(d) - 1
      BY DEF d
    <3>2. QED BY <2>2, <2>1, <3>1, Marked
  <2>4. bytes[at] = 255 /\ N = at + Len(p) /\ Len(p) \in Nat
    BY <2>3, Zenon DEF EndsWith, N
  <2>5. SubSeq(bytes, at + 1, N) = p
    BY <2>3, Zenon DEF EndsWith, N
  <2>6. set = m
    <3> DEFINE Records(y) == [type : {m.type}, code : {m.code}, mid : {m.mid}, token : {m.token},
                              options : {m.options}, payload : {y}]
    <3>1. now \in Records(<<>>)
      BY DEF Partly, now
    <3>2. [now EXCEPT !.payload = p] \in Records(p)
      BY <3>1
    <3>3. set = [now EXCEPT !.payload = p]
      BY <2>5, Zenon DEF coap_set_payload, set
    <3>4. \A q \in Records(p) : q = m
      <4>1. \A q \in Records(p) : q = [type |-> m.type, code |-> m.code, mid |-> m.mid, token |-> m.token,
              options |-> m.options, payload |-> p]
        OBVIOUS
      <4>2. QED BY <1>2, <4>1, Zenon DEF p
    <3>5. QED BY <3>2, <3>3, <3>4
  <2>7. NextOption(bytes, f[k]) = end
    <3>1. ~(f[k].status # "NO_ERROR" \/ f[k].at > Len(bytes)) /\ bytes[f[k].at] >= 240
      BY <1>1, <2>4 DEF N
    <3>2. NextOption(bytes, f[k]) =
            Reading(f[k].status, coap_set_payload(f[k].message, SubSeq(bytes, f[k].at + 1, Len(bytes))),
                    Len(bytes) + 1, f[k].current)
      BY <3>1, Zenon DEF NextOption
    <3>3. QED BY <1>1, <3>2, Zenon DEF end, set, N
  <2>8. k + 1 \in 1 .. N /\ k + 1 \in 0 .. N /\ k + 1 - 1 = k
    BY <2>4
  <2> DEFINE j == k + 1
  <2>9. f[j] = end
    <3>1. j \in 1 .. Len(bytes) /\ j - 1 = k
      BY <2>8 DEF N
    <3> HIDE DEF j
    <3>2. f[j] = NextOption(bytes, f[j - 1])
      BY <3>1, Zenon DEF Reads
    <3>3. QED BY <2>7, <3>1, <3>2, Zenon
  <2>10. end.at = N + 1 /\ end.status = "NO_ERROR" /\ end.message = set
    BY DEF Reading, end
  <2>11. f[N] = f[j]
    <3>1. j \in 0 .. Len(bytes) /\ f[j].at > Len(bytes)
      BY <2>4, <2>8, <2>9, <2>10 DEF N
    <3> HIDE DEF j
    <3>2. QED BY <3>1, ReadingEnds DEF N
  <2>12. QED BY <2>6, <2>9, <2>10, <2>11 DEF N
<1>5. QED BY <1>3, <1>4
\* The options as OptionsRead needs and finds them.
Laid(m, w, bytes, base) ==
  /\ Typed(m.options) /\ m.options = [n \in DOMAIN m.options |-> m.options[n]]
  /\ Steps(m.options, w) /\ bytes \in Seq(Byte) /\ base \in Nat \ {0}
  /\ Holds(bytes, base, w[6].bytes) /\ base + Len(w[6].bytes) - 1 <= Len(bytes)

\* A reader at the first option of a message ends behind the last with all of them.
LEMMA OptionsLaid ==
  ASSUME NEW m, NEW w, NEW bytes, NEW base, Laid(m, w, bytes, base),
         NEW f, Reads(bytes, At(Partly(m, <<>>), base, 0), f)
  PROVE  \E k \in 0 .. Len(w[6].bytes) :
           f[k] = At(Partly(m, m.options), base + Len(w[6].bytes), w[6].current)
<1> DEFINE start == At(Partly(m, <<>>), base, 0)
<1>1. Reads(bytes, start, f) /\ start = At(Partly(m, <<>>), base, 0)
  OBVIOUS
<1>2. /\ Typed(m.options) /\ m.options = [n \in DOMAIN m.options |-> m.options[n]]
      /\ Steps(m.options, w) /\ bytes \in Seq(Byte) /\ base \in Nat \ {0}
      /\ Holds(bytes, base, w[6].bytes) /\ base + Len(w[6].bytes) - 1 <= Len(bytes)
  BY Zenon DEF Laid
<1> HIDE DEF start
<1>3. QED BY <1>1, <1>2, OptionsRead

\* A message that can be written is read as it was written.
LEMMA MessageRead ==
  ASSUME NEW m, coap_packet_t(m), coap_serialize_message(m) # <<>>
  PROVE  coap_parse(coap_serialize_message(m)) = Parsed("NO_ERROR", m)
<1>1. Typed(m.options) /\ m.options = [n \in DOMAIN m.options |-> m.options[n]]
  <2>1. \A n : n \in Multis \cup BlockOptions \cup {OBSERVE} => n \in Numbers
    BY DEF Multis, BlockOptions, Numbers
  <2>2. m.options = [n \in DOMAIN m.options |-> m.options[n]]
    BY DEF coap_packet_t
  <2>3. \A n \in DOMAIN m.options :
          n \in Multis \cup BlockOptions \cup {OBSERVE} /\ m.options[n] \in OptionValue(n)
    BY DEF coap_packet_t
  <2>4. Typed(m.options)
    BY <2>1, <2>3, Zenon DEF Typed
  <2>5. QED BY <2>2, <2>4
<1>2. PICK w : Steps(m.options, w) /\ coap_serialize_options(m.options) = w[6].bytes
  BY OptionsCourse, Zenon
<1> DEFINE options == w[6].bytes
           a == Front(m)
           b == m.token
           ab == a \o b
           abc == ab \o options
           d == PayloadBytes(m)
           bytes == coap_serialize_message(m)
           base == 5 + Len(b)
           current == w[6].current
<1>3. options \in Seq(Byte)
  <2>1. 6 \in 0 .. 6
    OBVIOUS
  <2>2. WrittenUpTo(w[6], Following(6))
    BY <1>1, <1>2, <2>1, OptionsTyped, Zenon
  <2>3. QED BY <2>2, Zenon DEF WrittenUpTo
<1>4. a \in Seq(Byte) /\ Len(a) = 4 /\ b \in Seq(Byte) /\ Len(b) \in 0 .. 8 /\ d \in Seq(Byte)
  <2>1. coap_serialize_options(m.options) \in Seq(Byte)
    BY <1>2, <1>3, Zenon
  <2>2. QED BY <2>1, MessageParts, Zenon
<1>5. Whole(ab, a, b) /\ Whole(abc, ab, options) /\ Whole(bytes, abc, d)
  <2>1. bytes = HeaderBytes(m) \o PayloadBytes(m)
    BY MessageWritten, Zenon
  <2>2. HeaderBytes(m) = abc
    BY <1>2, Zenon DEF HeaderBytes
  <2>3. QED BY <2>1, <2>2, Zenon DEF Whole
<1> HIDE DEF a, ab, abc, d, bytes, base, options, b, current
<1>6. base = 5 + Len(b)
  BY Zenon DEF base
<1>7. /\ bytes \in Seq(Byte) /\ base \in Nat \ {0}
      /\ Holds(bytes, 1, a) /\ Holds(bytes, 5, b) /\ Holds(bytes, base, options)
      /\ Holds(bytes, base + Len(options), d)
      /\ Len(bytes) = base + Len(options) + Len(d) - 1
  <2>1. /\ a \in Seq(Byte) /\ b \in Seq(Byte) /\ options \in Seq(Byte) /\ d \in Seq(Byte)
        /\ Len(a) = 4 /\ Whole(ab, a, b) /\ Whole(abc, ab, options) /\ Whole(bytes, abc, d)
    BY <1>3, <1>4, <1>5
  <2>2. Parted(bytes, base, a, b, options, d)
    BY <1>6, <2>1, PartsHeld
  <2>3. QED BY <2>2, Zenon DEF Parted
<1>8. Len(options) \in Nat /\ Len(d) \in Nat /\ Len(b) \in Nat
  BY <1>3, <1>4
<1> DEFINE at == base + Len(options)
<1>9. /\ 4 + Len(b) <= Len(bytes) /\ base + Len(options) - 1 <= Len(bytes)
      /\ at \in Nat \ {0} /\ Len(bytes) = at + Len(d) - 1
  BY <1>6, <1>7, <1>8
<1>10. coap_parse(bytes) = coap_parse_options(Partly(m, <<>>), bytes, base)
  <2>1. Holds(bytes, 1, Front(m)) /\ Holds(bytes, 5, m.token) /\ 4 + Len(m.token) <= Len(bytes)
    BY <1>7, <1>9, Zenon DEF a, b
  <2>2. coap_parse(bytes) = coap_parse_options(Partly(m, <<>>), bytes, 5 + Len(m.token))
    BY <1>7, <2>1, FrontParsed, Zenon
  <2>3. QED BY <2>2, Zenon DEF base, b
<1> DEFINE start == At(Partly(m, <<>>), base, 0)
<1>11. PICK f : /\ Reads(bytes, start, f)
                /\ coap_parse_options(Partly(m, <<>>), bytes, base) = Parsed(f[Len(bytes)].status, f[Len(bytes)].message)
  <2>1. \E f : /\ Reads(bytes, Reading("NO_ERROR", Partly(m, <<>>), base, 0), f)
               /\ coap_parse_options(Partly(m, <<>>), bytes, base) = Parsed(f[Len(bytes)].status, f[Len(bytes)].message)
    BY <1>7, ReadingCourse, Zenon
  <2>2. QED BY <2>1, Zenon DEF At
<1> HIDE DEF start, at
<1>12. PICK k \in 0 .. Len(options) : f[k] = At(Partly(m, m.options), at, current)
  <2>1. Laid(m, w, bytes, base)
    BY <1>1, <1>2, <1>7, <1>9, Zenon DEF Laid, options
  <2>2. \E k \in 0 .. Len(w[6].bytes) :
           f[k] = At(Partly(m, m.options), base + Len(w[6].bytes), w[6].current)
    BY <1>11, <2>1, OptionsLaid, Zenon DEF start
  <2>3. QED BY <2>2, Zenon DEF options, at, current
<1>13. k \in 0 .. at - 1
  BY <1>7, <1>8 DEF at
<1>14. f[Len(bytes)].status = "NO_ERROR" /\ f[Len(bytes)].message = m
  <2>1. Holds(bytes, at, PayloadBytes(m)) /\ Len(bytes) = at + Len(PayloadBytes(m)) - 1
    BY <1>7, <1>9, Zenon DEF at, d
  <2>2. bytes \in Seq(Byte) /\ at \in Nat \ {0}
    BY <1>7, <1>9
  <2>3. QED BY <1>11, <1>12, <1>13, <2>1, <2>2, PayloadRead, Zenon
<1>15. QED BY <1>10, <1>11, <1>14, Zenon DEF bytes

\* Every message that can be written is read back.
LEMMA MessagesRead == MessageReadsBack
<1>1. ASSUME NEW m \in Messages, coap_serialize_message(m) # <<>>
      PROVE  coap_parse(coap_serialize_message(m)) = Parsed("NO_ERROR", m)
  <2>1. coap_packet_t(m)
    BY CodecAssumption
  <2>2. QED BY <1>1, <2>1, MessageRead, Zenon
<1>2. QED BY <1>1, Zenon DEF MessageReadsBack

\* The header of an option is read back.
LEMMA HeadersRead == HeaderReadsBack
<1>1. ASSUME NEW delta \in Limits, NEW length \in Limits,
             NEW bytes, bytes = coap_set_option_header(delta, length)
      PROVE  OptionHeader(bytes, 1) = [delta |-> delta, length |-> length, next |-> Len(bytes) + 1]
  <2>1. IsField(delta) /\ IsField(length)
    BY DEF Limits, IsField
  <2>2. Holds(bytes, 1, bytes)
    BY DEF Holds
  <2>3. /\ bytes \in Seq(Byte)
        /\ OptionHeader(bytes, 1) = [delta |-> delta, length |-> length, next |-> 1 + Len(bytes)]
    BY <1>1, <2>1, <2>2, HeaderRead
  <2>4. Len(bytes) \in Nat
    BY <2>3
  <2>5. 1 + Len(bytes) = Len(bytes) + 1
    BY <2>4
  <2>6. QED BY <2>3, <2>5, Zenon
<1>2. QED BY <1>1, Zenon DEF HeaderReadsBack
-----------------------------------------------------------------------------
(* Paths.                                                                  *)

\* A set of natural numbers has a least one.
LEMMA Least ==
  ASSUME NEW S, S \subseteq Nat, S # {}
  PROVE  Min(S) \in S /\ \A n \in S : Min(S) <= n
<1>1. \E x \in S : \A y \in S : x <= y
  <2> SUFFICES ASSUME \A x \in S : \E y \in S : ~(x <= y) PROVE FALSE
    OBVIOUS
  <2>1. PICK n \in S : n \in Nat
    OBVIOUS
  <2> DEFINE T == {k \in Nat : \A y \in S : k <= y}
  <2>2. 0 \in T
    OBVIOUS
  <2>3. ASSUME NEW k \in T PROVE k + 1 \in T
    <3>1. k \in Nat /\ k \notin S /\ \A y \in S : k <= y
      OBVIOUS
    <3>2. \A y \in S : k + 1 <= y
      BY <3>1
    <3>3. QED BY <3>1, <3>2
  <2>4. \A k \in 0 .. n : k \in T
    <3> HIDE DEF T
    <3>1. QED BY <2>1, <2>2, <2>3, Upwards
  <2>5. n \in T
    BY <2>1, <2>4
  <2>6. QED BY <2>5
<1>2. QED BY <1>1, Zenon DEF Min

\* The rounds of the cutting loop.
Cuts(text, split, f) ==
  /\ f = [k \in 0 .. Len(text) + 1 |-> f[k]] /\ f[0] = [segments |-> <<>>, at |-> 1]
  /\ \A k \in 1 .. Len(text) + 1 : f[k] = NextSegment(text, split, f[k - 1])

\* Cutting a text into segments is a loop that has a course.
LEMMA CutCourse ==
  ASSUME NEW text \in Seq(Byte), NEW split
  PROVE  \E f : Cuts(text, split, f) /\ Cut(text, split) = f[Len(text) + 1].segments
<1> DEFINE N == Len(text) + 1
           start == [segments |-> <<>>, at |-> 1]
           Step(o) == [k \in 0 .. N |-> IF k = 0 THEN start ELSE NextSegment(text, split, o[k - 1])]
           out == CHOOSE o : o = Step(o)
           Far == {n \in 0 .. N : \E f : f = [k \in 0 .. n |-> IF k = 0 THEN start
                                                          ELSE NextSegment(text, split, f[k - 1])]}
<1>1. N \in Nat
  OBVIOUS
<1> HIDE DEF N, start
<1>2. 0 \in Far
  <2> DEFINE f == [k \in 0 .. 0 |-> start]
  <2>1. f = [k \in 0 .. 0 |-> IF k = 0 THEN start ELSE NextSegment(text, split, f[k - 1])]
    OBVIOUS
  <2> HIDE DEF f
  <2>2. QED BY <1>1, <2>1
<1>3. ASSUME NEW n \in Far, n \in Nat, n < N PROVE n + 1 \in Far
  <2>1. PICK f : f = [k \in 0 .. n |-> IF k = 0 THEN start ELSE NextSegment(text, split, f[k - 1])]
    BY Zenon
  <2> DEFINE g == [k \in 0 .. n + 1 |-> IF k <= n THEN f[k] ELSE NextSegment(text, split, f[n])]
             h == [k \in 0 .. n + 1 |-> IF k = 0 THEN start ELSE NextSegment(text, split, g[k - 1])]
  <2>2. n \in 0 .. N /\ n + 1 \in 0 .. N /\ n + 1 - 1 = n
    BY <1>1, <1>3
  <2>3. ASSUME NEW k \in 0 .. n + 1 PROVE g[k] = h[k]
    <3>1. CASE k = 0
      <4>1. f[0] = start
        BY <2>1, <1>3
      <4>2. h[0] = start
        BY <1>3
      <4>3. g[0] = f[0]
        BY <1>3
      <4>4. QED BY <3>1, <4>1, <4>2, <4>3
    <3>2. CASE k \in 1 .. n
      <4>1. k \in 0 .. n /\ k # 0 /\ k - 1 \in 0 .. n + 1 /\ k <= n /\ k - 1 <= n
        BY <1>3, <3>2
      <4>2. f[k] = NextSegment(text, split, f[k - 1])
        BY <2>1, <4>1, Zenon
      <4>3. g[k] = f[k] /\ g[k - 1] = f[k - 1]
        BY <4>1
      <4>4. h[k] = NextSegment(text, split, g[k - 1])
        BY <4>1, Zenon
      <4>5. QED BY <4>2, <4>3, <4>4
    <3>3. CASE k = n + 1
      <4>1. k - 1 = n /\ ~(k <= n) /\ k # 0 /\ n \in 0 .. n + 1 /\ n <= n
        BY <1>3, <3>3
      <4>2. g[k] = NextSegment(text, split, f[n]) /\ g[n] = f[n]
        BY <4>1, Zenon
      <4>3. h[k] = NextSegment(text, split, g[k - 1])
        BY <4>1, Zenon
      <4>4. QED BY <4>1, <4>2, <4>3
    <3>4. k = 0 \/ k \in 1 .. n \/ k = n + 1
      BY <1>3
    <3>5. QED BY <3>1, <3>2, <3>3, <3>4
  <2>4. g = h
    <3>1. g = [k \in 0 .. n + 1 |-> g[k]] /\ h = [k \in 0 .. n + 1 |-> h[k]]
      OBVIOUS
    <3> HIDE DEF g, h
    <3>2. QED BY <2>3, <3>1, Zenon
  <2>5. g = [k \in 0 .. n + 1 |-> IF k = 0 THEN start ELSE NextSegment(text, split, g[k - 1])]
    BY <2>4
  <2> HIDE DEF g
  <2>6. QED BY <2>2, <2>5, Zenon
<1>4. N \in Far
  <2> HIDE DEF Far
  <2>1. \A n \in 0 .. N : n \in Far
    BY <1>1, <1>2, <1>3, Upwards
  <2>2. QED BY <1>1, <2>1
<1>5. out = Step(out)
  <2>1. \E o : o = Step(o)
    BY <1>4, Zenon
  <2> HIDE DEF Step
  <2>2. QED BY <2>1, Zenon
<1>6. Cut(text, split) = out[N].segments
  BY DEF Cut, N, start
<1> HIDE DEF out
<1>7. out = [k \in 0 .. N |-> out[k]]
  BY <1>5
<1>8. out[0] = start
  BY <1>1, <1>5
<1>9. ASSUME NEW k \in 1 .. N PROVE out[k] = NextSegment(text, split, out[k - 1])
  <2>1. k \in 0 .. N /\ k # 0
    BY <1>1
  <2>2. QED BY <1>5, <2>1, Zenon
<1>10. Cuts(text, split, out)
  BY <1>7, <1>8, <1>9 DEF Cuts, N, start
<1>11. QED BY <1>6, <1>10 DEF N, start

\* Behind the text no round cuts anything.
LEMMA CutEnds ==
  ASSUME NEW text \in Seq(Byte), NEW split, NEW f, Cuts(text, split, f),
         NEW k \in 0 .. Len(text) + 1, f[k].segments # <<>>, f[k].at > Len(text)
  PROVE  f[Len(text) + 1] = f[k]
<1> DEFINE N == Len(text) + 1
           T == {n \in 0 .. N - k : f[k + n] = f[k]}
<1>1. N \in Nat /\ N - k \in Nat /\ k + (N - k) = N
  OBVIOUS
<1>2. 0 \in T
  BY <1>1
<1>3. ASSUME NEW n \in T, n \in Nat, n < N - k PROVE n + 1 \in T
  <2>1. k + n + 1 \in 1 .. N /\ k + (n + 1) = k + n + 1 /\ k + n + 1 - 1 = k + n
        /\ n + 1 \in 0 .. N - k
    BY <1>1, <1>3
  <2>2. f[k + n] = f[k]
    OBVIOUS
  <2> DEFINE j == k + n + 1
  <2>3. f[j] = NextSegment(text, split, f[j - 1])
    <3>1. j \in 1 .. Len(text) + 1
      BY <2>1
    <3> HIDE DEF j
    <3>2. QED BY <3>1, Zenon DEF Cuts
  <2>4. NextSegment(text, split, f[k]) = f[k]
    BY Zenon DEF NextSegment
  <2>5. f[k + (n + 1)] = f[k]
    <3>1. k + (n + 1) = j /\ j - 1 = k + n
      BY <1>1, <2>1
    <3> HIDE DEF j
    <3>2. QED BY <2>2, <2>3, <2>4, <3>1, Zenon
  <2>6. QED BY <2>1, <2>5
<1>4. \A n \in 0 .. N - k : n \in T
  <2> HIDE DEF T, N
  <2>1. QED BY <1>1, <1>2, <1>3, Upwards
<1>5. N - k \in 0 .. N - k
  BY <1>1
<1>6. f[k + (N - k)] = f[k]
  BY <1>4, <1>5
<1>7. QED BY <1>1, <1>6

\* Where a segment ends.
EndsAt(text, at, split, i) ==
  /\ i \in Nat \ {0} /\ i <= Len(text) + 1
  /\ i <= Len(text) => i >= at /\ text[i] = split
  /\ \A k \in at .. Len(text) : k < i => text[k] # split

\* A segment ends where the next separator is, or the text.
LEMMA SegmentEnd ==
  ASSUME NEW text \in Seq(Byte), NEW at \in Nat \ {0}, NEW split,
         NEW i, i = Min({k \in at .. Len(text) : text[k] = split} \cup {Len(text) + 1})
  PROVE  EndsAt(text, at, split, i)
<1> DEFINE S == {k \in at .. Len(text) : text[k] = split} \cup {Len(text) + 1}
<1>1. Len(text) \in Nat /\ S \subseteq Nat /\ S # {}
  OBVIOUS
<1>2. i \in S /\ \A n \in S : i <= n
  <2>1. i = Min(S)
    OBVIOUS
  <2> HIDE DEF S
  <2>2. QED BY <1>1, <2>1, Least
<1>3. i \in Nat \ {0} /\ i <= Len(text) + 1
  BY <1>1, <1>2
<1>4. i <= Len(text) => i >= at /\ text[i] = split
  BY <1>1, <1>2
<1>5. ASSUME NEW k \in at .. Len(text), k < i PROVE text[k] # split
  BY <1>1, <1>2, <1>3, <1>5
<1>6. QED BY <1>3, <1>4, <1>5, Zenon DEF EndsAt
\* Texts with no 0 in them, and segments with no slash in them either.
NonZero == {b \in Byte : b # 0}
NoSlash == {b \in NonZero : b # Slash}
IsCut(out) ==
  /\ out = [segments |-> out.segments, at |-> out.at]
  /\ out.segments \in Seq(Seq(NoSlash)) /\ out.at \in Nat \ {0}

\* A text up to its end, by itself if there is no 0 in it.
LEMMA StringPlain ==
  ASSUME NEW text \in Seq(Byte)
  PROVE  /\ CString(text) \in Seq(NonZero)
         /\ text \in Seq(NonZero) => CString(text) = text
<1> DEFINE zeros == {i \in DOMAIN text : text[i] = 0}
           n == Min(zeros)
<1>1. CASE zeros = {}
  <2>1. CString(text) = text
    BY <1>1, Zenon DEF CString
  <2>2. \A i \in 1 .. Len(text) : text[i] \in NonZero
    BY <1>1 DEF NonZero
  <2>3. text = [i \in 1 .. Len(text) |-> text[i]]
    OBVIOUS
  <2>4. text \in Seq(NonZero)
    BY <2>2, <2>3
  <2>5. QED BY <2>1, <2>4
<1>2. CASE zeros # {}
  <2>1. zeros \subseteq Nat /\ zeros \subseteq 1 .. Len(text) /\ Len(text) \in Nat
    OBVIOUS
  <2>2. n \in zeros /\ \A i \in zeros : n <= i
    <3> HIDE DEF zeros
    <3>1. QED BY <1>2, <2>1, Least
  <2>3. n \in 1 .. Len(text) /\ text[n] = 0
    BY <2>2
  <2>4. CString(text) = SubSeq(text, 1, n - 1)
    BY <1>2, Zenon DEF CString
  <2>5. \A i \in 1 .. n - 1 : text[i] \in NonZero
    <3> SUFFICES ASSUME NEW i \in 1 .. n - 1 PROVE text[i] \in NonZero
      OBVIOUS
    <3>1. i \in 1 .. Len(text) /\ i < n /\ i \in Nat
      BY <2>3
    <3>2. i \notin zeros
      BY <2>2, <2>3, <3>1
    <3>3. text[i] # 0 /\ text[i] \in Byte
      BY <3>1, <3>2
    <3>4. QED BY <3>3 DEF NonZero
  <2> DEFINE e == n - 1
  <2>6. 1 \in Int /\ e \in Int /\ \A i \in 1 .. e : text[i] \in NonZero
    BY <2>3, <2>5
  <2> HIDE DEF e
  <2>7. SubSeq(text, 1, e) \in Seq(NonZero)
    BY <2>6, SubSeqProperties
  <2>8. text \notin Seq(NonZero)
    <3>1. text \in Seq(NonZero) => text[n] \in NonZero
      BY <2>3
    <3>2. QED BY <2>3, <3>1 DEF NonZero
  <2>9. QED BY <2>4, <2>7, <2>8 DEF e
<1>3. QED BY <1>1, <1>2

\* A round leaves segments that are plain, and at least one.
LEMMA CutPlain ==
  ASSUME NEW text \in Seq(NonZero), NEW out, IsCut(out)
  PROVE  /\ IsCut(NextSegment(text, Slash, out))
         /\ NextSegment(text, Slash, out).segments # <<>>
<1> DEFINE at == out.at
           segments == out.segments
           i == Min({k \in at .. Len(text) : text[k] = Slash} \cup {Len(text) + 1})
           j == i - 1
           s == SubSeq(text, at, j)
           next == [segments |-> Append(segments, s), at |-> i + 1]
<1>1. out = [segments |-> segments, at |-> at] /\ segments \in Seq(Seq(NoSlash)) /\ at \in Nat \ {0}
  BY Zenon DEF IsCut
<1>2. CASE segments # <<>> /\ at > Len(text)
  <2>1. NextSegment(text, Slash, out) = out
    BY <1>2, Zenon DEF NextSegment
  <2>2. QED BY <1>2, <2>1
<1>3. CASE ~(segments # <<>> /\ at > Len(text))
  <2>1. NextSegment(text, Slash, out) = next
    BY <1>3, Zenon DEF NextSegment
  <2>2. text \in Seq(Byte)
    <3>1. NonZero \subseteq Byte
      BY DEF NonZero
    <3>2. QED BY <3>1
  <2>3. EndsAt(text, at, Slash, i)
    <3> HIDE DEF at, i
    <3>1. at \in Nat \ {0} /\ i = Min({k \in at .. Len(text) : text[k] = Slash} \cup {Len(text) + 1})
      BY <1>1 DEF i
    <3>2. QED BY <2>2, <3>1, SegmentEnd
  <2> HIDE DEF i, at, segments
  <2>4. i \in Nat \ {0} /\ i <= Len(text) + 1 /\ \A k \in at .. Len(text) : k < i => text[k] # Slash
    BY <2>3, Zenon DEF EndsAt
  <2>5. s \in Seq(NoSlash)
    <3>1. at \in Int /\ j \in Int /\ \A k \in at .. j : text[k] \in NoSlash
      <4> SUFFICES ASSUME NEW k \in at .. j PROVE at \in Int /\ j \in Int /\ text[k] \in NoSlash
        BY <1>1, <2>4
      <4>1. k \in 1 .. Len(text) /\ k \in at .. Len(text) /\ k < i
        BY <1>1, <2>4
      <4>2. text[k] \in NonZero /\ text[k] # Slash
        BY <2>4, <4>1
      <4>3. QED BY <1>1, <2>4, <4>2 DEF NoSlash
    <3> HIDE DEF j
    <3>2. QED BY <3>1, SubSeqProperties
  <2> HIDE DEF s
  <2>6. Append(segments, s) \in Seq(Seq(NoSlash)) /\ Append(segments, s) # <<>>
    <3> DEFINE P == Seq(NoSlash)
    <3>1. segments \in Seq(P) /\ s \in P
      BY <1>1, <2>5
    <3> HIDE DEF P
    <3>2. Append(segments, s) \in Seq(P) /\ Append(segments, s) # <<>>
      BY <3>1, AppendProperties
    <3>3. QED BY <3>2 DEF P
  <2>7. i + 1 \in Nat \ {0}
    BY <2>4
  <2>8. next.segments = Append(segments, s) /\ next.at = i + 1
    OBVIOUS
  <2>9. next = [segments |-> next.segments, at |-> next.at]
    OBVIOUS
  <2> HIDE DEF next
  <2>10. next.segments \in Seq(Seq(NoSlash)) /\ next.segments # <<>> /\ next.at \in Nat \ {0}
    BY <2>6, <2>7, <2>8
  <2>11. IsCut(next)
    BY <2>9, <2>10, Zenon DEF IsCut
  <2>12. QED BY <2>1, <2>10, <2>11, Zenon
<1>4. QED BY <1>2, <1>3, Zenon

\* What is cut from a text with no 0 in it.
LEMMA CutsPlain ==
  ASSUME NEW text \in Seq(NonZero)
  PROVE  Cut(text, Slash) \in Seq(Seq(NoSlash)) /\ Cut(text, Slash) # <<>>
<1>1. text \in Seq(Byte)
  <2>1. NonZero \subseteq Byte
    BY DEF NonZero
  <2>2. QED BY <2>1
<1>2. PICK f : Cuts(text, Slash, f) /\ Cut(text, Slash) = f[Len(text) + 1].segments
  BY <1>1, CutCourse
<1> DEFINE N == Len(text) + 1
           T == {k \in 0 .. N : IsCut(f[k]) /\ (k > 0 => f[k].segments # <<>>)}
<1>3. N \in Nat /\ N > 0
  BY <1>1
<1>4. 0 \in T
  <2>1. f[0] = [segments |-> <<>>, at |-> 1]
    BY <1>2, Zenon DEF Cuts
  <2>2. IsCut([segments |-> <<>>, at |-> 1])
    BY DEF IsCut
  <2>3. IsCut(f[0])
    BY <2>1, <2>2, Zenon
  <2>4. QED BY <1>3, <2>3
<1>5. ASSUME NEW k \in T, k \in Nat, k < N PROVE k + 1 \in T
  <2> DEFINE j == k + 1
  <2>1. j \in 1 .. N /\ j - 1 = k /\ IsCut(f[k]) /\ j \in 0 .. N
    BY <1>3, <1>5
  <2>2. f[j] = NextSegment(text, Slash, f[j - 1])
    <3> HIDE DEF j
    <3>1. QED BY <1>2, <2>1, Zenon DEF Cuts
  <2> HIDE DEF j
  <2>3. f[j] = NextSegment(text, Slash, f[k])
    BY <2>1, <2>2, Zenon
  <2>4. IsCut(f[j]) /\ f[j].segments # <<>>
    BY <2>1, <2>3, CutPlain, Zenon
  <2>5. j \in T
    BY <2>1, <2>4
  <2>6. QED BY <2>5 DEF j
<1>6. \A k \in 0 .. N : k \in T
  <2> HIDE DEF T, N
  <2>1. QED BY <1>3, <1>4, <1>5, Upwards
<1>7. N \in T
  BY <1>3, <1>6
<1>8. IsCut(f[N]) /\ f[N].segments # <<>>
  BY <1>3, <1>7
<1>9. QED BY <1>2, <1>8, Zenon DEF IsCut
\* A segment stands in a text behind position a, and a slash or the end at b.
Placed(text, a, s, b) ==
  /\ a \in Nat /\ s \in Seq(NoSlash) /\ b = a + Len(s) + 1 /\ b <= Len(text) + 1
  /\ Holds(text, a + 1, s) /\ (b <= Len(text) => text[b] = Slash)

\* One round of the cutter takes the segment that lies where it is.
LEMMA PlacedRound ==
  ASSUME NEW text \in Seq(Byte), NEW a, NEW s, NEW b, Placed(text, a, s, b), NEW q,
         q = <<>> \/ a + 1 <= Len(text), NEW out, out = [segments |-> q, at |-> a + 1]
  PROVE  NextSegment(text, Slash, out) = [segments |-> Append(q, s), at |-> b + 1]
<1> DEFINE at == a + 1
           i == Min({k \in at .. Len(text) : text[k] = Slash} \cup {Len(text) + 1})
<1>1. /\ a \in Nat /\ s \in Seq(NoSlash) /\ b = a + Len(s) + 1 /\ b <= Len(text) + 1
      /\ Holds(text, at, s) /\ (b <= Len(text) => text[b] = Slash)
  BY Zenon DEF Placed
<1>2. Len(s) \in Nat /\ Len(text) \in Nat /\ at \in Nat \ {0} /\ b \in Nat /\ at <= b /\ at + Len(s) - 1 = b - 1
      /\ at + Len(s) - 1 <= Len(text) /\ at + Len(s) = b
  BY <1>1
<1>3. out.segments = q /\ out.at = at
  OBVIOUS
<1>4. ~(out.segments # <<>> /\ out.at > Len(text))
  BY <1>2, <1>3
<1>5. NextSegment(text, Slash, out) = [segments |-> Append(q, SubSeq(text, at, i - 1)), at |-> i + 1]
  <2> HIDE DEF at
  <2>1. QED BY <1>3, <1>4, Zenon DEF NextSegment
<1>6. s \in Seq(Byte) /\ \A k \in 1 .. Len(s) : s[k] # Slash
  <2>1. NoSlash \subseteq Byte
    BY DEF NoSlash, NonZero
  <2>2. \A k \in 1 .. Len(s) : s[k] \in NoSlash
    BY <1>1
  <2>3. \A x \in NoSlash : x # Slash
    BY DEF NoSlash
  <2>4. QED BY <1>1, <2>1, <2>2, <2>3
<1>7. EndsAt(text, at, Slash, i)
  <2> HIDE DEF at, i
  <2>1. i = Min({k \in at .. Len(text) : text[k] = Slash} \cup {Len(text) + 1})
    BY DEF i
  <2>2. QED BY <1>2, <2>1, SegmentEnd
<1> HIDE DEF i, at
<1>8. /\ i \in Nat \ {0} /\ i <= Len(text) + 1
      /\ i <= Len(text) => i >= at /\ text[i] = Slash
      /\ \A k \in at .. Len(text) : k < i => text[k] # Slash
  BY <1>7, Zenon DEF EndsAt
<1>9. \A k \in at .. b - 1 : text[k] # Slash
  <2> SUFFICES ASSUME NEW k \in at .. b - 1 PROVE text[k] # Slash
    OBVIOUS
  <2> DEFINE n == k - at + 1
  <2>1. n \in 1 .. Len(s) /\ at + n - 1 = k
    BY <1>2
  <2> HIDE DEF n
  <2>2. text[at + n - 1] = s[n] /\ s[n] # Slash
    BY <1>1, <1>6, <2>1, Zenon DEF Holds
  <2>3. QED BY <2>1, <2>2
<1>10. i = b
  <2>1. ~(i < b)
    <3> SUFFICES ASSUME i < b PROVE FALSE
      OBVIOUS
    <3>1. i <= Len(text)
      BY <1>1, <1>2, <1>8
    <3>2. i \in at .. b - 1
      BY <1>2, <1>8, <3>1
    <3>3. QED BY <1>8, <1>9, <3>1, <3>2
  <2>2. ~(b < i)
    <3> SUFFICES ASSUME b < i PROVE FALSE
      OBVIOUS
    <3>1. b <= Len(text) /\ b \in at .. Len(text)
      BY <1>2, <1>8
    <3>2. QED BY <1>1, <1>8, <3>1
  <2>3. QED BY <1>2, <1>8, <2>1, <2>2
<1>11. SubSeq(text, at, at + Len(s) - 1) = s
  BY <1>1, <1>2, <1>6, SliceHeld
<1>12. SubSeq(text, at, i - 1) = s
  BY <1>2, <1>10, <1>11
<1>13. QED BY <1>5, <1>10, <1>12, Zenon

\* A path as text: a slash before each segment.
PathPieces(location) == [k \in DOMAIN location |-> <<Slash>> \o location[k]]
PathStack(location, h) ==
  /\ h \in [0 .. Len(location) -> Seq(NonZero)] /\ h[0] = <<>>
  /\ Stack(Len(location), h, PathPieces(location))

\* A segment with a slash in front, character by character.
LEMMA PathPiece ==
  ASSUME NEW s \in Seq(NoSlash)
  PROVE  /\ <<Slash>> \o s \in Seq(NonZero) /\ Len(<<Slash>> \o s) = Len(s) + 1
         /\ (<<Slash>> \o s)[1] = Slash
         /\ \A i \in 1 .. Len(s) : (<<Slash>> \o s)[i + 1] = s[i]
<1> DEFINE one == <<Slash>>
<1>1. Slash \in NonZero /\ NoSlash \subseteq NonZero
  BY DEF NoSlash, NonZero, Slash, Byte
<1>2. one \in Seq(NonZero) /\ Len(one) = 1 /\ one[1] = Slash /\ s \in Seq(NonZero)
  BY <1>1
<1> HIDE DEF one
<1>3. /\ one \o s \in Seq(NonZero) /\ Len(one \o s) = Len(one) + Len(s)
      /\ \A i \in 1 .. Len(one) : (one \o s)[i] = one[i]
      /\ \A i \in 1 .. Len(s) : (one \o s)[Len(one) + i] = s[i]
  <2>1. one \in Seq(NonZero) /\ s \in Seq(NonZero)
    BY <1>2
  <2>2. QED BY <2>1, Joined
<1> DEFINE t == one \o s
<1> HIDE DEF t
<1>4. /\ t \in Seq(NonZero) /\ Len(t) = 1 + Len(s) /\ t[1] = Slash
      /\ \A i \in 1 .. Len(s) : t[1 + i] = s[i]
  BY <1>2, <1>3 DEF t
<1>5. Len(s) \in Nat /\ \A i \in 1 .. Len(s) : 1 + i = i + 1
  OBVIOUS
<1>6. t \in Seq(NonZero) /\ Len(t) = Len(s) + 1 /\ t[1] = Slash /\ \A i \in 1 .. Len(s) : t[i + 1] = s[i]
  BY <1>4, <1>5
<1>7. QED BY <1>6, Zenon DEF t, one

\* Writing a path as text is a loop that has a course.
LEMMA PathCourse ==
  ASSUME NEW location \in Seq(Seq(NoSlash))
  PROVE  \E h : PathStack(location, h) /\ coap_get_multi_option_as_string(location) = h[Len(location)]
<1> DEFINE pieces == PathPieces(location)
           L == Len(location)
<1>1. L \in Nat /\ DOMAIN location = 1 .. L /\ \A k \in 1 .. L : location[k] \in Seq(NoSlash)
  OBVIOUS
<1>2. \A k \in 1 .. L : <<Slash>> \o location[k] \in Seq(NonZero)
  <2> HIDE DEF L
  <2>1. QED BY <1>1, PathPiece
<1>3. pieces \in [1 .. L -> Seq(NonZero)]
  <2> HIDE DEF L
  <2>1. QED BY <1>1, <1>2 DEF PathPieces
<1> HIDE DEF pieces, L
<1>4. pieces \in Seq(Seq(NonZero)) /\ Len(pieces) = L
  <2> DEFINE P == Seq(NonZero)
  <2>1. pieces \in [1 .. L -> P]
    BY <1>3
  <2> HIDE DEF P
  <2>2. pieces \in Seq(P) /\ Len(pieces) = L
    BY <1>1, <2>1
  <2>3. QED BY <2>2 DEF P
<1>5. PICK h \in [0 .. Len(pieces) -> Seq(NonZero)] :
           /\ h[0] = <<>>
           /\ \A k \in 1 .. Len(pieces) : h[k] = h[k - 1] \o pieces[k]
           /\ Flat(pieces) = h[Len(pieces)]
  BY <1>4, FlatCourse
<1>6. h \in [0 .. L -> Seq(NonZero)] /\ Flat(pieces) = h[L]
  BY <1>4, <1>5, Zenon
<1>7. Seq(NonZero) \subseteq Seq(Byte)
  <2>1. NonZero \subseteq Byte
    BY DEF NonZero
  <2>2. QED BY <2>1
<1>8. Stack(L, h, pieces)
  <2>1. h \in [0 .. L -> Seq(Byte)] /\ pieces \in [1 .. L -> Seq(Byte)]
    <3> DEFINE P == Seq(NonZero)
               Q == Seq(Byte)
    <3>1. P \subseteq Q /\ h \in [0 .. L -> P] /\ pieces \in [1 .. L -> P]
      BY <1>3, <1>6, <1>7
    <3> HIDE DEF P, Q
    <3>2. h \in [0 .. L -> Q] /\ pieces \in [1 .. L -> Q]
      BY <3>1
    <3>3. QED BY <3>2 DEF Q
  <2>2. \A k \in 1 .. L : h[k] = h[k - 1] \o pieces[k]
    BY <1>4, <1>5, Zenon
  <2>3. QED BY <1>1, <2>1, <2>2, Zenon DEF Stack
<1>9. coap_get_multi_option_as_string(location) = h[L]
  BY <1>6, Zenon DEF coap_get_multi_option_as_string, pieces, PathPieces
<1>10. PathStack(location, h)
  BY <1>5, <1>6, <1>8, Zenon DEF PathStack, L, pieces
<1>11. QED BY <1>9, <1>10, Zenon DEF L
\* The pieces of a path stand one behind the other.
PieceAt(full, h, location, i) ==
  /\ Len(h[i - 1]) \in Nat /\ Len(h[i]) = Len(h[i - 1]) + Len(location[i]) + 1
  /\ Len(h[i]) <= Len(full) /\ location[i] \in Seq(NoSlash)
  /\ full[Len(h[i - 1]) + 1] = Slash
  /\ \A n \in 1 .. Len(location[i]) : full[Len(h[i - 1]) + n + 1] = location[i][n]

\* The text of a path holds each of its segments in its place.
LEMMA PathHeld ==
  ASSUME NEW location \in Seq(Seq(NoSlash)), NEW h, PathStack(location, h),
         NEW i \in 1 .. Len(location)
  PROVE  PieceAt(h[Len(location)], h, location, i)
<1> DEFINE L == Len(location)
           pieces == PathPieces(location)
           full == h[L]
           s == location[i]
           t == <<Slash>> \o s
           a == Len(h[i - 1])
           b == Len(h[i])
<1>1. Stack(L, h, pieces) /\ L \in Nat /\ L \in 0 .. L
  BY DEF PathStack
<1>2. s \in Seq(NoSlash) /\ Len(s) \in Nat
  OBVIOUS
<1>3. pieces[i] = t
  <2>1. i \in DOMAIN location
    OBVIOUS
  <2>2. QED BY <2>1, Zenon DEF PathPieces
<1>4. Len(t) = Len(s) + 1 /\ t[1] = Slash /\ \A n \in 1 .. Len(s) : t[n + 1] = s[n]
  <2> HIDE DEF s
  <2>1. QED BY <1>2, PathPiece
<1> HIDE DEF t, pieces
<1>5. Holds(full, 1, full)
  BY DEF Holds
<1>6. Held(L, h, pieces, full, 1, i)
  <2> DEFINE N == L
  <2> HIDE DEF N
  <2>1. Stack(N, h, pieces) /\ Holds(full, 1, h[N]) /\ i \in 1 .. N
    BY <1>1, <1>5 DEF N
  <2> HIDE DEF full
  <2>2. Held(N, h, pieces, full, 1, i)
    BY <2>1, PieceHeld
  <2>3. QED BY <2>2 DEF N
<1>7. /\ Holds(full, 1 + a, t) /\ b = a + Len(t) /\ b <= Len(full) /\ a \in Nat /\ b \in Nat
  <2>1. /\ Holds(full, 1 + a, pieces[i]) /\ b = a + Len(pieces[i]) /\ b <= Len(full) /\ a \in Nat /\ b \in Nat
    BY <1>6, Zenon DEF Held
  <2>2. QED BY <1>3, <2>1, Zenon
<1> HIDE DEF full, a, b, s, L
<1>8. \A n \in 1 .. Len(t) : full[1 + a + n - 1] = t[n]
  BY <1>7, Zenon DEF Holds
<1>9. b = a + Len(s) + 1
  BY <1>2, <1>4, <1>7
<1>10. full[a + 1] = Slash
  <2>1. 1 \in 1 .. Len(t) /\ 1 + a + 1 - 1 = a + 1
    BY <1>2, <1>4, <1>7
  <2>2. full[1 + a + 1 - 1] = t[1]
    BY <1>8, <2>1
  <2>3. QED BY <1>4, <2>1, <2>2
<1>11. ASSUME NEW n \in 1 .. Len(s) PROVE full[a + n + 1] = s[n]
  <2>1. n + 1 \in 1 .. Len(t) /\ 1 + a + (n + 1) - 1 = a + n + 1
    BY <1>2, <1>4, <1>7
  <2>2. full[1 + a + (n + 1) - 1] = t[n + 1]
    BY <1>8, <2>1
  <2>3. QED BY <1>4, <2>1, <2>2
<1>12. PieceAt(full, h, location, i)
  BY <1>2, <1>7, <1>9, <1>10, <1>11, Zenon DEF PieceAt, a, b, s
<1>13. QED BY <1>12, Zenon DEF full, L

\* What is left of a path without its first slash.
PathText(text, h, location) ==
  /\ text \in Seq(NonZero) /\ Len(text) + 1 = Len(h[Len(location)])
  /\ Segmented(coap_get_multi_option_as_string(location), Slash, Slash) = Cut(text, Slash)
  /\ \A i \in 1 .. Len(location) : Placed(text, Len(h[i - 1]), location[i], Len(h[i]))

\* A path that is not empty is the text of its segments, one behind the other.
LEMMA PathLaid ==
  ASSUME NEW location \in Seq(Seq(NoSlash)), location # <<>>
  PROVE  \E text, h : PathStack(location, h) /\ PathText(text, h, location)
<1>1. PICK h : PathStack(location, h) /\ coap_get_multi_option_as_string(location) = h[Len(location)]
  BY PathCourse
<1> DEFINE L == Len(location)
           full == h[L]
           text == Tail(full)
<1>2. L \in Nat \ {0} /\ 1 \in 1 .. L /\ L \in 0 .. L
  BY EmptySeq
<1>3. h \in [0 .. L -> Seq(NonZero)] /\ h[0] = <<>>
  BY <1>1, Zenon DEF PathStack
<1>4. full \in Seq(NonZero)
  <2> HIDE DEF L
  <2>1. QED BY <1>2, <1>3
<1>5. \A i \in 1 .. L : PieceAt(full, h, location, i)
  BY <1>1, PathHeld
<1> HIDE DEF full
<1>6. Len(full) \in Nat /\ Len(full) > 0 /\ full[1] = Slash /\ full # <<>>
  <2>1. PieceAt(full, h, location, 1)
    BY <1>2, <1>5
  <2>2. 1 - 1 = 0
    OBVIOUS
  <2>3. Len(h[0]) = 0
    BY <1>3
  <2>4. Len(h[1]) = Len(h[0]) + Len(location[1]) + 1 /\ Len(h[1]) <= Len(full)
        /\ full[Len(h[0]) + 1] = Slash /\ location[1] \in Seq(NoSlash)
    BY <2>1, <2>2, Zenon DEF PieceAt
  <2>5. Len(location[1]) \in Nat
    BY <2>4
  <2>6. Len(full) \in Nat
    BY <1>4
  <2>7. Len(full) > 0
    BY <2>3, <2>4, <2>5, <2>6
  <2>8. full[1] = Slash
    BY <2>3, <2>4
  <2>9. full # <<>>
    BY <2>7
  <2>10. QED BY <2>6, <2>7, <2>8, <2>9
<1>7. /\ text \in Seq(NonZero) /\ Len(text) = Len(full) - 1
      /\ \A i \in 1 .. Len(text) : text[i] = full[i + 1]
  BY <1>4, <1>6, HeadTailProperties
<1>8. Segmented(coap_get_multi_option_as_string(location), Slash, Slash) = Cut(text, Slash)
  <2>1. coap_get_multi_option_as_string(location) = full
    BY <1>1 DEF full
  <2>2. full \in Seq(Byte)
    <3>1. NonZero \subseteq Byte
      BY DEF NonZero
    <3>2. QED BY <1>4, <3>1
  <2>3. CString(full) = full
    BY <1>4, <2>2, StringPlain
  <2>4. Segmented(full, Slash, Slash) = Cut(IF full # <<>> /\ full[1] = Slash THEN Tail(full) ELSE full, Slash)
    BY <2>3, Zenon DEF Segmented
  <2>5. QED BY <1>6, <2>1, <2>4, Zenon
<1> HIDE DEF text
<1>9. ASSUME NEW i \in 1 .. L PROVE Placed(text, Len(h[i - 1]), location[i], Len(h[i]))
  <2> DEFINE a == Len(h[i - 1])
             b == Len(h[i])
             s == location[i]
  <2>1. PieceAt(full, h, location, i)
    BY <1>5
  <2>2. a \in Nat /\ b = a + Len(s) + 1 /\ b <= Len(full) /\ s \in Seq(NoSlash)
        /\ \A n \in 1 .. Len(s) : full[a + n + 1] = s[n]
    BY <2>1, Zenon DEF PieceAt
  <2>3. b <= Len(text) => text[b] = Slash
    <3> SUFFICES ASSUME b <= Len(text) PROVE text[b] = Slash
      OBVIOUS
    <3>1. i # L
      <4>1. i = L => b = Len(full)
        BY Zenon DEF full
      <4> HIDE DEF b, L, a, s, full
      <4>2. Len(s) \in Nat
        BY <2>2
      <4>3. b \in Nat
        <5>1. b = a + Len(s) + 1 /\ a \in Nat
          BY <2>2
        <5>2. QED BY <4>2, <5>1
      <4>4. Len(text) = Len(full) - 1 /\ Len(full) \in Nat
        BY <1>6, <1>7
      <4>5. b # Len(full)
        BY <4>3, <4>4
      <4>6. QED BY <4>1, <4>5
    <3> DEFINE j == i + 1
    <3>2. j \in 1 .. L /\ j - 1 = i
      BY <1>2, <3>1
    <3>3. PieceAt(full, h, location, j)
      BY <1>5, <3>2
    <3> HIDE DEF j
    <3>4. full[Len(h[j - 1]) + 1] = Slash
      BY <3>3, Zenon DEF PieceAt
    <3>5. full[b + 1] = Slash
      BY <3>2, <3>4, Zenon
    <3> HIDE DEF a, b, s
    <3>6. Len(s) \in Nat
      BY <2>2
    <3>7. b \in 1 .. Len(text)
      BY <1>6, <1>7, <2>2, <3>6
    <3>8. QED BY <1>7, <3>5, <3>7
  <2> HIDE DEF a, b, s
  <2>4. Len(s) \in Nat /\ b <= Len(text) + 1 /\ Len(text) \in Nat
    BY <1>6, <1>7, <2>2
  <2>5. Holds(text, a + 1, s)
    <3>1. ASSUME NEW n \in 1 .. Len(s) PROVE text[a + 1 + n - 1] = s[n]
      <4>1. a + n \in 1 .. Len(text) /\ a + 1 + n - 1 = a + n
        BY <1>6, <1>7, <2>2, <2>4
      <4>2. text[a + n] = full[a + n + 1]
        BY <1>7, <4>1
      <4>3. QED BY <2>2, <4>1, <4>2
    <3>2. a + 1 \in Nat
      BY <2>2
    <3>3. QED BY <3>1, <3>2 DEF Holds
  <2>6. Placed(text, a, s, b)
    BY <2>2, <2>3, <2>4, <2>5, Zenon DEF Placed
  <2>7. QED BY <2>6 DEF a, b, s
<1>10. Len(text) + 1 = Len(h[Len(location)])
  <2>1. Len(text) + 1 = Len(full)
    BY <1>6, <1>7
  <2>2. QED BY <2>1, Zenon DEF full
<1>11. PathText(text, h, location)
  BY <1>7, <1>8, <1>9, <1>10, Zenon DEF PathText
<1>12. QED BY <1>1, <1>11, Zenon
\* How many segments of a path are cut again: an empty last one of several is not.
Again(location) ==
  IF Len(location) > 1 /\ location[Len(location)] = <<>> THEN Len(location) - 1 ELSE Len(location)

\* How far the segments reach, and that there is room for the next one.
Reaches(L, M, N, p, len) ==
  /\ L \in Nat \ {0} /\ N \in Nat /\ p \in [0 .. L -> Nat] /\ len \in [1 .. L -> Nat]
  /\ p[0] = 0 /\ p[L] = N
  /\ \A i \in 1 .. L : p[i] = p[i - 1] + len[i] + 1 /\ p[i] <= N
  /\ M = IF L > 1 /\ len[L] = 0 THEN L - 1 ELSE L

\* Only the last segment that is read again reaches the end of the text.
LEMMA Room ==
  ASSUME NEW L, NEW M, NEW N, NEW p, NEW len, Reaches(L, M, N, p, len)
  PROVE  /\ M \in 1 .. L /\ p[M] + 1 >= N
         /\ \A i \in 1 .. M - 1 : p[i] + 1 < N
<1>1. /\ L \in Nat \ {0} /\ N \in Nat /\ p \in [0 .. L -> Nat] /\ len \in [1 .. L -> Nat]
      /\ p[0] = 0 /\ p[L] = N
      /\ \A i \in 1 .. L : p[i] = p[i - 1] + len[i] + 1 /\ p[i] <= N
      /\ M = IF L > 1 /\ len[L] = 0 THEN L - 1 ELSE L
  BY Zenon DEF Reaches
<1>2. M \in 1 .. L
  BY <1>1
<1>3. p[M] + 1 >= N
  <2>1. CASE L > 1 /\ len[L] = 0
    <3>1. M = L - 1 /\ L \in 1 .. L /\ L - 1 \in 0 .. L
      BY <1>1, <2>1
    <3>2. p[L] = p[L - 1] + 0 + 1 /\ p[L - 1] \in Nat
      BY <1>1, <2>1, <3>1
    <3>3. QED BY <1>1, <3>1, <3>2
  <2>2. CASE ~(L > 1 /\ len[L] = 0)
    BY <1>1, <2>2
  <2>3. QED BY <2>1, <2>2
<1>4. ASSUME NEW i \in 1 .. M - 1 PROVE p[i] + 1 < N
  <2> DEFINE j == i + 1
             k == j + 1
  <2>1. L \in Nat /\ N \in Nat /\ M \in Nat /\ M <= L
    BY <1>1, <1>2
  <2>2. j \in 1 .. L /\ j - 1 = i /\ i \in 0 .. L /\ j \in 0 .. L
    BY <2>1
  <2>3. p[j] = p[i] + len[j] + 1 /\ p[j] <= N /\ p[i] \in Nat /\ p[j] \in Nat /\ len[j] \in Nat
    <3> HIDE DEF j
    <3>1. QED BY <1>1, <2>2
  <2>4. CASE j < L
    <3>1. k \in 1 .. L /\ k - 1 = j
      <4> HIDE DEF j
      <4>1. QED BY <2>1, <2>2, <2>4
    <3> HIDE DEF j, k
    <3>2. p[k] = p[j] + len[k] + 1 /\ p[k] <= N /\ len[k] \in Nat
      BY <1>1, <3>1
    <3>3. p[i] + 1 <= p[j] /\ p[j] + 1 <= N
      BY <2>1, <2>3, <3>2
    <3>4. p[i] + 1 < N
      BY <2>1, <2>3, <3>3
    <3>5. QED BY <3>4
  <2>5. CASE j = L
    <3>1. ~(L > 1 /\ len[L] = 0) /\ L > 1
      BY <1>1, <1>2, <2>5
    <3>2. len[j] > 0
      BY <2>3, <2>5, <3>1
    <3> HIDE DEF j
    <3>3. p[i] + 1 < p[j]
      BY <2>3, <3>2
    <3>4. QED BY <2>1, <2>3, <3>3
  <2>6. j < L \/ j = L
    BY <1>1, <2>2
  <2>7. QED BY <2>4, <2>5, <2>6
<1>5. QED BY <1>2, <1>3, <1>4

\* How far each segment of a path reaches in its text.
LEMMA PathReaches ==
  ASSUME NEW location \in Seq(Seq(NoSlash)), location # <<>>, NEW h, PathStack(location, h),
         NEW text, PathText(text, h, location)
  PROVE  Reaches(Len(location), Again(location), Len(text) + 1,
                 [i \in 0 .. Len(location) |-> Len(h[i])],
                 [i \in 1 .. Len(location) |-> Len(location[i])])
<1> DEFINE L == Len(location)
           M == Again(location)
           N == Len(text) + 1
           p == [i \in 0 .. L |-> Len(h[i])]
           len == [i \in 1 .. L |-> Len(location[i])]
<1>1. /\ h \in [0 .. L -> Seq(NonZero)] /\ h[0] = <<>>
      /\ text \in Seq(NonZero) /\ N = Len(h[L])
      /\ \A i \in 1 .. L : Placed(text, Len(h[i - 1]), location[i], Len(h[i]))
  BY Zenon DEF PathStack, PathText
<1>2. L \in Nat \ {0} /\ N \in Nat /\ L \in 0 .. L /\ L \in 1 .. L /\ 0 \in 0 .. L
  <2>1. L \in Nat \ {0}
    BY EmptySeq
  <2>2. N \in Nat
    BY <1>1
  <2> HIDE DEF L, N
  <2>3. QED BY <2>1, <2>2
<1>3. \A i \in 1 .. L : location[i] \in Seq(NoSlash) /\ Len(location[i]) \in Nat
  OBVIOUS
<1>4. \A i \in 0 .. L : Len(h[i]) \in Nat
  <2> HIDE DEF L
  <2>1. QED BY <1>1
<1>5. p \in [0 .. L -> Nat] /\ len \in [1 .. L -> Nat]
  <2> HIDE DEF L
  <2>1. QED BY <1>3, <1>4
<1>6. p[0] = 0 /\ p[L] = N
  <2> HIDE DEF L, N
  <2>1. Len(h[0]) = 0
    BY <1>1
  <2>2. QED BY <1>1, <1>2, <2>1
<1>7. ASSUME NEW i \in 1 .. L PROVE p[i] = p[i - 1] + len[i] + 1 /\ p[i] <= N
  <2>1. Placed(text, Len(h[i - 1]), location[i], Len(h[i]))
    BY <1>1
  <2>2. Len(h[i]) = Len(h[i - 1]) + Len(location[i]) + 1 /\ Len(h[i]) <= N
    BY <2>1, Zenon DEF Placed
  <2>3. i \in 0 .. L /\ i - 1 \in 0 .. L
    BY <1>2
  <2> HIDE DEF L, N
  <2>4. p[i] = Len(h[i]) /\ p[i - 1] = Len(h[i - 1]) /\ len[i] = Len(location[i])
    BY <2>3, Zenon
  <2> HIDE DEF p, len
  <2>5. QED BY <2>2, <2>4
<1>8. M = IF L > 1 /\ len[L] = 0 THEN L - 1 ELSE L
  <2>1. location[L] = <<>> <=> Len(location[L]) = 0
    <3> DEFINE s == location[L]
    <3>1. s \in Seq(NoSlash)
      BY <1>2, <1>3
    <3> HIDE DEF s
    <3>2. s = <<>> <=> Len(s) = 0
      BY <3>1, EmptySeq
    <3>3. QED BY <3>2 DEF s
  <2>2. len[L] = Len(location[L])
    <3> HIDE DEF L
    <3>1. QED BY <1>2
  <2> HIDE DEF L, len
  <2>3. M = IF L > 1 /\ location[L] = <<>> THEN L - 1 ELSE L
    BY Zenon DEF Again, L
  <2>4. QED BY <2>1, <2>2, <2>3
<1> HIDE DEF L, M, N, p, len
<1>9. Reaches(L, M, N, p, len)
  BY <1>2, <1>5, <1>6, <1>7, <1>8, Zenon DEF Reaches
<1>10. QED BY <1>9, Zenon DEF L, M, N, p, len

\* A round that has come to a segment takes it.
Ready(text, out, q, a) == out = [segments |-> q, at |-> a + 1] /\ (q = <<>> \/ a + 1 <= Len(text))
Takes(text, out, q, s, b) == NextSegment(text, Slash, out) = [segments |-> Append(q, s), at |-> b + 1]

\* A round of the cutter takes the segment it has come to.
LEMMA RoundTakes ==
  ASSUME NEW text \in Seq(Byte), NEW a, NEW s, NEW b, Placed(text, a, s, b), NEW q,
         NEW out, Ready(text, out, q, a)
  PROVE  Takes(text, out, q, s, b)
  BY PlacedRound DEF Ready, Takes

\* The path is cut where it was put together.
LEMMA CutOf ==
  ASSUME NEW location \in Seq(Seq(NoSlash)), location # <<>>, NEW h, PathStack(location, h),
         NEW text, PathText(text, h, location)
  PROVE  Cut(text, Slash) = SubSeq(location, 1, Again(location)) /\ Again(location) \in 1 .. Len(location)
<1> DEFINE L == Len(location)
           M == Again(location)
           N == Len(text) + 1
           p == [i \in 0 .. L |-> Len(h[i])]
           len == [i \in 1 .. L |-> Len(location[i])]
<1>1. Reaches(L, M, N, p, len)
  BY PathReaches
<1>2. /\ text \in Seq(NonZero)
      /\ \A i \in 1 .. L : Placed(text, Len(h[i - 1]), location[i], Len(h[i]))
  BY Zenon DEF PathText
<1>3. text \in Seq(Byte) /\ Len(text) \in Nat
  <2>1. NonZero \subseteq Byte
    BY DEF NonZero
  <2>2. QED BY <1>2, <2>1
<1>4. PICK f : Cuts(text, Slash, f) /\ Cut(text, Slash) = f[Len(text) + 1].segments
  BY <1>3, CutCourse
<1>5. \A i \in 1 .. L : Placed(text, p[i - 1], location[i], p[i])
  <2> SUFFICES ASSUME NEW i \in 1 .. L PROVE Placed(text, p[i - 1], location[i], p[i])
    OBVIOUS
  <2>1. i \in 0 .. L /\ i - 1 \in 0 .. L
    OBVIOUS
  <2> HIDE DEF L
  <2>2. p[i] = Len(h[i]) /\ p[i - 1] = Len(h[i - 1])
    BY <2>1, Zenon
  <2>3. QED BY <1>2, <2>2, Zenon
<1> HIDE DEF M, p, len
<1>6. M \in 1 .. L /\ p[M] + 1 >= N /\ \A i \in 1 .. M - 1 : p[i] + 1 < N
  <2> HIDE DEF L, N
  <2>1. QED BY <1>1, Room
<1>7. /\ L \in Nat \ {0} /\ N \in Nat /\ p \in [0 .. L -> Nat] /\ len \in [1 .. L -> Nat] /\ p[0] = 0
      /\ \A i \in 1 .. L : p[i] = p[i - 1] + len[i] + 1 /\ p[i] <= N
  BY <1>1, Zenon DEF Reaches
<1> DEFINE Here(i) == [segments |-> SubSeq(location, 1, i), at |-> p[i] + 1]
           T == {i \in 0 .. M : f[i] = Here(i) /\ i <= p[i]}
<1>8. 0 \in T
  <2>1. f[0] = [segments |-> <<>>, at |-> 1]
    BY <1>4, Zenon DEF Cuts
  <2>2. SubSeq(location, 1, 0) = <<>>
    BY SubSeqEmpty
  <2>3. p[0] + 1 = 1
    BY <1>7
  <2>4. f[0] = Here(0)
    BY <2>1, <2>2, <2>3, Zenon
  <2> HIDE DEF Here, L, N
  <2>5. 0 \in 0 .. M /\ 0 <= p[0]
    BY <1>6, <1>7
  <2>6. QED BY <2>4, <2>5
<1>9. ASSUME NEW i \in T, i \in Nat, i < M PROVE i + 1 \in T
  <2> DEFINE j == i + 1
             q == SubSeq(location, 1, i)
             s == location[j]
  <2>1. j \in 1 .. L /\ j \in 1 .. M /\ j \in 0 .. M /\ j - 1 = i /\ i \in 0 .. L - 1 /\ i \in 0 .. L /\ j \in 0 .. L
    BY <1>6, <1>9
  <2>2. f[i] = Here(i) /\ i <= p[i]
    OBVIOUS
  <2>3. SubSeq(location, 1, j) = Append(q, s)
    <3> DEFINE P == Seq(NoSlash)
    <3>1. location \in Seq(P) /\ i \in 0 .. Len(location) - 1
      BY <2>1
    <3> HIDE DEF P
    <3>2. SubSeq(location, 1, i + 1) = SubSeq(location, 1, i) \o <<location[i + 1]>>
      BY <3>1, LongerPrefix
    <3>3. q \in Seq(P) /\ s \in P
      <4>1. 1 \in Int /\ i \in Int /\ \A k \in 1 .. i : location[k] \in P
        BY <3>1
      <4>2. q \in Seq(P)
        BY <4>1, SubSeqProperties
      <4>3. s \in P
        BY <2>1, <3>1
      <4>4. QED BY <4>2, <4>3
    <3> HIDE DEF q, s
    <3>4. Append(q, s) = q \o <<s>>
      BY <3>3, AppendIsConcat
    <3>5. QED BY <3>2, <3>4 DEF q, s
  <2> HIDE DEF L, N, T, j, s
  <2>4. p[i] \in Nat /\ p[j] \in Nat /\ len[j] \in Nat /\ p[j] = p[i] + len[j] + 1 /\ p[j] <= N
    BY <1>7, <2>1
  <2>5. j <= p[j] /\ j \in 1 .. N
    <3>1. j = i + 1 /\ i \in Nat
      BY <1>9 DEF j
    <3>2. j <= p[j]
      BY <2>2, <2>4, <3>1
    <3>3. QED BY <1>7, <2>4, <3>1, <3>2
  <2>6. q = <<>> \/ p[i] + 1 <= Len(text)
    <3>1. CASE i = 0
      <4>1. q = <<>>
        BY <3>1, SubSeqEmpty
      <4>2. QED BY <4>1
    <3>2. CASE i # 0
      <4>1. i \in 1 .. M - 1
        BY <1>9, <3>2, <1>6, <1>7
      <4>2. p[i] + 1 < N
        BY <1>6, <4>1
      <4>3. QED BY <1>3, <2>4, <4>2 DEF N
    <3>3. QED BY <3>1, <3>2
  <2> HIDE DEF q
  <2>7. Placed(text, p[i], s, p[j])
    BY <1>5, <2>1, Zenon DEF s
  <2>8. f[i] = [segments |-> q, at |-> p[i] + 1]
    BY <2>2, Zenon DEF q
  <2>9. NextSegment(text, Slash, f[i]) = [segments |-> Append(q, s), at |-> p[j] + 1]
    <3> DEFINE out == f[i]
               a == p[i]
               b == p[j]
    <3>1. Ready(text, out, q, a)
      BY <2>6, <2>8, Zenon DEF Ready
    <3>2. text \in Seq(Byte) /\ Placed(text, a, s, b)
      BY <1>3, <2>7
    <3> HIDE DEF out, a, b
    <3>3. Takes(text, out, q, s, b)
      BY <3>1, <3>2, RoundTakes
    <3>4. QED BY <3>3, Zenon DEF out, a, b, Takes
  <2>10. f[j] = NextSegment(text, Slash, f[i])
    <3>1. f[j] = NextSegment(text, Slash, f[j - 1])
      BY <1>4, <2>5, Zenon DEF Cuts, N
    <3>2. QED BY <2>1, <3>1, Zenon
  <2>11. f[j] = Here(j)
    BY <2>3, <2>9, <2>10, Zenon
  <2> HIDE DEF Here
  <2>12. j \in T
    BY <2>1, <2>5, <2>11, Zenon DEF T
  <2>13. QED BY <2>12 DEF j
<1>10. \A i \in 0 .. M : i \in T
  <2>1. M \in Nat
    <3> HIDE DEF T, L, N
    <3>1. QED BY <1>6, <1>7
  <2> HIDE DEF T, L, N
  <2>2. QED BY <1>8, <1>9, <2>1, Upwards
<1>11. f[M] = Here(M) /\ M <= p[M] /\ M \in 0 .. N
  <2> HIDE DEF L, N, Here
  <2>1. M \in 0 .. M /\ M \in Nat
    BY <1>6, <1>7
  <2>2. M \in T
    <3> HIDE DEF T
    <3>1. QED BY <1>10, <2>1
  <2>3. f[M] = Here(M) /\ M <= p[M]
    BY <2>2
  <2>4. p[M] <= N /\ p[M] \in Nat
    BY <1>6, <1>7
  <2>5. QED BY <1>7, <2>1, <2>3, <2>4
<1>12. f[M].segments = SubSeq(location, 1, M) /\ f[M].at = p[M] + 1
  BY <1>11
<1>13. f[M].segments # <<>>
  <2>1. 1 \in 1 .. M /\ M <= Len(location) /\ M \in Nat /\ M >= 1
    BY <1>6
  <2>2. location \in Seq(Seq(NoSlash))
    OBVIOUS
  <2> HIDE DEF L, N, T, Here
  <2>3. Len(SubSeq(location, 1, M)) = M
    <3> DEFINE P == Seq(NoSlash)
    <3>1. 1 \in Int /\ M \in Int /\ \A k \in 1 .. M : location[k] \in P
      BY <2>1
    <3> HIDE DEF P
    <3>2. Len(SubSeq(location, 1, M)) = IF 1 <= M THEN M - 1 + 1 ELSE 0
      BY <3>1, SubSeqProperties
    <3>3. QED BY <2>1, <3>2
  <2>4. SubSeq(location, 1, M) # <<>>
    <3> DEFINE x == SubSeq(location, 1, M)
    <3>1. Len(x) = M /\ M \in Nat /\ M >= 1
      BY <2>1, <2>3
    <3> HIDE DEF x
    <3>2. x # <<>>
      BY <3>1
    <3>3. QED BY <3>2 DEF x
  <2>5. QED BY <1>12, <2>4
<1>14. f[M].at > Len(text)
  <2>1. p[M] \in Nat /\ p[M] + 1 >= Len(text) + 1
    <3> HIDE DEF L, N, T, Here
    <3>1. M \in 0 .. L
      BY <1>6, <1>7
    <3>2. p[M] \in Nat /\ p[M] + 1 >= N
      BY <1>6, <1>7, <3>1
    <3>3. QED BY <3>2, Zenon DEF N
  <2>2. QED BY <1>3, <1>12, <2>1
<1>15. f[Len(text) + 1] = f[M]
  <2>1. M \in 0 .. Len(text) + 1
    BY <1>11
  <2> HIDE DEF L, N, T, Here
  <2>2. QED BY <1>3, <1>4, <1>13, <1>14, <2>1, CutEnds
<1>16. Cut(text, Slash) = SubSeq(location, 1, M) /\ M \in 1 .. L
  BY <1>4, <1>6, <1>12, <1>15, Zenon
<1>17. QED BY <1>16, Zenon DEF M
\* A path that can be read back is made of plain segments, the last of several not empty.
Readable(location) ==
  /\ location # <<>>
  /\ \A k \in DOMAIN location : \A i \in DOMAIN location[k] : location[k][i] \notin {Slash, 0}
  /\ Len(location) > 1 => location[Len(location)] # <<>>

\* A sequence whose elements are in a set is one over that set.
LEMMA Members ==
  ASSUME NEW S, NEW T, NEW s \in Seq(T), \A i \in 1 .. Len(s) : s[i] \in S
  PROVE  s \in Seq(S)
<1>1. s = [i \in 1 .. Len(s) |-> s[i]] /\ Len(s) \in Nat
  OBVIOUS
<1>2. QED BY <1>1

\* Segments without slashes and zeros, as a type.
LEMMA PlainPath ==
  ASSUME NEW location \in Seq(Seq(Byte)),
         \A k \in DOMAIN location : \A i \in DOMAIN location[k] : location[k][i] \notin {Slash, 0}
  PROVE  location \in Seq(Seq(NoSlash))
<1>1. ASSUME NEW k \in 1 .. Len(location) PROVE location[k] \in Seq(NoSlash)
  <2> DEFINE s == location[k]
  <2>1. s \in Seq(Byte) /\ k \in DOMAIN location
    OBVIOUS
  <2>2. \A i \in DOMAIN s : s[i] \notin {Slash, 0}
    BY <2>1
  <2> HIDE DEF s
  <2>3. \A i \in 1 .. Len(s) : s[i] \in Byte /\ s[i] # Slash /\ s[i] # 0
    BY <2>1, <2>2
  <2>4. \A i \in 1 .. Len(s) : s[i] \in NoSlash
    BY <2>3 DEF NoSlash, NonZero
  <2>5. s \in Seq(NoSlash)
    BY <2>1, <2>4, Members
  <2>6. QED BY <2>5 DEF s
<1> DEFINE P == Seq(NoSlash)
<1>2. location = [k \in 1 .. Len(location) |-> location[k]] /\ Len(location) \in Nat
  OBVIOUS
<1>3. \A k \in 1 .. Len(location) : location[k] \in P
  BY <1>1
<1> HIDE DEF P
<1>4. location \in Seq(P)
  BY <1>2, <1>3
<1>5. QED BY <1>4 DEF P

\* The text of a path is made of bytes.
LEMMA PathTyped ==
  ASSUME NEW location \in Seq(Seq(Byte))
  PROVE  coap_get_multi_option_as_string(location) \in Seq(Byte)
<1> DEFINE pieces == [k \in DOMAIN location |-> <<Slash>> \o location[k]]
           L == Len(location)
           P == Seq(Byte)
<1>1. L \in Nat /\ DOMAIN location = 1 .. L /\ \A k \in 1 .. L : location[k] \in P
  OBVIOUS
<1>2. \A s \in P : <<Slash>> \o s \in P
  <2>1. Slash \in Byte
    BY DEF Slash, Byte
  <2> SUFFICES ASSUME NEW s \in P PROVE <<Slash>> \o s \in P
    OBVIOUS
  <2> DEFINE one == <<Slash>>
  <2>2. one \in Seq(Byte) /\ s \in Seq(Byte)
    BY <2>1
  <2> HIDE DEF one
  <2>3. one \o s \in Seq(Byte)
    BY <2>2
  <2>4. QED BY <2>3 DEF one
<1>3. pieces \in [1 .. L -> P]
  <2> HIDE DEF P, L
  <2>1. \A k \in 1 .. L : <<Slash>> \o location[k] \in P
    BY <1>1, <1>2
  <2>2. QED BY <1>1, <2>1
<1>4. pieces \in Seq(P) /\ Len(pieces) = L
  <2> HIDE DEF pieces, P, L
  <2>1. QED BY <1>1, <1>3
<1>5. PICK h \in [0 .. Len(pieces) -> Seq(Byte)] : Flat(pieces) = h[Len(pieces)]
  <2> HIDE DEF pieces
  <2>1. QED BY <1>4, FlatCourse
<1>6. Flat(pieces) \in Seq(Byte)
  <2>1. Len(pieces) \in 0 .. Len(pieces)
    BY <1>1, <1>4
  <2> HIDE DEF pieces
  <2>2. QED BY <1>5, <2>1
<1>7. QED BY <1>6, Zenon DEF coap_get_multi_option_as_string

\* What is cut out of a text has no slash in it, and something is.
LEMMA PathCut ==
  ASSUME NEW text \in Seq(Byte)
  PROVE  Segmented(text, Slash, Slash) \in Seq(Seq(NoSlash)) /\ Segmented(text, Slash, Slash) # <<>>
<1> DEFINE string == CString(text)
           rest == IF string # <<>> /\ string[1] = Slash THEN Tail(string) ELSE string
<1>1. string \in Seq(NonZero)
  BY StringPlain
<1> HIDE DEF string
<1>2. rest \in Seq(NonZero)
  BY <1>1, HeadTailProperties
<1>3. Segmented(text, Slash, Slash) = Cut(rest, Slash)
  BY Zenon DEF Segmented, string
<1> HIDE DEF rest
<1>4. Cut(rest, Slash) \in Seq(Seq(NoSlash)) /\ Cut(rest, Slash) # <<>>
  BY <1>2, CutsPlain
<1>5. QED BY <1>3, <1>4

\* A path of segments without slashes is read back, but for an empty one at its end.
LEMMA PathRead ==
  ASSUME NEW location \in Seq(Seq(NoSlash)), location # <<>>
  PROVE  /\ Segmented(coap_get_multi_option_as_string(location), Slash, Slash)
              = SubSeq(location, 1, Again(location))
         /\ Again(location) \in 1 .. Len(location)
<1>1. PICK text, h : PathStack(location, h) /\ PathText(text, h, location)
  BY PathLaid
<1>2. Cut(text, Slash) = SubSeq(location, 1, Again(location)) /\ Again(location) \in 1 .. Len(location)
  BY <1>1, CutOf
<1>3. QED BY <1>1, <1>2, Zenon DEF PathText

\* Which paths are read back, and which are not.
LEMMA LocationsRead == LocationReadsBack
<1>1. ASSUME NEW location \in Seq(Seq(Byte))
      PROVE  (Segmented(coap_get_multi_option_as_string(location), Slash, Slash) = location)
               <=> Readable(location)
  <2> DEFINE cut == Segmented(coap_get_multi_option_as_string(location), Slash, Slash)
             L == Len(location)
             plain == \A k \in DOMAIN location : \A i \in DOMAIN location[k] : location[k][i] \notin {Slash, 0}
  <2>1. cut \in Seq(Seq(NoSlash)) /\ cut # <<>>
    BY PathTyped, PathCut
  <2>2. cut = location => location # <<>> /\ location \in Seq(Seq(NoSlash))
    BY <2>1
  <2>3. location \in Seq(Seq(NoSlash)) => plain
    <3> SUFFICES ASSUME location \in Seq(Seq(NoSlash)), NEW k \in DOMAIN location, NEW i \in DOMAIN location[k]
                 PROVE  location[k][i] \notin {Slash, 0}
      OBVIOUS
    <3> DEFINE s == location[k]
    <3>1. s \in Seq(NoSlash)
      OBVIOUS
    <3> HIDE DEF s
    <3>2. i \in DOMAIN s => s[i] \in NoSlash
      BY <3>1
    <3>3. location[k][i] \in NoSlash
      BY <3>2 DEF s
    <3>4. QED BY <3>3 DEF NoSlash, NonZero
  <2>4. plain => location \in Seq(Seq(NoSlash))
    BY PlainPath
  <2> HIDE DEF cut
  <2>5. ASSUME location \in Seq(Seq(NoSlash)), location # <<>>
        PROVE  cut = location <=> (L > 1 => location[L] # <<>>)
    <3> DEFINE M == Again(location)
               x == SubSeq(location, 1, M)
    <3>1. cut = x /\ M \in 1 .. L
      BY <2>5, PathRead DEF cut
    <3>2. M = IF L > 1 /\ location[L] = <<>> THEN L - 1 ELSE L
      BY Zenon DEF Again
    <3>3. L \in Nat
      OBVIOUS
    <3>4. CASE L > 1 => location[L] # <<>>
      <4>1. M = L
        BY <3>2, <3>4
      <4>2. SubSeq(location, 1, L) = location
        BY SubSeqFull
      <4>3. QED BY <3>1, <3>4, <4>1, <4>2
    <3>5. CASE ~(L > 1 => location[L] # <<>>)
      <4>1. M = L - 1
        BY <3>2, <3>5
      <4>2. Len(x) = M
        <5> DEFINE P == Seq(NoSlash)
        <5>1. 1 \in Int /\ M \in Int /\ 1 <= M /\ M - 1 + 1 = M
          BY <3>1
        <5>2. \A k \in 1 .. M : location[k] \in P
          <6>1. location \in Seq(P)
            BY <2>5
          <6> HIDE DEF P
          <6>2. \A k \in 1 .. L : location[k] \in P
            BY <6>1
          <6> HIDE DEF L, M
          <6>3. QED BY <3>1, <3>3, <6>2
        <5> HIDE DEF P, M
        <5>3. Len(SubSeq(location, 1, M)) = IF 1 <= M THEN M - 1 + 1 ELSE 0
          BY <5>1, <5>2, SubSeqProperties
        <5>4. QED BY <5>1, <5>3
      <4> HIDE DEF x, M
      <4>3. Len(x) # Len(location)
        BY <3>3, <4>1, <4>2
      <4>4. cut # location
        BY <3>1, <4>3
      <4>5. QED BY <3>5, <4>4
    <3>6. QED BY <3>4, <3>5
  <2> HIDE DEF L, plain
  <2>6. Readable(location) <=> location # <<>> /\ plain /\ (L > 1 => location[L] # <<>>)
    BY Zenon DEF Readable, plain, L
  <2>7. cut = location <=> Readable(location)
    BY <2>2, <2>3, <2>4, <2>5, <2>6
  <2>8. QED BY <2>7 DEF cut
<1>2. \A location \in Locations : location \in Seq(Seq(Byte))
  BY CodecAssumption
<1>3. QED BY <1>1, <1>2, Zenon DEF LocationReadsBack, Readable

\* What is written as bytes is read back from them, whichever messages are written and
\* whichever paths a server gives: headers of options, whole messages, and the paths
\* that can be read back, of which no other is.
THEOREM CodecMeansTheSame == Spec => []CodecReadsBack
<1>1. CodecReadsBack
  BY MessagesRead, HeadersRead, LocationsRead, Zenon DEF CodecReadsBack
<1>2. QED BY <1>1, PTL
=============================================================================
