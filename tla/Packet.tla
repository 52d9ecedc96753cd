--------------------------------- MODULE Packet ---------------------------------
(***************************************************************************)
(* One datagram through lwm2m_handle_packet (wakaama/packet.c): what is    *)
(* parsed, done and answered, which blocks of memory it takes and gives    *)
(* back, and what happens when an allocation or the network fails halfway. *)
(*                                                                         *)
(* The objects are one resource that can be read and written, beside       *)
(* creations, executions and deletions that succeed or not (Objects says   *)
(* when); a response goes to a transaction that knows it or not (see       *)
(* Transaction).  A payload is the value it carries, cut into blocks.      *)
(***************************************************************************)
EXTENDS Uri, Codec, FiniteSets

CONSTANTS
  Values,    \* contents of the resource
  Refused,   \* those a write of is refused
  Blocks,    \* blocks each content fills, none if it is empty
  Resource,  \* its URI
  Datagrams, \* what may arrive
  Failing,   \* what may fail: memory for the "uri", for what the "objects" read or
             \* write, for the answer ("alloc"), or to "send" it
  None

Types == {"CON", "NON", "ACK", "RST"}
Methods == {"GET", "POST", "PUT", "DELETE"}
Faults == {"none", "header", "option"}   \* where coap_parse_message stops
Message == [type : Types, code : Methods \cup {"response"}, mid : Nat, path : Seq(Segments),
            value : Values \cup {None}, block1 : BOOLEAN, block2 : Nat \cup {None},
            fault : Faults]

ASSUME PacketAssumption ==
  /\ Datagrams \subseteq Message
  /\ None \notin Values /\ None \notin Nat /\ "BlockOutOfScope" \notin Values
  /\ Refused \subseteq Values /\ Blocks \in [Values -> Nat]
  /\ Failing \subseteq {"uri", "objects", "alloc", "send"}

Done == {"2.01", "2.02", "2.04"}
Successes == {"2.05"} \cup Done
Errors == {"4.00", "4.02", "4.04", "4.05", "5.00"}
Answer == [type : Types, code : Successes \cup Errors \cup {"0.00", "ignore"},
           mid : Nat \cup {None}, token : Nat \cup {None},
           content : Values \cup {None, "BlockOutOfScope"}]

VARIABLES
  stage,     \* where lwm2m_handle_packet is
  message,   \* the datagram, parsed
  response,  \* the answer, which outlives the call: both are static
  payload,   \* what response->payload points at
  error,     \* coap_error_code
  heap,      \* blocks of memory somebody points at
  lost,      \* blocks of memory nobody pointed at any more, ever
  damage,    \* free has been given what malloc never returned
  value,     \* content of the resource
  acted,     \* the message has changed the objects
  sending,   \* how the last try to send the response ended
  answers    \* what was sent back for the message

handling == <<stage, message, response, payload, error, heap, lost, damage, acted, sending, answers>>
packetVars == <<handling, value>>

TypeOK ==
  /\ stage \in {"idle", "handle_request", "blockwise", "answer", "responses", "release", "refuse"}
  /\ message \in Datagrams \cup {None} /\ (stage # "idle" => message \in Datagrams)
  /\ response \in Answer \cup {None} /\ (stage \in {"blockwise", "answer"} => response \in Answer)
  /\ payload \in {"none", "buffer", "inside", "constant"}
  /\ error \in Errors \cup {"none", "ignore"}
  /\ heap \subseteq {"path", "payload", "location"} /\ lost \subseteq {"path", "payload", "location"}
  /\ damage \in BOOLEAN /\ acted \in BOOLEAN
  /\ value \in Values \ Refused
  /\ sending \in {"sent", "alloc", "send"}
  /\ answers \in Seq(Answer)

Init ==
  /\ stage = "idle" /\ message = None /\ response = None /\ payload = "none" /\ error = "none"
  /\ heap = {} /\ lost = {} /\ damage = FALSE
  /\ value \in Values \ Refused
  /\ acted = FALSE /\ sending = "sent" /\ answers = <<>>

-----------------------------------------------------------------------------
(* Parsing. *)

FaultCode(d) == IF d.fault = "none" THEN "none" ELSE IF d.fault = "header" THEN "4.00" ELSE "4.02"

\* coap_parse_message: the header gives the type and the ID before anything can go
\* wrong, the options of the path are copied to the heap one by one.
coap_parse_message(d) ==
  /\ stage = "idle"
  /\ message' = d
  /\ heap' = IF d.fault = "header" \/ d.path = <<>> THEN heap ELSE heap \cup {"path"}
  /\ error' = FaultCode(d)
  /\ stage' = IF d.fault # "none" THEN "refuse"
              ELSE IF d.code \in Methods THEN "handle_request" ELSE "responses"
  /\ lost' = lost \cup (heap \cap {"path"})
  /\ acted' = FALSE /\ answers' = <<>>
  /\ UNCHANGED <<response, payload, damage, value, sending>>

-----------------------------------------------------------------------------
(* Requests. *)

Result(code, content, location, new) ==
  [code |-> code, content |-> content, location |-> location, value |-> new, acted |-> code \in Done]
Plain(code) == Result(code, None, {}, value)
Refusals == {Plain(code) : code \in {"4.00", "4.04", "4.05", "5.00"}}
NoMemory == IF "objects" \in Failing THEN {Plain("5.00")} ELSE {}

\* A write of several resources of an instance goes through them until one is refused;
\* those before that one stay written.
WriteInstance(u) ==
  LET written == {value} \cup (IF u = [Resource EXCEPT !.resourceId = Unset]
                                 THEN {message.value} \cap (Values \ Refused) ELSE {})
  IN  {[Result(code, None, {}, v) EXCEPT !.acted = TRUE] :
         code \in {"2.04", "4.00", "4.04", "4.05"}, v \in written}

\* handle_dm_request, as far as the answer depends on it.
handle_dm_request_IgnoresRefusal(u) ==
  IF u = Resource /\ message.code = "GET" THEN {Result("2.05", value, {}, value)}
  ELSE IF u = Resource /\ message.code = "PUT"
    THEN {Result("2.04", None, {}, IF message.value \in Refused THEN value ELSE message.value)}
  ELSE {Plain("4.04")}
handle_dm_request(u) ==
  [GET    |-> NoMemory \cup (IF u = Resource THEN {Result("2.05", value, {}, value)}
                                             ELSE {Plain("4.04")}),
   PUT    |-> IF u.instanceId = Unset THEN {Plain("4.00")}
              ELSE IF u.resourceId = Unset THEN Refusals \cup WriteInstance(u)
              ELSE IF u # Resource THEN Refusals \cup {Plain("2.04")}
              ELSE IF message.value \in Values \ Refused
                THEN NoMemory \cup {Result("2.04", None, {}, message.value)}
              ELSE NoMemory \cup {Plain("4.00")},
   POST   |-> Refusals
                \cup (IF u.instanceId = Unset THEN {Result("2.01", None, {"location"}, value)}
                      ELSE IF u.resourceId = Unset THEN WriteInstance(u) \cup {Plain("2.01")}
                      ELSE {Plain("2.04")}),
   DELETE |-> IF u.instanceId = Unset \/ u.resourceId # Unset THEN {Plain("4.00")}
              ELSE Refusals \cup {Plain("2.02")}][message.code]

\* What the request of uri u leads to; only the DM requests of a known server are
\* answered at all.
Results(u, known) ==
  IF u = Null THEN {Plain("4.00")}
  ELSE IF u.type = "DM" /\ known THEN handle_dm_request(u)
  ELSE {Plain("ignore")}

\* A confirmable request is answered by an ACK with its ID, another one by a NON
\* with an ID of the client's own.
AnswerTo_NoToken(d, r) ==
  [type |-> IF d.type = "CON" THEN "ACK" ELSE "NON", code |-> r.code,
   mid |-> IF d.type = "CON" THEN d.mid ELSE None, token |-> None, content |-> r.content]
AnswerTo(d, r) ==
  [type |-> IF d.type = "CON" THEN "ACK" ELSE "NON", code |-> r.code,
   mid |-> IF d.type = "CON" THEN d.mid ELSE None, token |-> d.mid, content |-> r.content]

\* What coap_init_message makes the response forget.
ResponseBlocks == {"payload", "location"}

handle_request(known) ==
  /\ stage = "handle_request"
  /\ \E u \in {lwm2m_decode_uri(Unset, message.path)} \cup (IF "uri" \in Failing THEN {Null} ELSE {}) :
       \E r \in Results(u, known) :
         /\ response' = AnswerTo(message, r)
         /\ payload' = IF r.content = None THEN "none" ELSE "buffer"
         /\ heap' = (heap \ ResponseBlocks) \cup r.location
                      \cup (IF r.content = None THEN {} ELSE {"payload"})
         /\ error' = IF r.code \in Successes THEN "none" ELSE r.code
         /\ stage' = IF r.code \in Successes THEN "blockwise"
                     ELSE IF r.code = "ignore" THEN "release" ELSE "answer"
         /\ value' = r.value
         /\ acted' = r.acted
  /\ lost' = lost \cup (heap \cap ResponseBlocks)
  /\ UNCHANGED <<message, damage, sending, answers>>

\* A Block1 option is met with an error code nobody reads and hides a Block2 one;
\* a Block2 option moves response->payload to the block, or to a constant.
OutOfScope_NoLength == message.block2 >= 0
OutOfScope == message.block2 >= (IF response.content = None THEN 0 ELSE Blocks[response.content])

blockwise ==
  /\ stage = "blockwise"
  /\ IF message.block1 \/ message.block2 = None
       THEN UNCHANGED <<response, payload>>
       ELSE IF OutOfScope
         THEN /\ response' = [response EXCEPT !.code = "4.02", !.content = "BlockOutOfScope"]
              /\ payload' = "constant"
         ELSE /\ payload' = IF message.block2 = 0 THEN payload ELSE "inside"
              /\ UNCHANGED response
  /\ stage' = "answer"
  /\ UNCHANGED <<message, error, heap, lost, damage, value, acted, sending, answers>>

-----------------------------------------------------------------------------
(* Sending. *)

\* How message_send may end; it takes the location options with it once it has
\* serialised them.
Sendings == {"sent"} \cup (Failing \cap {"alloc", "send"})
Serialised(how) == IF how = "alloc" THEN {} ELSE {"location"}
SendResult(how) == IF how = "sent" THEN "none" ELSE "5.00"
Sent(how, a) == IF how = "sent" THEN Append(answers, a) ELSE answers

\* The answer is sent and its payload freed, wherever it points by now.
answer_FreedIfSent(how) ==
  /\ stage = "answer"
  /\ answers' = Sent(how, response)
  /\ error' = SendResult(how)
  /\ heap' = heap \ (Serialised(how) \cup (IF how = "sent" THEN {"payload"} ELSE {}))
  /\ lost' = IF payload = "buffer" THEN lost ELSE lost \cup (heap \cap {"payload"})
  /\ damage' = (damage \/ payload \in {"inside", "constant"})
  /\ payload' = "none"
  /\ sending' = how
  /\ stage' = "release"
  /\ UNCHANGED <<message, response, value, acted>>
answer(how) ==
  /\ stage = "answer"
  /\ answers' = Sent(how, response)
  /\ error' = SendResult(how)
  /\ heap' = heap \ (Serialised(how) \cup {"payload"})
  /\ lost' = IF payload = "buffer" THEN lost ELSE lost \cup (heap \cap {"payload"})
  /\ damage' = (damage \/ payload \in {"inside", "constant"})
  /\ payload' = "none"
  /\ sending' = how
  /\ stage' = "release"
  /\ UNCHANGED <<message, response, value, acted>>

\* A response, an ACK or a reset goes to the transactions; a confirmable response
\* is acknowledged by them or, when none knows it, here.
EmptyAck(d) == [type |-> "ACK", code |-> "0.00", mid |-> d.mid, token |-> None, content |-> None]

responses_AllAcknowledged(done, how) ==
  /\ stage = "responses"
  /\ response' = EmptyAck(message)
  /\ answers' = Sent(how, EmptyAck(message))
  /\ error' = IF done THEN "none" ELSE SendResult(how)
  /\ heap' = heap \ ResponseBlocks /\ lost' = lost \cup (heap \cap ResponseBlocks)
  /\ sending' = how
  /\ stage' = "release"
  /\ UNCHANGED <<message, payload, damage, value, acted>>
responses(done, how) ==
  /\ stage = "responses"
  /\ IF message.type = "CON"
       THEN /\ response' = EmptyAck(message)
            /\ answers' = Sent(how, EmptyAck(message))
            /\ error' = IF done THEN "none" ELSE SendResult(how)
            /\ heap' = heap \ ResponseBlocks /\ lost' = lost \cup (heap \cap ResponseBlocks)
            /\ sending' = how
       ELSE UNCHANGED <<response, answers, error, heap, lost, sending>>
  /\ stage' = "release"
  /\ UNCHANGED <<message, payload, damage, value, acted>>

\* coap_free_header, which a message that was not parsed never reaches.
release_ForgetsTest ==
  /\ stage = "release"
  /\ heap' = heap \ {"path"}
  /\ stage' = "refuse"
  /\ UNCHANGED <<message, response, payload, error, lost, damage, value, acted, sending, answers>>
release ==
  /\ stage = "release"
  /\ heap' = heap \ {"path"}
  /\ stage' = IF error \in {"none", "ignore"} THEN "idle" ELSE "refuse"
  /\ UNCHANGED <<message, response, payload, error, lost, damage, value, acted, sending, answers>>

\* The input is turned into an ACK with the error, whatever it was.
ErrorAck_OwnId(d) == [type |-> "ACK", code |-> error, mid |-> None, token |-> None, content |-> None]
ErrorAck(d) == [type |-> "ACK", code |-> error, mid |-> d.mid, token |-> None, content |-> None]

refuse(how) ==
  /\ stage = "refuse"
  /\ answers' = Sent(how, ErrorAck(message))
  /\ heap' = heap \ {"path"} /\ lost' = lost \cup (heap \cap {"path"})
  /\ stage' = "idle"
  /\ UNCHANGED <<message, response, payload, error, damage, value, acted, sending>>

lwm2m_handle_packet ==
  \/ \E known \in BOOLEAN : handle_request(known)
  \/ blockwise
  \/ \E how \in Sendings : answer(how) \/ refuse(how) \/ \E done \in BOOLEAN : responses(done, how)
  \/ release

Next == lwm2m_handle_packet \/ \E d \in Datagrams : coap_parse_message(d)

Spec == Init /\ [][Next]_packetVars

-----------------------------------------------------------------------------
(* Properties. *)

\* No datagram is answered twice, though a second answer is tried when the first
\* could not be sent; and what answers us is answered only if it asks for it, so
\* that two ends never keep each other busy.
AnsweredOnce ==
  /\ Len(answers) <= 1
  /\ stage = "idle" /\ answers # <<>> /\ message.fault = "none"
       => message.code \in Methods \/ message.type = "CON"

\* The message writes resources of an instance, as many as it likes.
WritesInstance ==
  LET u == lwm2m_decode_uri(Unset, message.path)
  IN  message.code \in {"PUT", "POST"} /\ u.type = "DM" /\ u.instanceId # Unset /\ u.resourceId = Unset

\* An answer is about the request it answers and says what became of it: a success
\* is one, and what was done is called an error only when the first answer could
\* not be sent, when a block was asked for of an answer that had none, and when the
\* request wrote several resources, of which a later one was refused.
AnswerTellsEffect ==
  \A k \in DOMAIN answers :
    LET a == answers[k]
    IN  /\ a.type = "ACK" => a.mid = message.mid
        /\ a.code \in Done => acted
        /\ acted /\ a.code \in Errors =>
             \/ a.code = "5.00" /\ sending # "sent"
             \/ a.code = "4.02" /\ message.block2 # None /\ ~message.block1
             \/ WritesInstance

\* A Block2 option the code acts on: it asks for a later block, or for one of what has
\* no length, so that the payload no longer points at what malloc returned.
MovesPayload ==
  /\ message.block2 # None /\ ~message.block1
  /\ message.block2 = 0 => message.code # "GET" \/ Blocks[value] = 0

\* Each block of memory goes back to the heap before the next datagram but for: the
\* path of a message with a bad option, the content of which a later block, or any
\* block of an empty one, was asked for, and the location of an answer for which no
\* memory was left, which is lost when the next answer is begun.
LossesExplained ==
  [][/\ "path" \in lost' \ lost => message.fault = "option"
     /\ "payload" \in lost' \ lost => message.code = "GET" /\ MovesPayload
     /\ "location" \in lost' \ lost => sending = "alloc"]_packetVars

\* The path of a request means the same at both ends, a number out of range is refused
\* but for those whose tenfold wraps onto an ID, and a change fired by its text reaches
\* those who observe it by its segments (see Uri; nothing of it depends on the state,
\* so that the first state is enough to look at).
UrisMeanTheSame ==
  message = None => DecodesWhatItEncodes /\ NumbersRead /\ FiredIsObserved

\* What is written as bytes is read back from them: the header of every option,
\* every message of the client, and the path of an update, which is the one the
\* server gave at registration (see Codec; nothing of it depends on the state).
CodecReadsBack ==
  message = None => HeaderReadsBack /\ MessageReadsBack /\ LocationReadsBack

\* Only blocks malloc returned are freed, unless a Block2 option has moved the payload.
DamageExplained == [][damage' /\ ~damage => MovesPayload]_packetVars
=============================================================================
