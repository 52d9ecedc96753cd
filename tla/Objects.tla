------------------------------- MODULE Objects -------------------------------
(***************************************************************************)
(* Device management: the dispatch of wakaama/management.c and objects.c   *)
(* over the Server, Device and Firmware objects and the instance lists of  *)
(* list.c.                                                                 *)
(*                                                                         *)
(* A request is handled in one piece, so an operator maps the objects and  *)
(* a request to the objects it leaves and the code it is answered with.    *)
(* Copies and retransmissions of a request are requests like any other:    *)
(* nothing recognises them.  A failed allocation is answered with 5.00 and *)
(* leaves everything as it was; so does a request from a session that is   *)
(* no server's, which is not answered.  /1 may be left without instances,  *)
(* and is then read as an object of the single instance 0.                 *)
(*                                                                         *)
(* Numbers are what a value decodes to, None a value that does not decode. *)
(* The default periods and the storing flag of the Server object are       *)
(* written and read like its lifetime and are left out, and so is the text *)
(* of what a read returns.  Resource IDs are named: "disable", "update" and  *)
(* "reboot" are only executed, "unknown" is of no object.                  *)
(***************************************************************************)
EXTENDS Integers, FiniteSets, SequencesExt

CONSTANTS
  ShortId,       \* the short server ID of the Security object's instance
  LifetimeSet,   \* the lifetime main.cpp gives get_server_object
  Limit,         \* 0xFFFFFFFF: larger numbers and negative ones are not acceptable
  Numbers,       \* numbers a resource may be written with
  Bindings,      \* strings the Binding may be written with, sequences of letters
  InstanceIds,   \* instances requests name
  MaxInstances,  \* instances memory has room for
  MaxItems,      \* resources in one write
  None

ASSUME ObjectsAssumption ==
  /\ ShortId \in Nat \ {0} /\ Limit \in Nat /\ LifetimeSet \in 0 .. Limit
  /\ Numbers \subseteq Int /\ Bindings \subseteq Seq(STRING) /\ InstanceIds \subseteq Nat
  /\ MaxInstances \in Nat \ {0} /\ MaxItems \in Nat \ {0} /\ None \notin Int

Modes == {<<"U">>, <<"U", "Q">>, <<"S">>, <<"S", "Q">>, <<"U", "S">>, <<"U", "Q", "S">>}

VARIABLE
  objects   \* instanceList of the Server object, time_offset of the Device object,
            \* state and supported of the Firmware object

vars == objects

Instance == [id : Nat, shortServerId : {0, ShortId}, lifetime : 0 .. Limit,
             disableTimeout : 0 .. Limit, binding : Seq({"U", "Q", "S"})]

TypeOK ==
  /\ objects \in [server : Seq(Instance), offset : Int,
                  firmware : [state : {1, 2}, supported : {0, 1}]]
  /\ Len(objects.server) <= MaxInstances

-----------------------------------------------------------------------------
(* list.c *)

\* The walk of list.c ends at the first node from position i on whose ID is not
\* less than the one sought.
Stop(list, i, id) == Min({j \in i .. Len(list) : list[j].id >= id} \cup {Len(list) + 1})

\* The position of the node, 0 for NULL.
lwm2m_list_find(list, id) ==
  LET i == Stop(list, 1, id)
  IN  IF i <= Len(list) /\ list[i].id = id THEN i ELSE 0

lwm2m_list_add_Front(list, node) == <<node>> \o list
lwm2m_list_add(list, node) ==
  IF list = <<>> \/ list[1].id > node.id THEN <<node>> \o list
  ELSE InsertAt(list, Stop(list, 2, node.id), node)

lwm2m_list_remove_NotLess(list, id) ==
  LET i == Stop(list, 1, id)
  IN  IF i <= Len(list) THEN RemoveAt(list, i) ELSE list
lwm2m_list_remove(list, id) ==
  IF list = <<>> THEN list ELSE IF list[1].id = id THEN Tail(list)
  ELSE LET i == Stop(list, 2, id)
       IN  IF i <= Len(list) /\ list[i].id = id THEN RemoveAt(list, i) ELSE list

\* The walk goes on as long as IDs count up from 0.
lwm2m_list_newId_Length(list) == Len(list)
lwm2m_list_newId(list) ==
  Min({i \in 1 .. Len(list) : list[i].id # i - 1} \cup {Len(list) + 1}) - 1

-----------------------------------------------------------------------------
(* Writing resources. *)

\* A new string over an old one in an array of zeros: strncpy ends nothing.
strncpy(old, new) == new \o SubSeq(old, Len(new) + 1, Len(old))

\* What writing a number, and what writing one resource of an object, is answered with.
prv_set_int_value_Wraps(value) == IF value = None THEN "4.00" ELSE "2.04"
prv_set_int_value(value) ==
  IF value = None THEN "4.00" ELSE IF value \in 0 .. Limit THEN "2.04" ELSE "4.06"

Allowed_ShortId(object, item) ==
  CASE item.id \in {"lifetime", "disableTimeout", "shortServerId"} -> prv_set_int_value(item.value)
    [] OTHER -> "4.04"
\* What a server has; the default periods and the storing flag are left out.
ServerResources == {"shortServerId", "lifetime", "disableTimeout", "binding", "disable", "update"}
Allowed(object, item) ==
  CASE object = "server" /\ item.id \in {"lifetime", "disableTimeout"} -> prv_set_int_value(item.value)
    [] object = "server" /\ item.id = "binding" ->
         IF item.value # <<>> /\ \E m \in Modes : IsPrefix(item.value, m) THEN "2.04" ELSE "4.00"
    [] object = "server" /\ item.id \notin ServerResources -> "4.04"
    [] object = "device" /\ item.id \in {"currentTime", "utcOffset"} ->
         IF item.value = None THEN "4.00" ELSE "2.04"
    [] object = "device" /\ item.id = "timezone" -> "5.01"
    [] object = "firmware" /\ item.id = "package" -> "2.04"
    [] object = "firmware" /\ item.id = "supported" ->
         IF item.value \in {0, 1} THEN "2.04" ELSE "4.00"
    [] OTHER -> "4.05"

\* The objects once one resource of instance id is written.  Current Time sets the
\* clock (see RegistrationClock), a package is accepted and forgotten.
Written(objs, object, id, item) ==
  CASE object = "server" /\ item.id = "binding" ->
         [objs EXCEPT !.server[lwm2m_list_find(objs.server, id)].binding = strncpy(@, item.value)]
    [] object = "server" /\ item.id # "binding" ->
         [objs EXCEPT !.server[lwm2m_list_find(objs.server, id)][item.id] = item.value]
    [] object = "device" /\ item.id = "utcOffset" -> [objs EXCEPT !.offset = item.value]
    [] object = "firmware" /\ item.id = "supported" -> [objs EXCEPT !.firmware.supported = item.value]
    [] OTHER -> objs

Exists(objs, object, id) ==
  IF object = "server" THEN lwm2m_list_find(objs.server, id) # 0 ELSE id = 0

\* The write function of an object: the loop over the resources ends at the first
\* refusal and keeps what came before.
WriteAll_GoesOn(objs, object, id, items) ==
  FoldLeft(LAMBDA acc, item :
             [code |-> Allowed(object, item),
              objects |-> IF Allowed(object, item) = "2.04"
                            THEN Written(acc.objects, object, id, item) ELSE acc.objects],
           [code |-> "2.04", objects |-> objs], items)
Write(acc, object, id, item) ==
  IF acc.code # "2.04" THEN acc
  ELSE IF Allowed(object, item) # "2.04" THEN [acc EXCEPT !.code = Allowed(object, item)]
  ELSE [acc EXCEPT !.objects = Written(@, object, id, item)]
WriteAll(objs, object, id, items) ==
  LET written[n \in 0 .. Len(items)] ==
        IF n = 0 THEN [code |-> "2.04", objects |-> objs]
        ELSE Write(written[n - 1], object, id, items[n])
  IN  written[Len(items)]

writeFunc(objs, object, id, items) ==
  IF Exists(objs, object, id) THEN WriteAll(objs, object, id, items)
  ELSE [code |-> "4.04", objects |-> objs]

-----------------------------------------------------------------------------
(* Executing, creating and deleting. *)

\* "executed in core, if COAP_204_CHANGED is returned": the core does nothing more.
prv_server_execute(objs, id, resource) ==
  LET i == lwm2m_list_find(objs.server, id)
  IN  [objects |-> objs,
       code |-> IF i = 0 THEN "4.04"
                ELSE IF resource = "update"
                        \/ (resource = "disable" /\ objs.server[i].disableTimeout > 0)
                  THEN "2.04" ELSE "4.05"]

prv_device_execute(objs, id, resource, payload) ==
  [objects |-> objs,
   code |-> IF id # 0 THEN "4.04" ELSE IF payload # None THEN "4.00"
            ELSE IF resource \in {"reboot", "reset"} THEN "2.04" ELSE "4.05"]

prv_firmware_execute(objs, id, resource, payload) ==
  LET runs == id = 0 /\ payload = None /\ resource = "update" /\ objs.firmware.state = 1
  IN  [objects |-> IF runs THEN [objs EXCEPT !.firmware.state = 2] ELSE objs,
       code |-> IF id # 0 THEN "4.04" ELSE IF payload # None THEN "4.00"
                ELSE IF resource # "update" THEN "4.05" ELSE IF runs THEN "2.04" ELSE "4.00"]

prv_server_delete(objs, id) ==
  LET list == lwm2m_list_remove(objs.server, id)
  IN  [code |-> IF list = objs.server THEN "4.04" ELSE "2.02",
       objects |-> [objs EXCEPT !.server = list]]

\* The new instance is put on the list, written there, and taken off again if the
\* write is refused.
New(id) == [id |-> id, shortServerId |-> 0, lifetime |-> 0, disableTimeout |-> 0,
            binding |-> <<>>]

prv_server_create(objs, id, items) ==
  LET w == writeFunc([objs EXCEPT !.server = lwm2m_list_add(@, New(id))], "server", id, items)
  IN  IF w.code = "2.04" THEN [w EXCEPT !.code = "2.01"]
      ELSE [w EXCEPT !.objects = prv_server_delete(w.objects, id).objects]

-----------------------------------------------------------------------------
(* objects.c and management.c.  "security" is hidden from servers, "sensor"  *)
(* stands for the objects that can only be read.                             *)

Visible == {"server", "device", "firmware", "sensor"}
Refused(objs, code) == [code |-> code, objects |-> objs]

\* Resources are read by the object's own readFunc; the two that requests name are
\* "disable", which cannot be read, and "unknown".
object_read(objs, object, id, resource) ==
  LET list == IF object = "server" THEN objs.server ELSE <<[id |-> 0]>>
      single == IF id = None THEN 0 ELSE id
  IN  Refused(objs,
        IF object \notin Visible THEN "4.04"
        ELSE IF list # <<>> /\ id = None THEN "2.05"
        ELSE IF lwm2m_list_find(list, single) = 0 THEN "4.04"
        ELSE IF object = "server" /\ resource = "disable" THEN "4.05"
        ELSE IF resource # None THEN "4.04"
        ELSE "2.05")

\* A payload is None when empty, and <<>> when no TLV can be parsed from it.
object_write(objs, object, id, payload) ==
  IF object \notin Visible THEN Refused(objs, "4.04")
  ELSE IF object = "sensor" THEN Refused(objs, "4.05")
  ELSE IF payload \in {None, <<>>} THEN Refused(objs, "5.00")
  ELSE writeFunc(objs, object, id, payload)

object_execute(objs, object, id, resource, payload) ==
  CASE object = "server" -> prv_server_execute(objs, id, resource)
    [] object = "device" -> prv_device_execute(objs, id, resource, payload)
    [] object = "firmware" -> prv_firmware_execute(objs, id, resource, payload)
    [] object = "sensor" -> Refused(objs, "4.05")
    [] OTHER -> Refused(objs, "4.04")

object_create(objs, object, id, payload) ==
  LET new == IF id = None THEN lwm2m_list_newId(objs.server) ELSE id
  IN  IF payload = None THEN Refused(objs, "4.00")
      ELSE IF object \notin Visible THEN Refused(objs, "4.04")
      ELSE IF object # "server" THEN Refused(objs, "4.05")
      ELSE IF id # None /\ lwm2m_list_find(objs.server, id) # 0 THEN Refused(objs, "4.06")
      ELSE IF payload = <<>> \/ Len(objs.server) = MaxInstances THEN Refused(objs, "5.00")
      ELSE prv_server_create(objs, new, payload)

object_delete(objs, object, id) ==
  IF object \notin Visible THEN Refused(objs, "4.04")
  ELSE IF object # "server" THEN Refused(objs, "4.05")
  ELSE prv_server_delete(objs, id)

object_isInstanceNew(objs, object, id) == object \notin Visible \/ ~Exists(objs, object, id)

handle_dm_request(objs, req) ==
  CASE req.method = "GET" -> object_read(objs, req.object, req.instance, req.resource)
    [] req.method = "POST" /\ req.resource # None ->
         object_execute(objs, req.object, req.instance, req.resource, req.payload)
    [] req.method = "POST" /\ req.resource = None ->
         IF req.instance = None \/ object_isInstanceNew(objs, req.object, req.instance)
           THEN object_create(objs, req.object, req.instance, req.payload)
           ELSE object_write(objs, req.object, req.instance, req.payload)
    [] req.method = "PUT" /\ req.instance # None ->
         object_write(objs, req.object, req.instance, req.payload)
    [] req.method = "DELETE" /\ req.instance # None /\ req.resource = None ->
         object_delete(objs, req.object, req.instance)
    [] OTHER -> Refused(objs, "4.00")

-----------------------------------------------------------------------------
(* Requests of servers. *)

Item(ids, values) == [id : ids, value : values]
\* A refused item of each kind stands for the others.
Items == [server   |-> Item({"lifetime"}, Numbers \cup {None}) \cup Item({"disableTimeout"}, {1})
                         \cup Item({"binding"}, Bindings) \cup Item({"shortServerId"}, {ShortId})
                         \cup Item({"unknown"}, {None}),
          device   |-> Item({"utcOffset"}, {1, None}) \cup Item({"timezone", "reboot"}, {None}),
          firmware |-> Item({"supported"}, {1, None}) \cup Item({"package", "update"}, {None}),
          sensor   |-> {}, security |-> {}]
Payloads(object) == {None, <<>>} \cup UNION {[1 .. n -> Items[object]] : n \in 1 .. MaxItems}

Request(methods, object, instances, resources, payloads) ==
  [method : methods, object : {object}, instance : instances, resource : resources,
   payload : payloads]

Requests == UNION
  {Request({"PUT", "POST"}, o, InstanceIds \cup {None}, {None}, Payloads(o))
     \cup (UNION {Request({"PUT"}, o, InstanceIds, {item.id}, {<<item>>}) : item \in Items[o]})
     \cup Request({"POST"}, o, InstanceIds, {"update", "disable", "reboot", "reset"}, {None, <<>>})
     \cup Request({"GET", "DELETE"}, o, InstanceIds, {None, "disable", "unknown"}, {None})
     \cup Request({"GET", "DELETE"}, o, {None}, {None}, {None})
   : o \in DOMAIN Items}

\* get_server_object(123, "U", 40, false), get_object_device, get_object_firmware.
Init ==
  objects = [server   |-> <<[New(0) EXCEPT !.shortServerId = ShortId, !.lifetime = LifetimeSet,
                                              !.binding = <<"U">>]>>,
                offset   |-> 0,
                firmware |-> [state |-> 1, supported |-> 0]]

Handle(req) == objects' = handle_dm_request(objects, req).objects

Next == \E req \in Requests : Handle(req)

Spec == Init /\ [][Next]_vars

-----------------------------------------------------------------------------
(* Properties. *)

\* The searches of list.c stop at the first ID that is not smaller, so they find
\* an instance only while the list is sorted and no ID is on it twice: after any
\* creations and deletions, named and unnamed, each instance is found, and at
\* its place.
EveryInstanceFound ==
  \A i \in DOMAIN objects.server : lwm2m_list_find(objects.server, objects.server[i].id) = i

\* What a server is told of a creation is what happened (prv_server_create,
\* prv_server_delete): there is one instance more, with the ID asked for or one
\* that was free, and the others are as they were; or nothing has changed at all.
CreatedOrUntouched ==
  \A id \in InstanceIds \cup {None} : \A payload \in Payloads("server") :
    LET r == object_create(objects, "server", id, payload)
    IN  IF r.code = "2.01"
          THEN \E new \in ToSet(r.objects.server) :
                 /\ id \in {None, new.id} /\ \A s \in ToSet(objects.server) : s.id # new.id
                 /\ ToSet(r.objects.server) = ToSet(objects.server) \cup {new}
          ELSE r.objects = objects

\* A write of several resources that is refused is not undone: it leaves what a
\* write of the resources before the first unacceptable one leaves, and is answered
\* as a write of that one alone (the loops of prv_server_write, prv_device_write
\* and prv_firmware_write).
RefusedWriteKeepsBeginning ==
  \A object \in {"server", "device", "firmware"} : \A id \in InstanceIds :
    \A items \in Payloads(object) \ {None, <<>>} :
      Exists(objects, object, id) =>
        LET Alone(i) == writeFunc(objects, object, id, <<items[i]>>).code
            bad == Min({i \in 1 .. Len(items) : Alone(i) # "2.04"} \cup {Len(items) + 1})
            OneByOne[n \in 0 .. Len(items)] ==
              IF n = 0 THEN objects ELSE writeFunc(OneByOne[n - 1], object, id, <<items[n]>>).objects
        IN  writeFunc(objects, object, id, items) =
              IF bad > Len(items) THEN [code |-> "2.04", objects |-> OneByOne[Len(items)]]
              ELSE [code |-> Alone(bad),
                    objects |-> writeFunc(objects, object, id, SubSeq(items, 1, bad - 1)).objects]

\* The short server ID ties an instance of the Server object to the account in the
\* Security object (prv_findServerInstance).  Whatever servers create, write and
\* delete, no instance takes an account over: the one that has it had it before,
\* under the same ID.
AccountNotTakenOver ==
  [][\A s \in ToSet(objects'.server) : s.shortServerId = ShortId =>
       \E t \in ToSet(objects.server) : t.id = s.id /\ t.shortServerId = ShortId]_vars

\* A server that misses an answer sends the request again, and lwm2m_handle_packet
\* recognises no copy.  To handle a request twice is to handle it once, but for a
\* creation that leaves the ID to the client.
CopyHarmless ==
  \A req \in Requests :
    LET once == handle_dm_request(objects, req).objects
    IN  req.method # "POST" \/ req.instance # None => handle_dm_request(once, req).objects = once
=============================================================================
