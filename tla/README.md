# A verification development for the wakaama client on the mbed application board

The program is an LWM2M client for the mbed LPC1768 application board: the
wakaama library (`wakaama/`), with the objects in `wakaama/client_objects/`, a
few C++ objects for the board's sensors and its lamp, and `main.cpp`, which runs
everything in one thread. The Makefile defines `LWM2M_LITTLE_ENDIAN` and
`LWM2M_CLIENT_MODE` and nothing else, so the bootstrap client, the server half
and the bootstrap server are not in the program. All paths below are relative
to `src/`.

The modules here model the parts where state, time and interleaving meet. TLC
checks them on small instances, and TLAPS proves all their state invariants and
action properties for every value of the constants.

## The system

### Parts, state, operations

| Part | State it keeps | Operations |
|---|---|---|
| CoAP transactions, `wakaama/transaction.c` | `contextP->transactionList`: one record per confirmable request that has no verdict yet (message ID, token, `retrans_time`, `retrans_counter`, `ack_received`, callback) | `transaction_new`, `transaction_send`, `transaction_handle_response`, `transaction_remove` |
| Registration, `wakaama/registration.c` (client half) | per server: `status`, `registration` (a date), `location`, `lifetime`, session | `prv_register`, `prv_update_registration`, their two callbacks, `registration_update`, `lwm2m_update_registration` |
| Life cycle, `wakaama/liblwm2m.c` | the context: lists of servers, transactions, observations, `nextMID` | `lwm2m_init`, `lwm2m_configure`, `lwm2m_start`, `lwm2m_step` |
| Observations, `wakaama/observe.c` (client half) | `contextP->observedList`: entries by URI, each with its watchers (server, token, `lastMid`) | `handle_observe_request`, `cancel_observe`, `lwm2m_resource_value_changed` |
| Packets, `wakaama/packet.c` | none of its own | `lwm2m_handle_packet`, `handle_request`, `message_send` |
| Dispatch, `wakaama/management.c`, `wakaama/objects.c` | the list of objects | `handle_dm_request`, `object_read`, `_write`, `_execute`, `_create`, `_delete`, `object_getServers` |
| Server, Device, Firmware, Security objects | instance lists and user data | read, write, execute, create, delete |
| Lists, `wakaama/list.c` | sorted singly linked lists | add, find, remove, newId |
| Light, `object_rgb_led.cpp` | `on`, the colour `rv`, `gv`, `bv`, three PWM outputs | read, write; two interrupts of the joystick |
| Accelerometer, temperature | none | read |
| Sessions and loop, `main.cpp` | the list of sessions, the socket | `prv_connect_server`, `prv_buffer_send`, the loop |
| Names and payloads, `wakaama/uri.c`, `utils.c`, `tlv.c` | none | URIs, numbers as text, TLV records, both ways |
| CoAP messages, `wakaama/er-coap-13/` | the next message ID; the error text, a global | set options, serialise, parse, free |

### How they interact

`main.cpp` is one loop: `lwm2m_step`; wait for a datagram with a timeout; if one
came, find the session of its sender and call `lwm2m_handle_packet`, if none
came, call `lwm2m_resource_value_changed` for four URIs. `lwm2m_step` sends the
due transactions again and then runs `registration_update` on each server.
`lwm2m_handle_packet` gives a request to `handle_request`, and an
acknowledgement, a response or a reset to `transaction_handle_response` and, for a
reset, `cancel_observe`. A transaction that ends calls back into
`registration.c`. There are no threads besides the loop; what interleaves are
the calls of the loop with the datagrams that arrive, with time, and with the
interrupts of the joystick.

### What is hard in it, and what makes each part correct

* **Transactions** are driven by time and by datagrams that are lost, repeated,
  late or in another order. Right means: each request ends, exactly once, with a
  verdict its own exchange gave it; no request is forgotten on the list, sent in
  bursts, or sent more often than `COAP_MAX_RETRANSMIT` allows.
* **Registration** has a status that only callbacks of transactions change back
  from "pending", and dates that are compared with a clock. Right means: a
  pending server always has a request that ends the waiting; there is one request
  at a time; the update goes out early enough; no failure is final; the location
  used is that of the registration the server holds.
* **Observations** are cancelled by message ID alone, out of one counter for
  everything the client sends. Right means: a reset cancels the observation it is
  about; what nobody wants ends; the lists never hold an entry the next walk
  would read through NULL.
* **Objects** are changed by requests that nothing deduplicates. Right means: a
  repeated request does no harm; an operation that fails midway leaves what it
  is known to leave; the lists keep the order their searches rely on.
* **Packets** take memory in three functions and give it back in two others, and what
  fails may fail before or after the objects were changed. Right means: at most one
  answer, which tells what was done; nothing lost, nothing freed that is not a block.
  The code falls short of the last two in cases the properties name, and of no others.
* **Copies** of requests that come late are carried out as if they were new. Right
  means: what a server is told was true while it asked, and only a late copy makes it
  untrue later.
* **Names, numbers, records, messages** must mean the same at both ends, above all
  where their length or sign changes their form.
* **The loop** must come back to `lwm2m_step` whatever arrives.
* **The light** is changed by interrupts between any two accesses of the loop.

`PROJECT.json` lists each hazard at its line with the properties that cover it.

## The modules

| Module | Models | Extends / composes |
|---|---|---|
| `TransactionOps` | one record of the transaction list, as operators | |
| `Exchange` | abstract: what a request promises its caller | |
| `Transaction` | the transaction list under `lwm2m_step` and `lwm2m_handle_packet`, a network, time | `TransactionOps`; implements `Exchange` |
| `Registration` | registration of the client with each server over its transactions | `TransactionOps` |
| `RegistrationSystem` | the client together with servers that count the lifetime themselves | `Registration` |
| `RegistrationClock` | the client on a clock that a server may set | `Registration` |
| `Observe` | observations, message IDs, resets, the servers that ask and forget | |
| `Objects` | device management on the Server, Device and Firmware objects | |
| `Uri` | `uri.c`: paths and texts to names, and the paths `transaction_new` writes | |
| `Packet` | one datagram through `lwm2m_handle_packet`, its answer and its memory | `Uri` |
| `MainLoop` | the loop of `main.cpp` and the search of sessions | |
| `Client` | the loop, the handling of each datagram, a server that asks, repeats and gives up, and the network between them | `MainLoop`, `Packet` |
| `PlainText` | `utils.c`: integers as text, both ways | |
| `Text` | `utils.c`: floats as text, both ways, and what should be true of texts of numbers | `PlainText` |
| `TlvRecord` | `tlv.c`: records: the header, one record, and one behind the other, written and read | |
| `Tlv` | `tlv.c`: records in records written, level by level, and integers, both ways | `TlvRecord` |
| `Payloads` | the objects with what their requests carry | `Objects`, `Text`, `Tlv` |
| `CoapOption` | `er-coap-13.c`: the header of one option, and the number it may hold, both ways | |
| `Codec` | `er-coap-13.c`: options and messages as bytes, both ways | `CoapOption` |
| `RgbLed` | the lamp, access by access, with the joystick's interrupts | |
| `TransactionOpsProofs`, `TransactionProofs`, `RegistrationProofs`, `ObserveProofs`, `ObjectsProofs`, `PacketProofs`, `ClientProofs`, `RgbLedProofs` | theorems | the modules they are named for; `RegistrationProofs` extends `RegistrationSystem` and `RegistrationClock`, `ObjectsProofs` extends `Payloads` and has the theorems about `PlainText`, `Text`, `TlvRecord` and `Tlv` too, `PacketProofs` those about `Uri` and `CoapOption` |
| `MC...` | instances for TLC | |

A definition `D_Something` next to `D` is `D` with a plausible slip of the code.
No specification uses it; it is kept to show which property the slip would
break (`PROJECT.json`, "mutants").

### TransactionOps, Transaction, Exchange

A transaction is a record: `state` stands for "on the list" and `ack_received`,
`retrans_counter` is the field of that name, and `wait` is `retrans_time` minus
the present time, because the code uses nothing but the difference. `buffer` is
NULL exactly while `retrans_counter` is 0, so it is not a field. `Due`, `Transmits` and
`transaction_send` are the loop of `lwm2m_step` and the branches of
`transaction_send`; `Acknowledges`, `Finishes`, `RetriesUnauthorized` and
`transaction_handle_response` are those of the function of that name, in its
order. The actions of `Transaction` are `Request` (a caller creates and sends;
the buffer may not be allocated), `Step` (`lwm2m_step`, with the set of requests
whose buffer could not be allocated), `Receive` (a datagram that is no request)
and `Tick` (one second). `inFlight[m]` counts datagrams that may still come about
`m`: each transmission may bring back up to `Copies`, in any order with those of
other transmissions, at any time, or never.

`Exchange` has no timers, no message types and no list: a request is opened, is
transmitted at most `MaxTries` times, and is closed by one verdict; a response or a
reset comes out of a datagram of its own exchange, and "timeout" only after
the last transmission or after the peer was heard. `Transaction` implements it with
`open` the live records and `tries` the transmissions counted by
`retrans_counter`.

### Registration, RegistrationSystem, RegistrationClock

Requests are places `<<server, "register" | "update", number>>`. `lwm2m_step` is
one action for the whole function: the loop over the due requests, the callbacks
of those given up, then `registration_update` on every server with the outcome
of each request it makes (sent, left unsent because its buffer was not
allocated, never made). `lwm2m_handle_packet` is one action with the callback, the
change of status, the new date and the location. `age` is the present time minus
`server->registration` and saturates where nothing depends on it any more.
`location` is the request whose answer named it.

`Failing` names the allocations that may fail, `Calls` the calls besides the
loop: `lwm2m_update_registration` is offered by the library and not called by
`main.cpp`, and it goes on without a location, reading its path at address 0; `lwm2m_start` stands for a reset of the board, after which everything
in memory is lost and the servers still hold what they held.

`RegistrationSystem` adds servers: `Decide` is a request reaching one for the
first time (a POST creates and replaces, a PUT on the current location renews, on
any other is refused with 4.04), and answers may take up to `MaxDelay` seconds.
`RegistrationClock` adds `set_time`: a write of Current Time moves every date and
deadline against the clock, as often as a server likes and as far. An age of `MaxAge` stands
for all that are no less, and on the way back is found again as any of those it may have been
(`Moved`), so that a first setting of the clock, from 1970 to the present, is one jump like another.

### Observe

`watcher[<<uri, server>>]` is the watcher of a server in the entry of a URI
with its token and `lastMid`; `observed` are the URIs with an entry, so that an
entry without a watcher can be told from no entry. `GetObserve` is a GET with
Observe, `Fire` the four calls of `lwm2m_resource_value_changed` in a round without a
packet, `OtherMessage` any other use of the counter, `Reset` a RST. `halted` means that
`cancel_observe` has followed NULL. The lists are sets: their order only decides
which message ID goes to which watcher and which entry is met first, and the model
allows every order. The observe counter has no influence on the client and is left
out. Servers are external: each holds an observation under the token of its last
request, may forget it, and answers a notification under any other token with a RST.

### Objects

A request is handled in one piece, so the module is a chain of operators from the
objects and a request to the objects it leaves and the code of the answer:
`handle_dm_request` over `object_read`, `_write`, `_execute`, `_create`, `_delete`
over the functions of the Server, Device and Firmware objects over `list.c`. The
list of the Server object's instances is a sequence, with the searches of `list.c`
as they are: they stop at the first ID that is not smaller. A binding is a sequence
of letters and is written by a `strncpy` that ends nothing. Numbers stand for what
a payload decodes to. The two objects of sensors, which have no write function, are one,
"sensor"; "security" is there and hidden. Most properties speak of every request in
every reachable state, so no history is kept.

### Uri, Packet

`Uri` has `uri.c` as operators on the segments of a path: a segment is a number, a number
followed by a slash and more, which the code reads as the number, or one of the texts that mean
something, and `prv_get_number` gathers digits, times ten, in an int that wraps around.
`DecodesWhatItEncodes`, `NumbersRead` and `FiredIsObserved` compare the two ways of reading a
name with the one way of writing it: for every name there is, for every number until the tenfold
has wrapped around ten times, and for every text of up to three segments. `ReadAsId` says of
each number whether it is refused or taken for an ID it is not.

`Packet` is `lwm2m_handle_packet` between its calls: `stage` is where it is, and the
actions are the parse, `handle_request` (with the dispatch as far as the answer
depends on it), the branch for blocks, the two calls of `message_send`, the branch for
responses, and `coap_free_header`. `heap` holds the blocks of memory somebody points
at, `lost` those nobody pointed at any more, `damage` whether `free` was given anything
else; `response` and `payload` outlive a call, because both are static. `Failing` names
what may fail: the URI, the memory of the objects, the allocation in `message_send`, the network.
A content has a number of blocks, which is 0 of an empty one, such as the binding of an instance
created with a lifetime only. `acted` is whether the objects were changed or may have been: a write
of a whole instance changes them up to the resource it is refused at, and is answered with
the error (`WriteInstance`). `sending` is what became of the last answer tried.

### MainLoop, Client

`pc` is the call the loop is at, `sessionList` the sessions, `inbox` what
waits on the socket, `session` the cursor of the search. Each turn of the search
is a step, since on a mismatch its body moves nothing. A datagram without a byte (`Empty`)
is no datagram to `main.cpp`: the round goes on to the notifications.

`Client` puts `Packet` in the place of the call `handle`, and a server at the other
end: it asks one thing at a time, takes an answer by its token, stops repeating at an
acknowledgement, which it tells by the message ID, and gives up when it likes. The network is
the set of all messages ever sent, `requests` one way and `replies` the other: each of
them arrives any number of times or never, at any later moment and in any order, so that a
copy of one request may overtake the next or come long after it. The client carries out
every copy, as the code does. A write confirmed can then be undone by a late copy of
an earlier one, and the program does nothing against it. What still holds is
`ToldTheTruth`: what an answer says is what the resource held at some moment since the request
was made (`held`), and what it holds now if no copy of an earlier request has changed it since
(`late`).

### PlainText, Text, TlvRecord, Tlv, Payloads, CoapOption, Codec

Pure functions, checked against what they should be over bounded inputs (see the
bounds). They are checked in the first state of the runs whose messages they encode:
`Text` and `Tlv` in `objects`, by `PayloadsMeanTheSame` of `Payloads`, and `Uri` and `Codec` in `packets`.
`PlainText` has what the digits of the code add up to, with 64-bit numbers scaled to 8 bits;
`Text` counts a double in eighths. `TlvRecord` and `Tlv` write and parse records of any depth, and an
integer as the sign and magnitude the code sends. `Codec` sets options, writes
them one behind the other with the bytes their numbers and lengths take, takes a datagram
apart again, and turns a Location-Path into the text of `registration.c` and back.
The loops and recursions of the code recur as functions of numbers or buffers, so that
theorems can be stated about them. `lwm2m_tlv_serialize` is a function of the number of levels:
`lwm2m_tlv_t[depth]` is what a record may be that holds records on `depth` levels at most.
What is written and read is given by constants: `Texts` and `Temperatures`, and `Trees` and
`CutTrees`, sequences of records that arrive whole or cut short. `FloatAssumption` and
`TlvAssumption` say that the texts are made of characters, that the whole part of a temperature
fits into an int64_t, that bytes have an even number of values and that the trees are records.
That a tree comes back is asked of those that are `Sendable`: nothing is written of a record
that is to hold records and holds none, and a header has 24 bits for a length.
The messages and paths `Codec` is checked on are constants, `Messages` and `Locations`:
what the theorem needs to know of them is `CodecAssumption`, that a message is as the setters
leave it.

### RgbLed

The functions of the main loop are lines with one access to shared state each: three
levels kept, the flag set or tested, three channels written or read. An interrupt may
come between any two. The handlers are attached to pins of one port, so they run to
their end and not inside each other. A write of several resources is handled item by item
(`items`) and stops at the first bad one. `torn` and `seen` are history for the
properties. `torn` is set by an interrupt that switches the light against the call under way,
between the first and the last of its writes to the pins, and is reset by the next interrupt and by
the next call that writes all pins: only such a call leaves pins that are not the state, and
both of these repair them. A colour for a light that is off writes no pin and repairs none.
`seen` is what the lamp was at the moments of the last read.

## The runs

| Run | Instance | What it shows |
|---|---|---|
| `transactions` | two message IDs, the timers of `er-coap-13.h` (2 s, 4 tries), one datagram back per transmission, `lwm2m_step` every 3 s at the latest | `NotOverdue`, `PacedTransmissions`, `EveryRequestConcluded`, and that the list implements `Exchange` |
| `registration_board` | the client of `main.cpp`: one server, lifetime 40, real timers, two copies | `RegistrationFresh`, `OneRequestAtATime`, `UpdateInTime`, `AlwaysReturns` |
| `system_prompt` | client and server, lifetime 40, real timers, answers up to 7 s late, restarts | `LocationCurrent`, `ChanceToResend` |
| `registration_clock` | requests, buffers and locations that cannot be allocated, updates asked for by the application in any status, restarts, and a clock moved back by a second, on by two or on by ten, again and again; timers and lifetime scaled down | `PendingHasRequest` |
| `observe_servers` | two servers observe one URI, each request arrives up to twice | `NoEmptyEntry`, `UnwantedEnds` |
| `observe_uris` | one server observes an instance and its resource, twice each; reads and allocations fail | `ResetCancelsItsOwn` |
| `objects` | up to two instances, writes of up to two resources | `EveryInstanceFound`, `CreatedOrUntouched`, `RefusedWriteKeepsBeginning`, `CopyHarmless`, `AccountNotTakenOver`; and of `Payloads`, `PayloadsMeanTheSame` |
| `packets` | any of the datagrams of `MCPacket` after any other: every method on paths of each kind, blocks, messages that do not parse, responses nobody asked for; contents with two blocks and with none; everything that may fail fails | `AnsweredOnce`, `AnswerTellsEffect`, `LossesExplained`, `DamageExplained`; and of `Uri` and `Codec`, `UrisMeanTheSame`, `CodecReadsBack` |
| `client` | the board and its server: two requests, each any read or write of five kinds, confirmable or not, refused, or not parsed; both ways messages are lost, late, repeated and overtaken; the socket refuses answers | `ToldTheTruth`, `KeepsStepping`, `NotifiesWhenQuiet`, `EveryRequestAnswered` |
| `loop_stranger` | one server, datagrams from another host, and such as carry nothing | `ForeignIgnored` is violated |
| `light_buttons` | writes of up to two resources, reads, buttons | `PinsShowState`, `NoStaleColour`, `ReportedWasTrue` |
| `light_off` | colours written one at a time, buttons | `OffIsDark` is violated |

Each passing run also checks the type invariant of its module, except `system_prompt`,
`registration_clock` and `observe_uris`, whose modules have theirs checked in another run.

### Bounds, and why they are enough

* **Message IDs and requests.** Transactions interact only through
  `Concerns`: a datagram names one request by ID or token. Two requests are enough
  to have a wrong one hit. An ID is reused only after its request is gone: the code
  has 65536 of them and the longest request lives for less than two minutes.
* **Copies** is 1 or 2: each transmission may bring one or two datagrams back,
  so up to eight are on their way for one request, in all orders.
* **Timers.** `transactions`, `registration_board` and `system_prompt` have the
  constants of the sources. `registration_clock` scales them down, keeping their
  order: lifetime, update margin, response timeout.
* **Jumps, Horizon.** The longest jump, 10 seconds, is longer than everything the instance waits
  for. The clock may not be moved so far that a date or a deadline is more than `Horizon`, 12
  seconds, on the other side of it: so every jump can be made from every date the loop leaves. `Due` and `Needs`
  say nothing new any further out, and the proof is for any jumps and any `Horizon`.
* **MaxLag** is below twice the response timeout, as assumed by
  `TransactionAssumption`: the loop of `main.cpp` waits for a datagram for one second
  at most, and the calls in between take much less.
* **Places.** With two requests of a kind per server the places are used up only
  where allocations fail; `Outcomes` then treats a full list as memory that is
  exhausted. `registration_clock` has one place, so that a second update asked for while one
  is open finds the memory exhausted; the proof is for any number.
* **MidSpace, Window.** Message IDs wrap at 6 instead of 65536, and a RST comes before
  the client has used three more IDs. The window covers all notifications of one
  `Fire`. `Spare` states what the real size gives: no `lastMid` survives a full turn
  of the counter.
* **Objects.** Two instances are the least that make the order of a list matter,
  and with a third ID never free `newId` has to fill gaps. One number is in range,
  one above, one below, one value does not decode; two resources are the least that
  make a partial write.
* **Packets.** `Blocks` is 2 of one content, so that there is a first block, a later one and one past
  the end, and 0 of the other. Nothing survives a datagram but `response`, `payload`, the memory and the
  value, so any datagram after any other is every case.
* **Names.** `LWM2M_MAX_ID` is 15 and an int has 512 values, so that IDs out of range and
  numbers that wrap are few, and among those up to 512 the tenfold wraps ten times: the assumption
  of `Uri`, that an int holds twenty times the highest ID, holds of the sources too. Names are written
  with an alternative path and without, so that paths have up to four segments; texts have up to three.
* **Numbers and records.** A number of 64 bits has 256 values (2^8 ends in the same digit as
  2^64) and a byte of an integer 4, so that all of them, and texts of up to five
  characters, are tried. Record headers have the numbers of the sources, with lengths
  and IDs on both sides of each change of form.
* **Messages.** Each option unset, or set to what takes no byte, one or more; the longest do
  not fit into the 70 bytes of a header together. 5650 of 5764 do, and 120 Location-Paths.
* **Client.** Two requests (`MaxAsked`) are the least with one late and one that the late copy
  undoes or overtakes. The network keeps all messages, so one place on the socket is enough
  for every order of arrival: a longer queue only holds back what has arrived already. `ToldTruth` is proved
  for any number of both.
* **Light.** Two colours that share a level in one channel and differ in others,
  two resources a write.
* **Network delay.** `MaxDelay` 7 holds `ChanceToResend`: the client counts the
  lifetime from the moment it reads the answer, so a late answer eats into the 15
  seconds of margin (see the remarks); the proof is for every delay up to 10.

`observe_uris` has `CHECK_DEADLOCK FALSE`: after the fault the program really has
stopped.

### Fairness

* `lwm2m_step` and `Tick` are weakly fair where liveness is checked: the loop has
  no other exit than the search of `loop_stranger`, and time passes. Steps that
  succeed are fair, not those whose allocation fails: memory is not exhausted for
  ever.
* Nothing is assumed of the network and of servers in `EveryRequestConcluded`.
  `AlwaysReturns` assumes a server that, if it can again and again accept a request of the
  client, in the end does.
* `UnwantedEnds` assumes that time and again the loop has a round without a
  packet, and that a RST for the latest notification of a watcher comes, time and
  again, before the next notification. Only that one counts in `cancel_observe`,
  so a server whose round trip is always longer than the period of notifications (one second)
  would never be rid of them.
* `MainLoop` assumes that the processor goes on running the loop. `Client` assumes that
  too, and of server and network that what is sent again and again arrives again and again: the server
  repeats what is neither answered nor acknowledged, and copies of it reach the socket (strong fairness,
  since the socket may be full); the socket does not refuse every response to it (strong
  fairness); and one of the responses sent arrives (weak fairness: the network forgets none).
  Where the board answers nothing but an ACK without the token, to a request that was not confirmable
  and does not parse, none of this helps, and `EveryRequestAnswered` excepts it.

## What the proofs show

All theorems hold for every value of the constants that satisfies the named
assumptions (`TransactionConstants`, `TransactionAssumption`,
`RegistrationAssumption`, `NoneIsNoRequest`, `MaxDelayAssumption`, `ClockAssumption`, `ObserveAssumption`,
`ObjectsAssumption`, `TextAssumption`, `FloatAssumption`, `TlvAssumption`, `UriAssumption`, `PacketAssumption`, `CodecAssumption`, `OneServer`,
`ClientAssumption`, `PacketConstants`, `LightAssumption`), which say that counts are positive
numbers, that `None` is no value of the data, that the loop comes back before twice the
response timeout, that the number of 64-bit integers is even and ends in a 6, that the texts, temperatures and records are such as above, that the lifetime main.cpp gives fits into 32 bits, that an int holds twenty
times the highest ID, that the options of a message are as the setters leave them, and that the server of `Client` reads and writes what `Packet` knows.
Where a theorem needs more, its statement says so: `Board` (what `main.cpp` does: no call of
`lwm2m_update_registration`, no failing allocation), and for the two that count seconds the
inequality between the timers, `Timely` and `RoomToResend`, which the numbers of the sources satisfy.

| Theorem | States | Along which argument |
|---|---|---|
| `TypeCorrect` | `Spec => []TypeOK` (Transaction) | from the invariant `TypeOK /\ NeverOne /\ NotOverdue`; `NeverOne` says that `retrans_counter` is never 1, since the first transmission counts for two |
| `DeadlinesKept` | `Spec => []NotOverdue` | `NotOverdue` is not inductive by itself: a retransmission adds `retrans_counter` times the timeout to the old deadline, and by `NeverOne` that is at least twice the timeout, more than the loop may lag; so `lwm2m_step` leaves no request due |
| `TransmissionsPaced` | `Spec => PacedTransmissions` | from the same invariant: what `transaction_send` adds puts the next deadline in the future |
| `TransactionImplementsExchange` | `Spec => ImplementsExchange` | adds `FlightBound`: as many datagrams are under way as transmissions allow, so a request given up early has been heard; one case per action of `Transaction`, each a step of `Exchange` or a stutter |
| `RegistrationTypeCorrect` | `Spec => []TypeOK` (Registration) | with the next |
| `NothingPendingForNothing` | `Spec => []PendingHasRequest` | the invariant comes in two halves: `AgeOK`, about the date of the registration, and `PInv`, the other types and `PendingHasRequest`, which asks nothing of that date. A pending status is set only in the step that sends its request, a request leaves the list only with its callback, and the callback ends the status of its own kind |
| `NothingPendingWhateverTheClock` | `ClockSpec => []PendingHasRequest` (RegistrationClock) | a write of Current Time moves dates, any number of seconds, and leaves `PInv` alone, and so does every other action whatever the dates are: with a clock a server sets, requests come early, late or never, but none is waited for that is not on the list |
| `OneRequest` | `Board` implies `Spec => []OneRequestAtATime` | `BoardInv` adds to the invariant that a server not waited for has no request on the list; `OnePlace` shows that a new request takes exactly one place, so that a pending status and its request come together |
| `AlwaysFresh` | `Board` implies `Spec => []RegistrationFresh` | with `OneRequest`: whatever `Needs` finds due in `lwm2m_step` is sent in that step, after which nothing is due, and between two steps the age grows as the lag does |
| `UpdatesInTime` | `Board`, `Timely` and no answer 4.01 imply `Spec => UpdateInTime` | `TimerInv` puts every update on a schedule: transmission number c is due at a fixed age of the registration, `FirstAge` and the timeouts before it, and late by what the loop is late; `Timely` says that the last, 28 half seconds after the first is due at the latest, is before the end of the margin, 30 half seconds |
| `SystemImplementsClient` | `SystemSpec => Spec` | each step of client and server is a step of the client or leaves it alone, so every theorem above holds of the two |
| `LocationIsCurrent` | `Board` implies `SystemSpec => []LocationCurrent` | `SystemInv` ties each request under way to what the server decided about it: an answer that registers comes out of the last POST the server accepted, since a new one is made only when the old is off the list |
| `UpdateHasItsChance` | `Board`, `RoomToResend` and lifetimes above 30 imply `SystemSpec => ChanceToResend` | `ChanceInv` bounds what the server has counted by the age the client counts and the delay of one answer; `Held`, that a server counts from what it accepted last, is kept by every decision |
| `ObserveTypeCorrect` | `Spec => []TypeOK` (Observe) | message IDs modulo `MidSpace`, finite sets of watchers |
| `EntriesWatched` | `Failing = {} => (Spec => []NoEmptyEntry)` | entries lose watchers one at a time, and `cancel_observe` removes the entry with the last |
| `ResetOnlyItsOwn` | `Spec => ResetCancelsItsOwn` | `Recent`: how far each `lastMid` and each message under way is behind the counter, and `Own`: a message with the `lastMid` of a watcher, no further behind than a RST may be, is that watcher's notification; arithmetic modulo `MidSpace` |
| `ObjectsTypeCorrect`, `InstancesFound` | `TypeOK`, `EveryInstanceFound` of Objects | the inductive invariant is `Good`: the types, and the instance list sorted by ID without one twice. The searches of `list.c` are right on sorted lists (`StopOK`, `FindOK`), and `AddOK` and `RemoveOK` show that they stay sorted |
| `CreationsTold`, `AccountSafe` | `CreatedOrUntouched`, `AccountNotTakenOver` | a creation puts an instance into the list, writes it there, and takes it out of the same place if the write is refused: `SameRest` says that the others are then as before. `Kept` says what a write leaves alone, the IDs and the account among it |
| `RefusedWritesKeep` | `Spec => []RefusedWriteKeepsBeginning` | `WriteAllOK`: the loop over the resources is a walk through the states `Writes` describes, up to the first that is refused; there is one such walk (`OneWay`), so a write of the beginning and a write of one resource after the other go the same way |
| `CopiesHarmless` | `Spec => []CopyHarmless` | each resource of a write covers some cells (numbers, letters of the binding), and what a cell holds in the end is what was last written into it, or what it held (`Overwrites`): the second time that is the same. An update started is not started again, an instance deleted is not found, and a creation is a write the second time |
| `TextsReadForWhatTheySay` | `ReadForWhatItSays` of every text | by induction along the text (`Upwards`): the loop holds what the digits so far say, or has given up, unless the sum of the last step was past the largest `uint64_t` while the product was not, which four numbers are (`MoreDigitsOK`, `ReadOK`) |
| `IntegersReadBack` | `IntegerReadsBack` | `digits` has a solution, since what is left of a number is smaller (`DigitsOK`); its digits say the number and no beginning of them more, so that the reader never wraps around on them (`DigitsSay`, `DigitsRead`) |
| `RecordReadsBack`, `CutRecordIsNothing` | a record of any type, 16-bit ID and value of less than 2^24 bytes is read as it was written, whatever follows it, and is not taken at all when its end is missing | the flags of the first byte are digits of it, so that the reader finds the bytes of the ID and of the length where the writer put them; the header alone decides how many bytes there must be |
| `ListReadsBack`, `CutListKeepsBeginning` | any number of records one behind the other are read as they were written, and of those cut anywhere the ones in front of the cut; a record that holds records with them, if its own are read back from its value | the recursion of `lwm2m_tlv_parse` has one solution (`ParseRounds`: what a round asks is shorter); by induction over the records (`ParseAhead`) they are found in front of anything that parses to nothing, which the rest of a record does by `CutRecordIsNothing` |
| `TreesReadBack`, `CutTreesKeepBeginning` | `RecordsReadBack`, `CutKeepsBeginning`: the same of records in records, on any number of levels | the recursion of `lwm2m_tlv_serialize` over the levels has a solution (`SerializeLevels`); by induction over the levels (`FineAbove`) what it writes are records whose values are read from their own buffers, which is what `ListReadsBack` asks for: a value that holds records is shorter than the whole, so its length fits too. Of cut ones, what `CutListKeepsBeginning` says was read is a beginning |
| `TemperaturesReadBack` | `TemperatureReadsBack` | the whole part is read as what its digits say (`DigitsSay`), which have no dot among them; of eighths three decimals are exact, and thousandths bring them back |
| `OpaquesReadBack` | `OpaqueReadsBack` | the bytes of a magnitude are its quotients by the powers of the base, so the reader, which multiplies and adds, holds the next quotient after each of them; the length leaves half of the first byte free for the sign |
| `PayloadsAreRead` | `Spec => []PayloadsMeanTheSame` (Payloads) | the six parts above |
| `PacketTypeCorrect`, `OneAnswer`, `AnswerTrue` | `TypeOK`, `AnsweredOnce`, `AnswerTellsEffect` of Packet | `IInv` says of each stage what has been answered and done by then: nothing is answered before the answer, and `EffectInv`, that an error met after something was done is one of sending, of a block, or of a write of several resources |
| `LossesNamed`, `DamageNamed` | `Spec => LossesExplained`, `Spec => DamageExplained` | `HeapInv` says at each stage which blocks may be held and where `response->payload` points, and that it points elsewhere than to its buffer only if the message `MovesPayload`; every other loss or wrong `free` contradicts it |
| `NamesMeanTheSame`, `NumbersTold` | `Spec => []UrisMeanTheSame` (Packet); `ReadAsId(n)` of every number `n` | `Spells` follows a path segment by segment through the flags of `lwm2m_uri_t`; of a number the int holds the tenfold reduced to its width, and which reduced numbers divide to an ID is arithmetic with the bounds of `UriAssumption` |
| `CodecMeansTheSame` | `Spec => []CodecReadsBack` (Packet): every message is read as it was written, if it is written at all, and of the Location-Paths exactly those its comment names come back | options: `Course` says that the loops have a course; a round of the reader takes what one string of an option wrote, wherever it stands (`OptionHeadersReadBack`), the strings of an option bring back its value, the options in `Order` the message, and the byte 255 the payload. Paths: the text is cut where it was put together, segment by segment, if no segment holds what the reader cuts at; otherwise two segments differ, or their number does |
| `OptionHeadersReadBack`, `NumbersReadBack` | the header of an option tells its number and its length, up to 65804 each, wherever it stands; a number of 32 bits is read as it was written, in as few bytes as it takes | the halves of the first byte, and where each extension stands behind it; the recursion of `coap_parse_int_option` has the solution one computes by hand for at most four bytes |
| `ClientTypeCorrect`, `ClientImplementsLoop`, `ClientImplementsPacket` | `ClientSpec => []ClientTypeOK`; `ClientSpec` implements `MainLoop` and, with the requests of the server for its datagrams, `Packet` | each action of `Client` is a step of one and of the other, or leaves it alone; `PacketProofs` is instantiated, so its theorems are those of the packet handling inside the client |
| `ToldTruth` | `ClientSpec => []ToldTheTruth` | `IInv` states of every message the client has ever sent, and of the one it is about to send, that a success of the last request says what the resource has held since that was made, and holds unless `late`: requests with the same ID are the same, so a copy of the last one writes nothing else, and any other that changes the resource sets `late`. The order of arrival does not come into it |
| `LightTypeCorrect` | `Spec => []TypeOK` (RgbLed) | with the next |
| `LightShown`, `NoStale` | `PinsShowState`, `NoStaleColour` | `WriteInv` says line by line what a call has settled, with a case for the interrupts at each; what an interrupt tears is only ever dark or the colour it read, and the rest of the call writes over it |
| `ReportTrue` | `ReportedWasTrue` | the pins showed one state at every moment between the reads, or were dark at one of them |

`TransactionOpsProofs` holds the lemmas on records that both
`TransactionProofs` and `RegistrationProofs` cite: what a transmission, an answer
and a second leave of one request. `ObjectsProofs`
and `PacketProofs` have two lemmas that stand for
induction, which the library states for predicates the provers cannot instantiate:
`Upwards`, for a set of numbers, and `Course`, that a recursion has a solution. Both rest on
`Smallest`, the least element of a set of numbers, which follows from the library's theorem
that inclusion of finite sets is well-founded.

Every safety invariant and every action property the passing runs check is a theorem.
What a property excepts by name (the last remarks above), the theorem about it excepts too.
Only model-checked are the liveness properties (`EveryRequestConcluded`, `AlwaysReturns`,
`UnwantedEnds`, `KeepsStepping`, `NotifiesWhenQuiet`, `EveryRequestAnswered`): fairness and
ENABLED are beyond the prover.

## Where the code and its comments differ

* `loop_stranger`: `main.cpp:249` says "No Session found, ignore packet". The loop
  that searches the session does not move its cursor on a mismatch, so a datagram
  whose host is not that of the first session keeps the program there.
* `light_off`: `object_rgb_led.cpp:85` says "apply color only if the light is
  ON". The test and the three writes are not one access: the off button in between
  leaves a lamp that is switched off and lit.

Remarks, each met while modelling, without a run of its own:

* A renewed observation keeps the `lastMid` of its last notification under the old
  token (`observe.c:188`), so the RST for that notification ends the observation
  just renewed. The model has this behaviour and the properties allow it.
* Message ID 0 is both an ID and the `lastMid` of a watcher never notified;
  `ResetCancelsItsOwn` has to except it.
* A lifetime of 0 is said to mean 86400 (`liblwm2m.h:385`); `registration_update` takes it as
  it is, and every update is due at once.
* With answers on their way for more than 10 seconds `ChanceToResend` no longer holds: the
  client's date is that of reading the answer (`registration.c:121`), so the delay comes out
  of the margin of 15 seconds, with the first timeout of 2 and the two rounds of the
  loop. `UpdateHasItsChance` proves it up to 10 for every lifetime above 30, and TLC finds it
  violated at 11.
* An answer 4.01, and each copy of it, puts the next transmission of a request off by one
  more timeout (`transaction.c:347`), so that the last transmission of an update may come
  after the registration has run out: `UpdateInTime` holds of servers that do not answer
  so, and is proved for those.
* A clock set forward makes all retransmissions of a request due, and they go out in
  consecutive rounds without a pause; set back, they wait that much longer.
* Sessions are compared by host without the port (`main.cpp:242`): of two servers
  on one host, one gets the datagrams of the other.
* A light that is on with a black colour reads as off (`object_rgb_led.cpp:126`).
* A shorter binding written over a longer one leaves its end: "S" over "UQS" is "SQS", which
  is no mode (`object_server.c:277`).
* Instances of the Server object that servers create have the short ID 0, which the
  comment at `object_server.c:26` excludes, and cannot be given another.
* Execute on Disable or on Registration Update Trigger is answered with 2.04
  "executed in core" (`object_server.c:314`), and the core does nothing; a lifetime
  written to the Server object never reaches the registration.
* The firmware object's state goes to 2 and stays there.
* The buffer `object_read` allocates for a notification is not freed (`observe.c:259`).
* An answer of which a block beyond the first, or any block of an empty one, is asked for loses its buffer, and `free` is
  given a pointer into it, or to the constant of "BlockOutOfScope" (`packet.c:285`);
  `LossesExplained` and `DamageExplained` say exactly when.
* A Block1 option sets an error code that `message_send` overwrites: a chunk is written as
  the whole value and answered 2.04 (`packet.c:245`).
* An error is answered with an ACK without a token even to a message that was not
  confirmable (`packet.c:350`); the text of the answer is a global nothing resets, and may
  be that of an earlier error (`packet.c:354`).
* With two servers on two hosts even the datagrams of the second known server are never
  attributed, for the reason `loop_stranger` shows.
* `lwm2m_PlainTextToInt64` checks the product with ten and not the sum: 18446744073709551616
  is read as 0 (`utils.c:77`). The lowest `int64_t` is written as a minus and a
  character below "0" (`utils.c:175`), and in a record takes a ninth byte in front of a buffer
  of eight (`tlv.c:135`). A temperature between -1 and 0 loses its sign (`utils.c:236`).
  `PlainText`, `Text` and `Tlv` model all four; their properties except them by name.
* A payload that was cut short is written up to the cut and answered 2.04 (`tlv.c:386`), and the
  first allocation of a parse is not checked (`tlv.c:406`).
* An option that finds no memory is left out of a path without an error
  (`er-coap-13.c:260`). One of which nothing is left still counts as the last written: the
  next delta is short and it is sent under another number (`er-coap-13.h:290`).
* A Location-Path that ends in an empty segment, or has a segment with a slash or a 0 in it, is
  not reproduced by the update: `CodecReadsBack` excepts these and, as the theorem shows, no others.
* A number whose tenfold wraps around the int is read as another (`uri.c:74`): of 32 bits,
  429496730 as 0, and so is each number whose tenfold wraps to between -9 and -1, since the division
  truncates towards zero. `ReadAsId` says which numbers these are; all others out of range are refused.
* Each segment of a path is read up to a slash in it (`uri.c:69`), so that one that holds "12/3" is 12.
* An empty content is not even block 0 of itself (`packet.c:254`): POST on `/1/1` with a lifetime only leaves
  an empty binding, and a GET of it with Block2 number 0 is answered 4.02, loses the buffer and
  frees a constant.
* A write refused at its second resource has changed the first and is answered with an error
  (`object_server.c:294`); no answer tells how far it came.
* A confirmed write is undone by a late copy of an earlier one: nothing deduplicates requests.
* Changes are notified only in a round without a datagram (`main.cpp:250`), so that a server that writes
  more often than once a second keeps everybody from being notified.
* `object_getServers` may fail midway and keep the servers found so far; `main` then ends
  (`liblwm2m.c:396`).

## Not modelled

* `lwm2m_close`, `registration_deregister`: `main.cpp` never calls them.
* The bootstrap client, the server half, the bootstrap server: not compiled.
* Floats in records (the bytes of the processor) and allocations that fail halfway through
  a TLV parse; formatting and wording of texts.
* Message IDs that wrap onto a live request: 65536 messages within two minutes.
* The Security object and `object_getServers`: written only while bootstrapping, which is
  not compiled; the accounts of the board are part of `Init`. Constant resources of the
  Device object; the two sensors, which are read and nothing else.
* lwIP, the mbed SDK, the RTOS and the drivers, which are most of the lines of the
  repository: third-party code that the program meets as a socket, a clock, pins and
  interrupts; tracing.

## What is next, in this order

1. `StartUp`: `lwm2m_init`, `lwm2m_configure`, `lwm2m_start` and `object_getServers` over
   Security and Server instances that fail at each stage; the abstract specification is
   "all accounts or none".
2. `Deregistration`: `lwm2m_close` and `registration_deregister` added to
   `Registration`, for a program that calls them.
3. An abstract registration (out, waiting, in) that `Registration` implements.
