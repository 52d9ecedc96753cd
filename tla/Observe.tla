------------------------------- MODULE Observe -------------------------------
(***************************************************************************)
(* The observations of wakaama/observe.c (client half), as the main loop   *)
(* and lwm2m_handle_packet drive them, with the servers that ask for them  *)
(* and the network in between.                                             *)
(*                                                                         *)
(* A URI is the path <<object>>, <<object, instance>> or <<object,         *)
(* instance, resource>>.  The lists of the code are sets here: their order *)
(* only decides how the message IDs of one call are dealt out and which    *)
(* entry cancel_observe comes to first, and the model allows any.          *)
(* The observe counter is left out; message IDs are numbers modulo         *)
(* MidSpace (2^16 in the code) and start anywhere (nextMID = rand()).      *)
(*                                                                         *)
(* Servers are external: one holds an observation under the token of its   *)
(* last request, may forget it, and answers a notification under any other *)
(* token with a RST, which is how an observation is cancelled.             *)
(***************************************************************************)
EXTENDS Integers, FiniteSets, SequencesExt

CONSTANTS
  Uris,      \* URIs servers observe
  Servers,   \* contextP->serverList, one session each
  Fired,     \* URIs main.cpp calls lwm2m_resource_value_changed with
  MidSpace,  \* number of message IDs
  Window,    \* a RST comes before the client has used this many more
  MaxAsks,   \* observe requests of a server for one URI
  Copies,    \* copies of one request the network may deliver
  Failing,   \* allocations that may fail: "observed", "watcher", "read"
  None

ASSUME ObserveAssumption ==
  /\ MidSpace \in Nat /\ Window \in Nat \ {0} /\ 2 * Window <= MidSpace
  /\ MaxAsks \in Nat \ {0} /\ Copies \in Nat \ {0}
  /\ Failing \subseteq {"observed", "watcher", "read"}
  /\ IsFiniteSet(Uris) /\ IsFiniteSet(Servers)
  /\ Window + Cardinality(Uris \X Servers) < MidSpace  \* no RST outlives its message ID
  /\ None \notin Nat /\ None \notin [token : Nat, lastMid : Nat]

Mids == 0 .. MidSpace - 1
Tokens == 1 .. MaxAsks
Pairs == Uris \X Servers

VARIABLES
  nextMID,   \* contextP->nextMID
  observed,  \* contextP->observedList: the URIs that have an entry
  watcher,   \* the watcher a server has in the entry of a URI, None if it has none
  halted,    \* the processor has faulted
  interest,  \* the token under which a server holds the observation, None if it does not
  asked,     \* observe requests a server has made
  requests,  \* copies of each of them still on their way
  sent       \* messages of the client a RST may still come for

client == <<nextMID, observed, watcher, halted>>
server == <<interest, asked>>
vars == <<client, server, requests, sent>>

TypeOK ==
  /\ nextMID \in Mids
  /\ observed \subseteq Uris
  /\ watcher \in [Pairs -> [token : Tokens, lastMid : Mids] \cup {None}]
  /\ halted \in BOOLEAN
  /\ interest \in [Pairs -> Tokens \cup {None}]
  /\ asked \in [Pairs -> 0 .. MaxAsks]
  /\ requests \in [Pairs \X Tokens -> 0 .. Copies]
  /\ sent \subseteq [mid : Mids, uri : Uris \cup {None}, server : Servers, token : Tokens \cup {None}]

Init ==
  /\ nextMID \in Mids
  /\ observed = {}
  /\ watcher = [p \in Pairs |-> None]
  /\ halted = FALSE
  /\ interest = [p \in Pairs |-> None]
  /\ asked = [p \in Pairs |-> 0]
  /\ requests = [q \in Pairs \X Tokens |-> 0]
  /\ sent = {}

Watched == {p \in Pairs : watcher[p] # None}

\* The entries of the list that have no watcher.
EmptyEntries(entries, w) == {u \in entries : \A s \in Servers : w[<<u, s>>] = None}

-----------------------------------------------------------------------------
(* Message IDs. *)

MidAfter_Wider(n) == nextMID + n
MidAfter(n) == (nextMID + n) % MidSpace
Since(mid, next) == (next - mid) % MidSpace

\* The next n message IDs, which the watchers in renewed take, are none that
\* another watcher was last notified with: there are 65536 of them, and main.cpp
\* notifies about four URIs a second.
Spare(n, renewed) ==
  \A p \in Watched \ renewed :
    watcher[p].lastMid # 0 => Since(nextMID, watcher[p].lastMid) >= n

\* The client sends the messages in new, and RSTs to old ones are lost.
Send(new, next) ==
  /\ sent' = {m \in sent \cup new : Since(m.mid, next) <= Window}
  /\ nextMID' = next

-----------------------------------------------------------------------------
(* The client. *)

\* handle_observe_request, after a successful read: the entry of the URI is
\* found or made, then the watcher of the server in it, which takes the token.
handle_observe_request(u, s, token) ==
  \/ /\ observed' = observed \cup {u}
     /\ watcher' = [watcher EXCEPT ![<<u, s>>] =
                      IF @ = None THEN [token |-> token, lastMid |-> 0]
                                  ELSE [@ EXCEPT !.token = token]]
  \/ /\ "observed" \in Failing /\ u \notin observed
     /\ UNCHANGED <<observed, watcher>>
  \/ /\ "watcher" \in Failing /\ watcher[<<u, s>>] = None
     /\ observed' = observed \cup {u}
     /\ UNCHANGED watcher

\* lwm2m_handle_packet on a GET with Observe: a copy of it has arrived, and
\* nothing tells the client that it has answered another one before.
GetObserve(u, s, token) ==
  /\ ~halted
  /\ requests[<<<<u, s>>, token>>] > 0
  /\ requests' = [requests EXCEPT ![<<<<u, s>>, token>>] = @ - 1]
  /\ \/ handle_observe_request(u, s, token)
     \/ "read" \in Failing /\ UNCHANGED <<observed, watcher>>
  /\ UNCHANGED <<nextMID, halted, server, sent>>

\* The entries a change of uri concerns: one path is a prefix of the other.
prv_getObservedList(uri) == {u \in observed : IsPrefix(u, uri) \/ IsPrefix(uri, u)}

\* The calls of lwm2m_resource_value_changed main.cpp makes in a round without
\* a packet: every watcher of every entry concerned that can be read is
\* notified, each with a message ID of its own.
lwm2m_resource_value_changed_SameMid(ps, rank) ==
  /\ watcher' = [p \in Pairs |->
                   IF p \in ps THEN [watcher[p] EXCEPT !.lastMid = nextMID] ELSE watcher[p]]
  /\ Send({[mid |-> nextMID, uri |-> p[1], server |-> p[2], token |-> watcher[p].token]
             : p \in ps}, MidAfter(1))
lwm2m_resource_value_changed_LateMid(ps, rank) ==
  /\ watcher' = [p \in Pairs |->
                   IF p \in ps THEN [watcher[p] EXCEPT !.lastMid = MidAfter(rank[p] + 1)]
                               ELSE watcher[p]]
  /\ Send({[mid |-> MidAfter(rank[p]), uri |-> p[1], server |-> p[2],
            token |-> watcher[p].token] : p \in ps}, MidAfter(Cardinality(ps)))
lwm2m_resource_value_changed(ps, rank) ==
  /\ watcher' = [p \in Pairs |->
                   IF p \in ps THEN [watcher[p] EXCEPT !.lastMid = MidAfter(rank[p])]
                               ELSE watcher[p]]
  /\ Send({[mid |-> MidAfter(rank[p]), uri |-> p[1], server |-> p[2],
            token |-> watcher[p].token] : p \in ps}, MidAfter(Cardinality(ps)))

Fire(readable) ==
  LET ps == {p \in Watched : /\ p[1] \in readable
                             /\ \E uri \in Fired : p[1] \in prv_getObservedList(uri)}
  IN  /\ ~halted
      /\ Spare(Cardinality(ps), ps)
      /\ \E rank \in [ps -> 0 .. Cardinality(ps) - 1] :
           IsInjective(rank) /\ lwm2m_resource_value_changed(ps, rank)
      /\ UNCHANGED <<observed, halted, server, requests>>

\* Any other message of the client takes a message ID too.
OtherMessage(s) ==
  /\ ~halted
  /\ Spare(1, {})
  /\ Send({[mid |-> nextMID, uri |-> None, server |-> s, token |-> None]}, MidAfter(1))
  /\ UNCHANGED <<observed, watcher, halted, server, requests>>

\* cancel_observe: the walk over the entries ends at the first one with a
\* watcher of that session and message ID.
Matches(mid, s) == {p \in Watched : p[2] = s /\ watcher[p].lastMid = mid}

cancel_observe_KeepsEntry(mid, s) ==
  IF Matches(mid, s) = {} THEN UNCHANGED <<observed, watcher>>
  ELSE /\ UNCHANGED observed
       /\ \E p \in Matches(mid, s) : watcher' = [watcher EXCEPT ![p] = None]
cancel_observe(mid, s) ==
  IF Matches(mid, s) = {} THEN UNCHANGED <<observed, watcher>>
  ELSE \E p \in Matches(mid, s) :
         /\ watcher' = [watcher EXCEPT ![p] = None]
         /\ observed' = observed \ EmptyEntries({p[1]}, watcher')

\* lwm2m_handle_packet on a RST for message m.  An entry without a watcher met
\* on the way is read through NULL, and the processor faults.
Reset(m) ==
  /\ ~halted
  /\ m \in sent
  /\ m.uri # None => interest[<<m.uri, m.server>>] # m.token
  /\ sent' = sent \ {m}
  /\ \/ /\ EmptyEntries(observed, watcher) = {} \/ Matches(m.mid, m.server) # {}
        /\ cancel_observe(m.mid, m.server)
        /\ UNCHANGED halted
     \/ /\ EmptyEntries(observed, watcher) # {}
        /\ halted' = TRUE
        /\ UNCHANGED <<observed, watcher>>
  /\ UNCHANGED <<nextMID, server, requests>>

-----------------------------------------------------------------------------
(* The servers. *)

Ask(u, s) ==
  /\ asked[<<u, s>>] < MaxAsks
  /\ LET token == asked[<<u, s>>] + 1
     IN  /\ asked' = [asked EXCEPT ![<<u, s>>] = token]
         /\ interest' = [interest EXCEPT ![<<u, s>>] = token]
         /\ requests' = [requests EXCEPT ![<<<<u, s>>, token>>] = Copies]
  /\ UNCHANGED <<client, sent>>

\* The user of the server cancels, or the server restarts.
Forget(u, s) ==
  /\ interest[<<u, s>>] # None
  /\ interest' = [interest EXCEPT ![<<u, s>>] = None]
  /\ UNCHANGED <<client, asked, requests, sent>>

Next ==
  \/ \E p \in Pairs, token \in Tokens : GetObserve(p[1], p[2], token)
  \/ \E unreadable \in (IF "read" \in Failing THEN SUBSET Uris ELSE {{}}) :
       Fire(Uris \ unreadable)
  \/ \E s \in Servers : OtherMessage(s)
  \/ \E m \in sent : Reset(m)
  \/ \E p \in Pairs : Ask(p[1], p[2]) \/ Forget(p[1], p[2])

Spec == Init /\ [][Next]_vars

\* Time and again the main loop has a round without a packet, and time and again
\* a RST for the last notification of a watcher comes before the next one.
Fairness ==
  /\ WF_vars(Fire(Uris))
  /\ \A p \in Pairs :
       SF_vars(/\ watcher[p] # None
               /\ \E m \in sent : /\ <<m.uri, m.server>> = p
                                  /\ m.mid = watcher[p].lastMid /\ Reset(m))

FairSpec == Spec /\ Fairness

-----------------------------------------------------------------------------
(* Properties. *)

Removed(p) == watcher[p] # None /\ watcher'[p] = None

\* cancel_observe goes by message ID and session alone, for every message of the
\* client, over the entries of all URIs: still it cancels no observation but the
\* one whose notification was reset.  Message ID 0 is the exception: it is also
\* the lastMid of a watcher that was never notified.
ResetCancelsItsOwn ==
  [][\A p \in Pairs : Removed(p) =>
       \E m \in sent \ sent' : <<m.uri, m.server>> = p \/ m.mid = 0]_vars

\* As long as memory lasts no entry is left without a watcher, which the next
\* RST would read through NULL.
NoEmptyEntry == EmptyEntries(observed, watcher) = {} /\ ~halted

\* A server that no longer wants an observation is rid of it in the end, though
\* only the RST of the very last notification counts, and late copies of its
\* request can bring the observation back.
UnwantedEnds ==
  \A p \in Pairs :
    (\E uri \in Fired : IsPrefix(p[1], uri) \/ IsPrefix(uri, p[1])) =>
      (<>[](interest[p] = None) => <>[](watcher[p] = None))
=============================================================================
