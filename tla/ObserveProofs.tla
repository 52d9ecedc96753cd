---------------------------- MODULE ObserveProofs ----------------------------
(***************************************************************************)
(* Observe keeps its type whatever fails, and as long as memory lasts it   *)
(* leaves no entry of the observed list without a watcher, for any URIs,   *)
(* servers, message IDs and delays.                                        *)
(***************************************************************************)
EXTENDS Observe, FiniteSetTheorems, TLAPS

\* A message ID further on is a message ID.
LEMMA MidsType == \A n \in Nat, k \in Mids : (k + n) % MidSpace \in Mids
  <1>1. MidSpace \in Nat \ {0}
    BY ObserveAssumption
  <1> QED
    BY <1>1 DEF Mids

\* The pairs notified at once are finitely many.
LEMMA PairsFinite ==
  ASSUME NEW ps \in SUBSET Pairs
  PROVE  IsFiniteSet(ps) /\ Cardinality(ps) \in Nat
  BY ObserveAssumption, FS_Product, FS_Subset, FS_CardinalityType DEF Pairs

-----------------------------------------------------------------------------
\* Initially there are no entries, watchers, requests or messages.
LEMMA InitType == Init => TypeOK
  <1> SUFFICES ASSUME Init PROVE TypeOK
    OBVIOUS
  <1>1. 0 \in 0 .. MaxAsks /\ 0 \in 0 .. Copies
    BY ObserveAssumption
  <1>2. asked \in [Pairs -> 0 .. MaxAsks] /\ requests \in [Pairs \X Tokens -> 0 .. Copies]
    BY <1>1 DEF Init
  <1> QED
    BY <1>2 DEF Init, TypeOK

\* What is sent keeps its type: the messages in new are added, others are lost.
LEMMA SendType ==
  ASSUME TypeOK, NEW new, NEW next \in Mids, Send(new, next),
         new \subseteq [mid : Mids, uri : Uris \cup {None}, server : Servers,
                        token : Tokens \cup {None}]
  PROVE  /\ nextMID' \in Mids
         /\ sent' \subseteq [mid : Mids, uri : Uris \cup {None}, server : Servers,
                             token : Tokens \cup {None}]
  BY DEF TypeOK, Send

\* A request makes an entry and a watcher, or gives the watcher its token.
LEMMA GetObserveType ==
  ASSUME TypeOK, NEW p \in Pairs, NEW token \in Tokens, GetObserve(p[1], p[2], token)
  PROVE  TypeOK'
  <1> DEFINE q == <<p[1], p[2]>>
  <1>1. q = p /\ p[1] \in Uris /\ q \in Pairs /\ 0 \in Mids
    BY ObserveAssumption DEF Pairs, Mids
  <1>2. requests' \in [Pairs \X Tokens -> 0 .. Copies]
    <2>1. requests[<<q, token>>] \in 0 .. Copies /\ requests[<<q, token>>] > 0
      BY <1>1 DEF TypeOK, GetObserve
    <2> QED
      BY <1>1, <2>1, ObserveAssumption DEF TypeOK, GetObserve
  <1>3. observed' \subseteq Uris
    BY <1>1 DEF TypeOK, GetObserve, handle_observe_request
  <1>4. watcher' \in [Pairs -> [token : Tokens, lastMid : Mids] \cup {None}]
    <2>1. CASE UNCHANGED watcher
      BY <2>1 DEF TypeOK
    <2>2. CASE watcher' = [watcher EXCEPT ![q] = IF @ = None
                             THEN [token |-> token, lastMid |-> 0]
                             ELSE [@ EXCEPT !.token = token]]
      BY <1>1, <2>2 DEF TypeOK
    <2> QED
      BY <2>1, <2>2 DEF GetObserve, handle_observe_request
  <1> QED
    BY <1>2, <1>3, <1>4 DEF TypeOK, GetObserve, server

\* A notified watcher stays one, with the token it had and a new message ID.
LEMMA FireType ==
  ASSUME TypeOK, NEW readable, Fire(readable)
  PROVE  /\ TypeOK'
         /\ \A p \in Pairs : watcher[p] # None =>
              watcher'[p] \in [token : Tokens, lastMid : Mids]
  <1> DEFINE ps == {p \in Watched : /\ p[1] \in readable
                                    /\ \E uri \in Fired : p[1] \in prv_getObservedList(uri)}
  <1>1. ps \in SUBSET Watched /\ ps \in SUBSET Pairs
    BY DEF Watched
  <1>2. PICK rank \in [ps -> 0 .. Cardinality(ps) - 1] : lwm2m_resource_value_changed(ps, rank)
    BY DEF Fire
  <1>3. UNCHANGED <<observed, halted, server, requests>>
    BY DEF Fire
  <1> HIDE DEF ps
  <1>4. \A p \in ps : MidAfter(rank[p]) \in Mids
    <2>1. \A p \in ps : rank[p] \in Nat
      BY <1>1, <1>2, PairsFinite
    <2> QED
      BY <2>1, MidsType DEF MidAfter, TypeOK
  <1>5. MidAfter(Cardinality(ps)) \in Mids
    BY <1>1, PairsFinite, MidsType DEF MidAfter, TypeOK
  <1>6. \A p \in ps : /\ p \in Pairs /\ p[1] \in Uris /\ p[2] \in Servers
                      /\ watcher[p] \in [token : Tokens, lastMid : Mids]
    BY <1>1 DEF Watched, Pairs, TypeOK
  <1>7. watcher' \in [Pairs -> [token : Tokens, lastMid : Mids] \cup {None}]
    BY <1>2, <1>4, <1>6 DEF lwm2m_resource_value_changed, TypeOK
  <1>8. \A p \in Pairs : watcher[p] # None =>
          watcher'[p] \in [token : Tokens, lastMid : Mids]
    BY <1>2, <1>4, <1>6 DEF lwm2m_resource_value_changed, TypeOK
  <1>9. /\ nextMID' \in Mids
        /\ sent' \subseteq [mid : Mids, uri : Uris \cup {None}, server : Servers,
                            token : Tokens \cup {None}]
    <2> DEFINE new == {[mid |-> MidAfter(rank[p]), uri |-> p[1], server |-> p[2],
                        token |-> watcher[p].token] : p \in ps}
    <2>1. new \subseteq [mid : Mids, uri : Uris \cup {None}, server : Servers,
                         token : Tokens \cup {None}]
      BY <1>4, <1>6
    <2>2. Send(new, MidAfter(Cardinality(ps)))
      BY <1>2 DEF lwm2m_resource_value_changed
    <2> HIDE DEF new
    <2> QED
      BY <1>5, <2>1, <2>2, SendType
  <1> QED
    BY <1>3, <1>7, <1>8, <1>9 DEF TypeOK, server

\* Any other message only takes a message ID.
LEMMA OtherMessageType ==
  ASSUME TypeOK, NEW s \in Servers, OtherMessage(s)
  PROVE  TypeOK'
  <1> DEFINE new == {[mid |-> nextMID, uri |-> None, server |-> s, token |-> None]}
  <1>1. new \subseteq [mid : Mids, uri : Uris \cup {None}, server : Servers,
                       token : Tokens \cup {None}]
    BY DEF TypeOK
  <1>2. Send(new, MidAfter(1)) /\ UNCHANGED <<observed, watcher, halted, server, requests>>
    BY DEF OtherMessage
  <1>3. MidAfter(1) \in Mids
    BY MidsType DEF MidAfter, TypeOK
  <1> HIDE DEF new
  <1>4. /\ nextMID' \in Mids
        /\ sent' \subseteq [mid : Mids, uri : Uris \cup {None}, server : Servers,
                            token : Tokens \cup {None}]
    BY <1>1, <1>2, <1>3, SendType
  <1> QED
    BY <1>2, <1>4 DEF TypeOK, server

\* A reset takes away watchers, entries and the message, and may halt.
LEMMA ResetType ==
  ASSUME TypeOK, NEW m \in sent, Reset(m)
  PROVE  TypeOK'
  <1>1. \/ UNCHANGED <<observed, watcher>>
        \/ \E p \in Pairs : /\ watcher' = [watcher EXCEPT ![p] = None]
                            /\ observed' \subseteq observed
    BY DEF Reset, cancel_observe, Matches, Watched
  <1>2. halted' \in BOOLEAN
    BY DEF Reset, TypeOK
  <1> QED
    BY <1>1, <1>2 DEF Reset, TypeOK, server

\* The servers change their own wishes alone.
LEMMA ServerType ==
  ASSUME TypeOK, NEW p \in Pairs, Ask(p[1], p[2]) \/ Forget(p[1], p[2])
  PROVE  TypeOK'
  <1> DEFINE q == <<p[1], p[2]>>
  <1>1. q \in Pairs
    BY DEF Pairs
  <1>2. CASE Ask(p[1], p[2])
    <2>1. asked[q] + 1 \in Tokens /\ asked[q] + 1 \in 0 .. MaxAsks /\ Copies \in 0 .. Copies
      BY <1>1, <1>2, ObserveAssumption DEF Ask, TypeOK, Tokens
    <2> QED
      BY <1>1, <1>2, <2>1 DEF Ask, TypeOK, client
  <1>3. CASE Forget(p[1], p[2])
    BY <1>1, <1>3 DEF Forget, TypeOK, client
  <1> QED
    BY <1>2, <1>3

\* Every step keeps the type.
LEMMA NextType == TypeOK /\ [Next]_vars => TypeOK'
  <1> SUFFICES ASSUME TypeOK, [Next]_vars PROVE TypeOK'
    OBVIOUS
  <1>1. CASE \E p \in Pairs, token \in Tokens : GetObserve(p[1], p[2], token)
    BY <1>1, GetObserveType
  <1>2. CASE \E unreadable \in (IF "read" \in Failing THEN SUBSET Uris ELSE {{}}) :
               Fire(Uris \ unreadable)
    BY <1>2, FireType
  <1>3. CASE \E s \in Servers : OtherMessage(s)
    BY <1>3, OtherMessageType
  <1>4. CASE \E m \in sent : Reset(m)
    BY <1>4, ResetType
  <1>5. CASE \E p \in Pairs : Ask(p[1], p[2]) \/ Forget(p[1], p[2])
    BY <1>5, ServerType
  <1>6. CASE UNCHANGED vars
    BY <1>6 DEF vars, client, server, TypeOK
  <1> QED
    BY <1>1, <1>2, <1>3, <1>4, <1>5, <1>6 DEF Next

\* The state of client, servers and network keeps its type, in particular the
\* message IDs of watchers and messages stay within their 16 bits.
THEOREM ObserveTypeCorrect == Spec => []TypeOK
  BY InitType, NextType, PTL DEF Spec

-----------------------------------------------------------------------------
\* An entry that gains no watcher and loses none is as empty as it was.
LEMMA EntriesKept ==
  ASSUME TypeOK, EmptyEntries(observed, watcher) = {},
         observed' \subseteq observed,
         \A p \in Pairs : watcher[p] # None => watcher'[p] # None
  PROVE  EmptyEntries(observed, watcher)' = {}
  BY DEF EmptyEntries, TypeOK, Pairs

\* While no allocation fails, every step keeps entries watched.
LEMMA NextWatched ==
  ASSUME TypeOK, NoEmptyEntry, Failing = {}, [Next]_vars
  PROVE  NoEmptyEntry'
  <1> USE DEF NoEmptyEntry
  <1>1. ASSUME NEW p \in Pairs, NEW token \in Tokens, GetObserve(p[1], p[2], token)
        PROVE  NoEmptyEntry'
    <2> DEFINE q == <<p[1], p[2]>>
    <2>1. q \in Pairs /\ q = p /\ p[2] \in Servers
      BY DEF Pairs
    <2>2. /\ observed' = observed \cup {p[1]} /\ ~halted'
          /\ watcher' = [watcher EXCEPT ![q] = IF @ = None
                           THEN [token |-> token, lastMid |-> 0]
                           ELSE [@ EXCEPT !.token = token]]
      BY <1>1 DEF GetObserve, handle_observe_request
    <2>3. watcher'[q] # None
      BY <2>1, <2>2, ObserveAssumption DEF TypeOK, Tokens, Mids
    <2>4. \A r \in Pairs : watcher[r] # None => watcher'[r] # None
      BY <2>1, <2>2, <2>3 DEF TypeOK
    <2>5. ASSUME NEW u \in observed', \A s \in Servers : watcher'[<<u, s>>] = None
          PROVE  FALSE
      BY <2>1, <2>2, <2>3, <2>4, <2>5 DEF EmptyEntries, TypeOK, Pairs
    <2> QED
      BY <2>2, <2>5 DEF EmptyEntries
  <1>2. ASSUME NEW readable, Fire(readable)
        PROVE  NoEmptyEntry'
    <2>1. \A p \in Pairs : watcher[p] # None => watcher'[p] # None
      BY <1>2, FireType, ObserveAssumption DEF Tokens, Mids
    <2> QED
      BY <1>2, <2>1, EntriesKept DEF Fire
  <1>3. ASSUME NEW s \in Servers, OtherMessage(s)
        PROVE  NoEmptyEntry'
    BY <1>3, EntriesKept DEF OtherMessage
  <1>4. ASSUME NEW m \in sent, Reset(m)
        PROVE  NoEmptyEntry'
    <2>1. UNCHANGED halted /\ cancel_observe(m.mid, m.server)
      BY <1>4 DEF Reset
    <2>2. CASE UNCHANGED <<observed, watcher>>
      BY <2>1, <2>2 DEF EmptyEntries
    <2>3. ASSUME NEW p \in Pairs, watcher' = [watcher EXCEPT ![p] = None],
                 observed' = observed \ EmptyEntries({p[1]}, watcher')
          PROVE  NoEmptyEntry'
      <3>1. \A u \in observed' : \E s \in Servers : watcher'[<<u, s>>] # None
        <4> SUFFICES ASSUME NEW u \in observed'
                     PROVE  \E s \in Servers : watcher'[<<u, s>>] # None
          OBVIOUS
        <4>1. CASE u = p[1]
          BY <2>3, <4>1 DEF EmptyEntries
        <4>2. CASE u # p[1]
          <5>1. u \in observed
            BY <2>3
          <5>2. PICK s \in Servers : watcher[<<u, s>>] # None
            BY <5>1 DEF EmptyEntries
          <5>3. <<u, s>> \in Pairs /\ <<u, s>> # p
            BY <4>2, <5>1 DEF TypeOK, Pairs
          <5> QED
            BY <2>3, <5>2, <5>3 DEF TypeOK
        <4> QED
          BY <4>1, <4>2
      <3> QED
        BY <2>1, <3>1 DEF EmptyEntries
    <2> QED
      BY <2>1, <2>2, <2>3 DEF cancel_observe, Matches, Watched
  <1>5. ASSUME NEW p \in Pairs, Ask(p[1], p[2]) \/ Forget(p[1], p[2])
        PROVE  NoEmptyEntry'
    BY <1>5 DEF Ask, Forget, client, EmptyEntries
  <1>6. CASE UNCHANGED vars
    BY <1>6 DEF vars, client, EmptyEntries
  <1> QED
    BY <1>1, <1>2, <1>3, <1>4, <1>5, <1>6 DEF Next

\* As long as no allocation fails, no entry of the observed list is without a
\* watcher, and so cancel_observe never reads through NULL.
THEOREM EntriesWatched == Failing = {} => (Spec => []NoEmptyEntry)
  <1> SUFFICES ASSUME Failing = {} PROVE Spec => []NoEmptyEntry
    OBVIOUS
  <1>1. Init => TypeOK /\ NoEmptyEntry
    BY InitType DEF Init, NoEmptyEntry, EmptyEntries
  <1>2. TypeOK /\ NoEmptyEntry /\ [Next]_vars => (TypeOK /\ NoEmptyEntry)'
    BY NextType, NextWatched
  <1> QED
    BY <1>1, <1>2, PTL DEF Spec
-----------------------------------------------------------------------------
(* A RST names its observation by message ID alone, so ResetCancelsItsOwn  *)
(* needs an invariant on message IDs: those a RST may still come for lie   *)
(* behind nextMID by at most the window, and one that is the lastMid of a  *)
(* watcher belongs to that watcher's own notification.                     *)

Recent == \A m \in sent : Since(m.mid, nextMID) \in 1 .. Window

Own == \A m \in sent, p \in Watched :
         m.mid = watcher[p].lastMid /\ m.mid # 0 => <<m.uri, m.server>> = p

\* Message IDs wrap around once at most.
LEMMA Modulo ==
  ASSUME NEW k \in (-MidSpace) .. 2 * MidSpace - 1
  PROVE  k % MidSpace = IF k < 0 THEN k + MidSpace
                        ELSE IF k < MidSpace THEN k ELSE k - MidSpace
  <1>1. MidSpace \in Nat \ {0}
    BY ObserveAssumption
  <1>2. CASE k < 0
    BY <1>1, <1>2
  <1>3. CASE k \in 0 .. MidSpace - 1
    BY <1>1, <1>3
  <1>4. CASE k \in MidSpace .. 2 * MidSpace - 1
    BY <1>1, <1>4
  <1> QED
    BY <1>1, <1>2, <1>3, <1>4

\* The IDs of the next n messages are apart from each other, from those a RST may
\* still come for, and from those Spare keeps; they are n behind the next ID at most.
LEMMA NewMids ==
  ASSUME nextMID \in Mids, NEW n \in Nat, Window + n < MidSpace, NEW i \in 0 .. n - 1
  PROVE  /\ Since(MidAfter(i), MidAfter(n)) \in 1 .. n
         /\ \A j \in 0 .. n - 1 : MidAfter(i) = MidAfter(j) => i = j
         /\ \A mid \in Mids :
              /\ Since(mid, nextMID) \in 1 .. Window => mid # MidAfter(i)
              /\ Since(nextMID, mid) >= n => mid # MidAfter(i)
  <1>1. MidSpace \in Nat \ {0} /\ n < MidSpace /\ Window \in Nat \ {0}
    BY ObserveAssumption
  <1>2. \A j \in 0 .. n : MidAfter(j) = IF nextMID + j < MidSpace THEN nextMID + j
                                        ELSE nextMID + j - MidSpace
    BY <1>1, Modulo DEF MidAfter, Mids
  <1>3. ASSUME NEW a \in Mids, NEW b \in Mids
        PROVE  Since(a, b) = IF a <= b THEN b - a ELSE b - a + MidSpace
    BY <1>1, Modulo DEF Since, Mids
  <1>4. MidAfter(i) \in Mids /\ MidAfter(n) \in Mids
    BY <1>1, <1>2 DEF Mids
  <1>5. Since(MidAfter(i), MidAfter(n)) \in 1 .. n
    <2>1. Since(MidAfter(i), MidAfter(n)) =
            IF MidAfter(i) <= MidAfter(n) THEN MidAfter(n) - MidAfter(i)
            ELSE MidAfter(n) - MidAfter(i) + MidSpace
      BY <1>3, <1>4
    <2>2. /\ MidAfter(i) = IF nextMID + i < MidSpace THEN nextMID + i ELSE nextMID + i - MidSpace
          /\ MidAfter(n) = IF nextMID + n < MidSpace THEN nextMID + n ELSE nextMID + n - MidSpace
      BY <1>2
    <2> QED
      BY <1>1, <2>1, <2>2 DEF Mids
  <1>6. \A j \in 0 .. n - 1 : MidAfter(i) = MidAfter(j) => i = j
    BY <1>1, <1>2 DEF Mids
  <1>7. ASSUME NEW mid \in Mids, Since(mid, nextMID) \in 1 .. Window
        PROVE  mid # MidAfter(i)
    <2>1. Since(mid, nextMID) = IF mid <= nextMID THEN nextMID - mid
                                ELSE nextMID - mid + MidSpace
      BY <1>3
    <2>2. MidAfter(i) = IF nextMID + i < MidSpace THEN nextMID + i ELSE nextMID + i - MidSpace
      BY <1>2
    <2> QED
      BY <1>1, <1>7, <2>1, <2>2 DEF Mids
  <1>8. ASSUME NEW mid \in Mids, Since(nextMID, mid) >= n
        PROVE  mid # MidAfter(i)
    BY <1>1, <1>2, <1>3, <1>8 DEF Mids
  <1> QED
    BY <1>5, <1>6, <1>7, <1>8

\* What is sent stays behind nextMID: by one at least, since so few new messages do
\* not reach the old ones from behind.
LEMMA RecentKept ==
  ASSUME TypeOK, Recent, NEW n \in Nat, Window + n < MidSpace, NEW new,
         Send(new, MidAfter(n)),
         \A m \in new : \E i \in 0 .. n - 1 : m.mid = MidAfter(i)
  PROVE  Recent'
  <1> SUFFICES ASSUME NEW m \in sent' PROVE Since(m.mid, MidAfter(n)) \in 1 .. Window
    BY DEF Recent, Send, Since
  <1>1. /\ MidSpace \in Nat \ {0} /\ n < MidSpace /\ Window \in Nat \ {0} /\ nextMID \in Mids
    BY ObserveAssumption DEF TypeOK
  <1>2. Since(m.mid, MidAfter(n)) <= Window /\ m \in sent \cup new
    BY DEF Send
  <1>3. CASE m \in new
    BY <1>1, <1>2, <1>3, NewMids
  <1>4. CASE m \in sent
    <2>1. m.mid \in Mids /\ Since(m.mid, nextMID) \in 1 .. Window
      BY <1>4 DEF TypeOK, Recent
    <2>2. /\ MidAfter(n) = IF nextMID + n < MidSpace THEN nextMID + n ELSE nextMID + n - MidSpace
      BY <1>1, Modulo DEF MidAfter, Mids
    <2>3. ASSUME NEW b \in Mids
          PROVE  Since(m.mid, b) = IF m.mid <= b THEN b - m.mid ELSE b - m.mid + MidSpace
      BY <1>1, <2>1, Modulo DEF Since, Mids
    <2>4. MidAfter(n) \in Mids
      BY <1>1, <2>2 DEF Mids
    <2> QED
      BY <1>1, <1>2, <2>1, <2>2, <2>3, <2>4 DEF Mids
  <1> QED
    BY <1>2, <1>3, <1>4

\* No more messages are notified at once than the window leaves message IDs.
LEMMA FewEnough ==
  ASSUME NEW ps \in SUBSET Pairs
  PROVE  Cardinality(ps) \in Nat /\ Window + Cardinality(ps) < MidSpace
  <1>1. IsFiniteSet(Pairs) /\ Cardinality(ps) <= Cardinality(Pairs)
    BY ObserveAssumption, FS_Product, FS_Subset DEF Pairs
  <1>2. Cardinality(ps) \in Nat /\ Cardinality(Pairs) \in Nat
    BY <1>1, PairsFinite
  <1> QED
    BY <1>1, <1>2, ObserveAssumption DEF Pairs

\* A round of notifications gives each watcher an ID no other message has.
LEMMA FireOwn ==
  ASSUME TypeOK, Recent, Own, NEW readable, Fire(readable)
  PROVE  /\ Recent' /\ Own'
         /\ \A p \in Pairs : ~Removed(p)
  <1> DEFINE ps == {p \in Watched : /\ p[1] \in readable
                                    /\ \E uri \in Fired : p[1] \in prv_getObservedList(uri)}
             n == Cardinality(ps)
             new(rank) == {[mid |-> MidAfter(rank[p]), uri |-> p[1], server |-> p[2],
                            token |-> watcher[p].token] : p \in ps}
  <1>1. ps \in SUBSET Watched /\ ps \in SUBSET Pairs
    BY DEF Watched
  <1>2. PICK rank \in [ps -> 0 .. n - 1] :
          /\ IsInjective(rank) /\ lwm2m_resource_value_changed(ps, rank)
    BY DEF Fire
  <1>3. Spare(n, ps)
    BY DEF Fire
  <1> HIDE DEF ps
  <1>4. n \in Nat /\ Window + n < MidSpace /\ nextMID \in Mids
    BY <1>1, FewEnough DEF TypeOK
  <1>5. /\ watcher' = [p \in Pairs |->
                         IF p \in ps THEN [watcher[p] EXCEPT !.lastMid = MidAfter(rank[p])]
                                     ELSE watcher[p]]
        /\ Send(new(rank), MidAfter(n))
    BY <1>2 DEF lwm2m_resource_value_changed
  <1>6. \A p, q \in ps : rank[p] = rank[q] => p = q
    BY <1>2 DEF IsInjective
  <1> HIDE DEF n
  <1>7. \A p \in ps : rank[p] \in 0 .. n - 1
    BY <1>2
  <1>8. Recent'
    <2>1. \A m \in new(rank) : \E i \in 0 .. n - 1 : m.mid = MidAfter(i)
      BY <1>7
    <2> HIDE DEF new
    <2> QED
      BY <1>4, <1>5, <2>1, RecentKept
  <1>9. ASSUME NEW p \in Pairs
        PROVE  /\ p \in ps => /\ p \in Watched /\ watcher'[p].lastMid = MidAfter(rank[p])
                              /\ watcher'[p] # None
               /\ p \notin ps => watcher'[p] = watcher[p]
    <2>1. p \in ps => watcher[p] \in [token : Tokens, lastMid : Mids]
      BY <1>1 DEF Watched, TypeOK
    <2>2. p \in ps => MidAfter(rank[p]) \in Mids
      BY <1>4, <1>7, MidsType DEF MidAfter
    <2>3. p \in ps => watcher'[p] \in [token : Tokens, lastMid : Mids]
      BY <1>5, <2>1, <2>2
    <2>4. p \in ps => watcher'[p] # None
      BY <2>3, ObserveAssumption DEF Tokens, Mids
    <2> QED
      BY <1>1, <1>5, <2>1, <2>4
  <1>10. Own'
    <2> SUFFICES ASSUME NEW m \in sent', NEW p \in Pairs, watcher'[p] # None,
                        m.mid = watcher'[p].lastMid, m.mid # 0
                 PROVE  <<m.uri, m.server>> = p
      BY DEF Own, Watched
    <2>1. m \in sent \/ m \in new(rank)
      BY <1>5 DEF Send
    <2>2. CASE m \in sent /\ p \in ps
      <3>1. m.mid \in Mids /\ Since(m.mid, nextMID) \in 1 .. Window
        BY <2>2 DEF TypeOK, Recent
      <3> QED
        BY <1>4, <1>7, <1>9, <2>2, <3>1, NewMids
    <2>3. CASE m \in sent /\ p \notin ps
      BY <1>9, <2>3 DEF Own, Watched
    <2>4. CASE m \in new(rank) /\ p \in ps
      <3>1. PICK q \in ps : /\ m.mid = MidAfter(rank[q])
                            /\ m.uri = q[1] /\ m.server = q[2]
        BY <2>4
      <3>2. rank[p] = rank[q]
        <4>1. MidAfter(rank[p]) = MidAfter(rank[q])
          BY <1>9, <2>4, <3>1
        <4>2. rank[p] \in 0 .. n - 1 /\ rank[q] \in 0 .. n - 1
          BY <1>7, <2>4
        <4> QED
          BY <1>4, <4>1, <4>2, NewMids
      <3>3. p = q
        BY <1>6, <2>4, <3>1, <3>2
      <3> QED
        BY <3>1, <3>3 DEF Pairs
    <2>5. CASE m \in new(rank) /\ p \notin ps
      <3>1. PICK q \in ps : m.mid = MidAfter(rank[q])
        BY <2>5
      <3>2. watcher[p] \in [token : Tokens, lastMid : Mids] /\ p \in Watched \ ps
        BY <1>9, <2>5 DEF Watched, TypeOK
      <3>3. watcher[p].lastMid = m.mid /\ watcher[p].lastMid \in Mids
        BY <1>9, <2>5, <3>2
      <3>4. Since(nextMID, watcher[p].lastMid) >= n
        BY <1>3, <3>2, <3>3 DEF Spare
      <3> QED
        BY <1>4, <1>7, <3>1, <3>3, <3>4, NewMids
    <2> QED
      BY <2>1, <2>2, <2>3, <2>4, <2>5
  <1> QED
    BY <1>8, <1>9, <1>10 DEF Removed

\* Any other message has an ID that is no watcher's.
LEMMA OtherOwn ==
  ASSUME TypeOK, Recent, Own, Pairs # {}, NEW s \in Servers, OtherMessage(s)
  PROVE  Recent' /\ Own'
  <1> DEFINE new == {[mid |-> nextMID, uri |-> None, server |-> s, token |-> None]}
  <1>1. Spare(1, {}) /\ Send(new, MidAfter(1)) /\ watcher' = watcher
    BY DEF OtherMessage
  <1>2. Window + 1 < MidSpace /\ nextMID \in Mids
    <2>1. Cardinality(Pairs) \in Nat /\ Cardinality(Pairs) # 0
      BY ObserveAssumption, FS_Product, FS_EmptySet, PairsFinite DEF Pairs
    <2>2. /\ Window + Cardinality(Pairs) < MidSpace
          /\ Window \in Nat /\ MidSpace \in Nat
      BY ObserveAssumption DEF Pairs
    <2>3. Window + 1 < MidSpace
      BY <2>1, <2>2
    <2> QED
      BY <2>3 DEF TypeOK
  <1>3. MidAfter(0) = nextMID
    BY <1>2, ObserveAssumption, Modulo DEF MidAfter, Mids
  <1>4. Recent'
    <2>1. \A m \in new : \E i \in 0 .. 1 - 1 : m.mid = MidAfter(i)
      BY <1>3
    <2> HIDE DEF new
    <2> QED
      BY <1>1, <1>2, <2>1, RecentKept
  <1>5. Own'
    <2> SUFFICES ASSUME NEW m \in sent', NEW p \in Watched,
                        m.mid = watcher[p].lastMid, m.mid # 0
                 PROVE  <<m.uri, m.server>> = p
      BY <1>1 DEF Own, Watched
    <2>1. CASE m \in sent
      BY <2>1 DEF Own
    <2>2. CASE m \in new
      <3>1. watcher[p].lastMid \in Mids /\ Since(nextMID, watcher[p].lastMid) >= 1
        BY <1>1 DEF Spare, Watched, TypeOK
      <3>2. m.mid = MidAfter(0)
        BY <1>3, <2>2
      <3> QED
        BY <1>2, <3>1, <3>2, NewMids
    <2> QED
      BY <1>1, <2>1, <2>2 DEF Send
  <1> QED
    BY <1>4, <1>5

\* A request gives its watcher a token, or makes one that was never notified.
LEMMA GetObserveOwn ==
  ASSUME TypeOK, Own, NEW p \in Pairs, NEW token \in Tokens, GetObserve(p[1], p[2], token)
  PROVE  Own' /\ \A q \in Pairs : ~Removed(q)
  <1> DEFINE r == <<p[1], p[2]>>
  <1>1. r = p /\ sent' = sent
    BY DEF Pairs, GetObserve
  <1>2. \/ watcher' = watcher
        \/ watcher' = [watcher EXCEPT ![r] = IF @ = None THEN [token |-> token, lastMid |-> 0]
                                             ELSE [@ EXCEPT !.token = token]]
    BY DEF GetObserve, handle_observe_request
  <1>3. ASSUME NEW q \in Pairs, watcher'[q] # None
        PROVE  \/ watcher[q] # None /\ watcher'[q].lastMid = watcher[q].lastMid
               \/ watcher'[q].lastMid = 0
    BY <1>1, <1>2, <1>3 DEF TypeOK
  <1>4. ASSUME NEW q \in Pairs, watcher[q] # None PROVE watcher'[q] # None
    <2>1. watcher[q] \in [token : Tokens, lastMid : Mids]
      BY <1>4 DEF TypeOK
    <2>2. watcher'[q] \in [token : Tokens, lastMid : Mids]
      BY <1>1, <1>2, <1>4, <2>1 DEF TypeOK
    <2> QED
      BY <2>2, ObserveAssumption DEF Tokens, Mids
  <1> QED
    BY <1>1, <1>3, <1>4 DEF Own, Watched, Removed

\* A reset takes away the watcher whose last notification the message is.
LEMMA ResetOwn ==
  ASSUME TypeOK, Own, NEW m \in sent, Reset(m)
  PROVE  /\ Own' /\ sent' \subseteq sent
         /\ \A p \in Pairs : Removed(p) => <<m.uri, m.server>> = p \/ m.mid = 0
  <1>1. sent' = sent \ {m}
    BY DEF Reset
  <1>2. \/ watcher' = watcher
        \/ \E p \in Watched : watcher[p].lastMid = m.mid /\ watcher' = [watcher EXCEPT ![p] = None]
    BY DEF Reset, cancel_observe, Matches
  <1>3. \A q \in Pairs : watcher'[q] # None => watcher[q] # None /\ watcher'[q] = watcher[q]
    BY <1>2 DEF TypeOK, Watched
  <1>4. ASSUME NEW p \in Pairs, Removed(p)
        PROVE  watcher[p] # None /\ watcher[p].lastMid = m.mid
    BY <1>2, <1>4 DEF TypeOK, Watched, Removed
  <1> QED
    BY <1>1, <1>3, <1>4 DEF Own, Watched

\* Every step keeps the message IDs apart, and a watcher it takes away is that of the
\* message that was reset.
LEMMA NextOwn ==
  ASSUME Pairs # {}, TypeOK, Recent, Own, [Next]_vars
  PROVE  /\ Recent' /\ Own'
         /\ \A p \in Pairs : Removed(p) =>
              \E m \in sent \ sent' : <<m.uri, m.server>> = p \/ m.mid = 0
  <1>1. CASE \E p \in Pairs, token \in Tokens : GetObserve(p[1], p[2], token)
    <2>1. UNCHANGED <<sent, nextMID>>
      BY <1>1 DEF GetObserve
    <2> QED
      BY <1>1, <2>1, GetObserveOwn DEF Recent, Since
  <1>2. CASE \E unreadable \in (IF "read" \in Failing THEN SUBSET Uris ELSE {{}}) :
               Fire(Uris \ unreadable)
    BY <1>2, FireOwn
  <1>3. CASE \E s \in Servers : OtherMessage(s)
    <2>1. UNCHANGED watcher
      BY <1>3 DEF OtherMessage
    <2> QED
      BY <1>3, <2>1, OtherOwn DEF Removed
  <1>4. CASE \E m \in sent : Reset(m)
    <2>1. PICK m \in sent : Reset(m)
      BY <1>4
    <2>2. UNCHANGED nextMID /\ sent' = sent \ {m}
      BY <2>1 DEF Reset
    <2> QED
      BY <2>1, <2>2, ResetOwn DEF Recent, Since
  <1>5. CASE UNCHANGED <<watcher, sent, nextMID>>
    BY <1>5 DEF Recent, Own, Watched, Removed, Since
  <1>6. CASE \E p \in Pairs : Ask(p[1], p[2]) \/ Forget(p[1], p[2])
    BY <1>5, <1>6 DEF Ask, Forget, client
  <1>7. CASE UNCHANGED vars
    BY <1>5, <1>7 DEF vars, client
  <1> QED
    BY <1>1, <1>2, <1>3, <1>4, <1>6, <1>7 DEF Next

\* Whatever fails and however messages are delayed within the window, a RST cancels
\* no observation but the one whose notification it is for, ID 0 excepted: 16 bits
\* and a comparison of IDs are enough as long as no lastMid survives a full turn.
THEOREM ResetOnlyItsOwn == Spec => ResetCancelsItsOwn
  <1>1. CASE Pairs = {}
    <2>1. [Next]_vars => [\A p \in Pairs : Removed(p) =>
             \E m \in sent \ sent' : <<m.uri, m.server>> = p \/ m.mid = 0]_vars
      BY <1>1
    <2> QED
      BY <2>1, PTL DEF Spec, ResetCancelsItsOwn
  <1>2. CASE Pairs # {}
    <2>1. Init => TypeOK /\ Recent /\ Own
      BY InitType DEF Init, Recent, Own
    <2>2. TypeOK /\ Recent /\ Own /\ [Next]_vars => (TypeOK /\ Recent /\ Own)'
      BY <1>2, NextType, NextOwn
    <2>3. TypeOK /\ Recent /\ Own /\ [Next]_vars =>
            [\A p \in Pairs : Removed(p) =>
               \E m \in sent \ sent' : <<m.uri, m.server>> = p \/ m.mid = 0]_vars
      BY <1>2, NextOwn
    <2> QED
      BY <2>1, <2>2, <2>3, PTL DEF Spec, ResetCancelsItsOwn
  <1> QED
    BY <1>1, <1>2
=============================================================================
