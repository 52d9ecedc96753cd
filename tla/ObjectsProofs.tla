------------------------------ MODULE ObjectsProofs ------------------------------
(***************************************************************************)
(* Proofs about Objects, for any instances, any number of them and writes  *)
(* of any length: the types and the order of the instance list, what a     *)
(* creation and a refused write leave behind, and what a request handled   *)
(* twice does.  Then what comes of the payloads of such requests: records  *)
(* (TlvRecord, Tlv) and numbers as text (PlainText, Text).                 *)
(*                                                                         *)
(* The searches of list.c and the loop over the resources of a write are   *)
(* minima and recursive functions; that they are what they should be rests *)
(* on Smallest, the least element of a set of numbers, which follows from  *)
(* the strict inclusion of finite sets being well-founded.                 *)
(***************************************************************************)
EXTENDS Payloads, FiniteSetTheorems, SequenceTheorems, TLAPS

-----------------------------------------------------------------------------
(* Numbers and recursion. *)

\* A set of numbers has a least one.
LEMMA Smallest ==
  ASSUME NEW T, T \subseteq Nat, T # {}
  PROVE  \E x \in T : \A y \in T : x <= y
<1> DEFINE Below(n) == 1 .. n
           U == {Below(n) : n \in T}
<1>1. U \subseteq FiniteSubsetsOf(Nat)
  <2> SUFFICES ASSUME NEW n \in T PROVE Below(n) \in FiniteSubsetsOf(Nat)
    OBVIOUS
  <2>1. IsFiniteSet(1 .. n)
    BY FS_Interval
  <2>2. QED BY <2>1 DEF FiniteSubsetsOf
<1>2. PICK X \in U : \A Y \in U : <<Y, X>> \notin StrictSubsetOrdering(Nat)
  <2>1. U # {}
    OBVIOUS
  <2>2. IsWellFoundedOn(StrictSubsetOrdering(Nat), FiniteSubsetsOf(Nat))
    BY FS_StrictSubsetOrderingWellFounded
  <2> HIDE DEF U
  <2>3. QED BY <1>1, <2>1, <2>2, WFMin
<1>3. PICK x \in T : X = 1 .. x
  BY <1>2
<1>4. ASSUME NEW y \in T, y < x
      PROVE  FALSE
  <2>1. <<1 .. y, 1 .. x>> \notin StrictSubsetOrdering(Nat)
    BY <1>2, <1>3
  <2>2. 1 .. y \subseteq 1 .. x /\ x \in 1 .. x /\ x \notin 1 .. y
    BY <1>4
  <2>3. 1 .. y # 1 .. x /\ 1 .. x \in SUBSET Nat /\ 1 .. y \in SUBSET Nat
    BY <2>2
  <2>4. QED BY <2>1, <2>2, <2>3 DEF StrictSubsetOrdering
<1>5. QED BY <1>4

\* Min, of FiniteSetsExt, is that element.
LEMMA MinOK ==
  ASSUME NEW T, T \subseteq Nat, T # {}
  PROVE  Min(T) \in T /\ \A y \in T : Min(T) <= y
BY Smallest DEF Min

\* Induction up to N, on a set instead of a predicate.
LEMMA Upwards ==
  ASSUME NEW N \in Nat, NEW S, 0 \in S, \A n \in S : n \in Nat /\ n < N => n + 1 \in S
  PROVE  \A n \in 0 .. N : n \in S
<1> DEFINE T == {n \in 0 .. N : n \notin S}
<1> SUFFICES ASSUME T # {} PROVE FALSE
  OBVIOUS
<1>1. PICK x \in T : \A y \in T : x <= y
  <2>1. T \subseteq Nat
    OBVIOUS
  <2> HIDE DEF T
  <2>2. QED BY <2>1, Smallest
<1>2. x \in 0 .. N /\ x # 0 /\ x - 1 \notin T /\ x \notin S
  BY <1>1
<1>3. x - 1 \in S /\ x - 1 \in Nat /\ x - 1 < N /\ (x - 1) + 1 = x
  BY <1>2
<1>4. QED BY <1>2, <1>3

Rounds(N, S) == [1 .. N -> [S -> S]]

\* f is the course of a loop of N rounds, round n of which takes a state to step[n] of it.
Runs(f, N, S, start, step) ==
  f \in [0 .. N -> S] /\ f[0] = start /\ \A n \in 1 .. N : f[n] = step[n][f[n - 1]]

\* Such a loop has a course.
LEMMA Course ==
  ASSUME NEW N, NEW S, NEW start, NEW step, N \in Nat, start \in S, step \in Rounds(N, S)
  PROVE  \E f : Runs(f, N, S, start, step)
<1> USE DEF Rounds
<1> DEFINE Goes(m, f) == f[0] = start /\ \A n \in 1 .. m : f[n] = step[n][f[n - 1]]
           Far == {m \in 0 .. N : \E f \in [0 .. m -> S] : Goes(m, f)}
<1>1. 0 \in Far
  <2> DEFINE g == [n \in 0 .. 0 |-> start]
  <2>1. g \in [0 .. 0 -> S] /\ Goes(0, g)
    OBVIOUS
  <2> HIDE DEF g, Goes
  <2>2. QED BY <2>1
<1>2. ASSUME NEW m \in Far, m < N
      PROVE  m + 1 \in Far
  <2>1. PICK f \in [0 .. m -> S] : Goes(m, f)
    OBVIOUS
  <2> DEFINE g == [n \in 0 .. m + 1 |-> IF n <= m THEN f[n] ELSE step[m + 1][f[m]]]
  <2>2. m \in 0 .. N /\ m + 1 \in 1 .. N /\ m \in 0 .. m
    BY <1>2
  <2>3. step[m + 1][f[m]] \in S
    BY <2>1, <2>2
  <2>4. g \in [0 .. m + 1 -> S]
    BY <2>1, <2>2, <2>3
  <2>5. g[0] = start
    BY <2>1, <2>2
  <2>6. ASSUME NEW n \in 1 .. m + 1
        PROVE  g[n] = step[n][g[n - 1]]
    <3>1. CASE n <= m
      BY <2>1, <2>2, <3>1
    <3>2. CASE n = m + 1
      BY <2>1, <2>2, <3>2
    <3>3. QED BY <2>2, <3>1, <3>2
  <2>7. Goes(m + 1, g)
    BY <2>5, <2>6
  <2> HIDE DEF g, Goes
  <2>8. QED BY <2>2, <2>4, <2>7
<1>3. \A n \in 0 .. N : n \in Far
  <2> HIDE DEF Far
  <2>1. QED BY <1>1, <1>2, Upwards
<1>4. QED BY <1>3 DEF Runs

-----------------------------------------------------------------------------
(* list.c. *)

Sorted(list) == \A i, j \in DOMAIN list : i < j => list[i].id < list[j].id

\* more is list with node in position k.
Inserted(more, list, k, node) ==
  /\ k \in 1 .. Len(list) + 1
  /\ Len(more) = Len(list) + 1
  /\ more[k] = node
  /\ \A j \in 1 .. k - 1 : more[j] = list[j]
  /\ \A j \in k .. Len(list) : more[j + 1] = list[j]

\* An instance on a list, and its ID.
LEMMA InstanceId ==
  ASSUME NEW list \in Seq(Instance), NEW i \in DOMAIN list
  PROVE  list[i] \in Instance /\ list[i].id \in Nat
<1>1. list[i] \in Instance
  OBVIOUS
<1>2. QED BY <1>1 DEF Instance

\* The walk stops where the IDs are no longer less.
LEMMA StopOK ==
  ASSUME NEW list \in Seq(Instance), NEW i \in 1 .. Len(list) + 1, NEW id \in Nat
  PROVE  /\ Stop(list, i, id) \in i .. Len(list) + 1
         /\ Stop(list, i, id) <= Len(list) => list[Stop(list, i, id)].id >= id
         /\ \A j \in i .. Stop(list, i, id) - 1 : list[j].id < id
<1> DEFINE T == {j \in i .. Len(list) : list[j].id >= id} \cup {Len(list) + 1}
<1>1. T \subseteq Nat /\ T # {}
  OBVIOUS
<1>2. Stop(list, i, id) = Min(T)
  BY DEF Stop
<1>3. Min(T) \in T /\ \A y \in T : Min(T) <= y
  <2> HIDE DEF T
  <2>1. QED BY <1>1, MinOK
<1>4. Min(T) \in i .. Len(list) + 1 /\ (Min(T) <= Len(list) => list[Min(T)].id >= id)
  BY <1>3
<1>5. ASSUME NEW j \in i .. Min(T) - 1
      PROVE  list[j].id < id
  <2>1. j \in i .. Len(list) /\ j < Min(T)
    BY <1>4
  <2>2. ~(list[j].id >= id)
    BY <1>3, <2>1
  <2>3. QED BY <2>1, <2>2, InstanceId
<1>6. QED BY <1>2, <1>4, <1>5

\* In a sorted list the search finds what is there.
LEMMA FindOK ==
  ASSUME NEW list \in Seq(Instance), Sorted(list), NEW id \in Nat
  PROVE  /\ lwm2m_list_find(list, id) \in 0 .. Len(list)
         /\ lwm2m_list_find(list, id) # 0 => list[lwm2m_list_find(list, id)].id = id
         /\ \A j \in DOMAIN list : list[j].id = id => lwm2m_list_find(list, id) = j
<1> DEFINE k == Stop(list, 1, id)
<1>1. /\ k \in 1 .. Len(list) + 1
      /\ k <= Len(list) => list[k].id >= id
      /\ \A j \in 1 .. k - 1 : list[j].id < id
  <2>1. 1 \in 1 .. Len(list) + 1
    OBVIOUS
  <2>2. QED BY <2>1, StopOK
<1>2. lwm2m_list_find(list, id) = IF k <= Len(list) /\ list[k].id = id THEN k ELSE 0
  BY DEF lwm2m_list_find
<1> HIDE DEF k
<1>3. ASSUME NEW j \in DOMAIN list, list[j].id = id
      PROVE  k = j
  <2>1. j \in 1 .. Len(list)
    OBVIOUS
  <2>2. ~(j <= k - 1)
    BY <1>1, <1>3, <2>1
  <2>3. k <= Len(list) /\ k \in DOMAIN list
    BY <1>1, <2>1, <2>2
  <2>4. ~(k < j)
    BY <1>1, <1>3, <2>3, InstanceId DEF Sorted
  <2>5. QED BY <1>1, <2>1, <2>2, <2>4
<1>4. QED BY <1>1, <1>2, <1>3

\* InsertAt, of SequencesExt, inserts.
LEMMA InsertAtOK ==
  ASSUME NEW list \in Seq(Instance), NEW k \in 1 .. Len(list) + 1, NEW node \in Instance
  PROVE  InsertAt(list, k, node) \in Seq(Instance) /\ Inserted(InsertAt(list, k, node), list, k, node)
<1> DEFINE a == SubSeq(list, 1, k - 1)
           b == SubSeq(list, k, Len(list))
           c == a \o <<node>>
<1>1. /\ a \in Seq(Instance) /\ Len(a) = k - 1
      /\ \A i \in 1 .. k - 1 : a[i] = list[i]
  OBVIOUS
<1>2. /\ b \in Seq(Instance) /\ Len(b) = Len(list) + 1 - k
      /\ \A i \in 1 .. Len(list) + 1 - k : b[i] = list[k + i - 1]
  OBVIOUS
<1>3. InsertAt(list, k, node) = c \o b
  BY DEF InsertAt
<1> HIDE DEF a, b
<1>4. <<node>> \in Seq(Instance) /\ Len(<<node>>) = 1 /\ <<node>>[1] = node
  OBVIOUS
<1>5. /\ c \in Seq(Instance) /\ Len(c) = k
      /\ \A i \in 1 .. k - 1 : c[i] = list[i]
      /\ c[k] = node
  BY <1>1, <1>4
<1> HIDE DEF c
<1>6. /\ c \o b \in Seq(Instance) /\ Len(c \o b) = Len(list) + 1
      /\ \A i \in 1 .. k : (c \o b)[i] = c[i]
      /\ \A i \in 1 .. Len(list) + 1 - k : (c \o b)[k + i] = b[i]
  BY <1>2, <1>5
<1>7. ASSUME NEW j \in k .. Len(list)
      PROVE  (c \o b)[j + 1] = list[j]
  <2>1. j + 1 - k \in 1 .. Len(list) + 1 - k /\ k + (j + 1 - k) = j + 1 /\ k + (j + 1 - k) - 1 = j
    OBVIOUS
  <2>2. QED BY <1>2, <1>6, <2>1, SMTT(30)
<1>8. QED BY <1>3, <1>5, <1>6, <1>7 DEF Inserted

\* RemoveAt undoes an insertion.
LEMMA RemoveAtOK ==
  ASSUME NEW list \in Seq(Instance), NEW k \in 1 .. Len(list)
  PROVE  RemoveAt(list, k) \in Seq(Instance) /\ Inserted(list, RemoveAt(list, k), k, list[k])
<1> DEFINE a == SubSeq(list, 1, k - 1)
           b == SubSeq(list, k + 1, Len(list))
<1>1. /\ a \in Seq(Instance) /\ Len(a) = k - 1
      /\ \A i \in 1 .. k - 1 : a[i] = list[i]
  OBVIOUS
<1>2. /\ b \in Seq(Instance) /\ Len(b) = Len(list) - k
      /\ \A i \in 1 .. Len(list) - k : b[i] = list[k + i]
  OBVIOUS
<1>3. RemoveAt(list, k) = a \o b
  BY DEF RemoveAt
<1> HIDE DEF a, b
<1>4. /\ a \o b \in Seq(Instance) /\ Len(a \o b) = Len(list) - 1
      /\ \A i \in 1 .. Len(list) - 1 : (a \o b)[i] = IF i <= k - 1 THEN a[i] ELSE b[i - (k - 1)]
  <2>1. /\ a \o b \in Seq(Instance) /\ Len(a \o b) = Len(a) + Len(b)
        /\ \A i \in 1 .. Len(a) + Len(b) :
             (a \o b)[i] = IF i <= Len(a) THEN a[i] ELSE b[i - Len(a)]
    BY <1>1, <1>2, ConcatProperties
  <2>2. QED BY <1>1, <1>2, <2>1
<1> DEFINE c == a \o b
<1> HIDE DEF c
<1>5. ASSUME NEW j \in k .. Len(list) - 1
      PROVE  list[j + 1] = c[j]
  <2>1. c[j] = b[j - (k - 1)]
    BY <1>4 DEF c
  <2>2. j - (k - 1) \in 1 .. Len(list) - k /\ k + (j - (k - 1)) = j + 1
    OBVIOUS
  <2>3. QED BY <1>2, <2>1, <2>2
<1>6. \A j \in 1 .. k - 1 : c[j] = list[j]
  BY <1>1, <1>4 DEF c
<1>7. c \in Seq(Instance) /\ Len(c) = Len(list) - 1
  BY <1>4 DEF c
<1>8. RemoveAt(list, k) = c
  BY <1>3 DEF c
<1>9. Inserted(list, c, k, list[k])
  BY <1>5, <1>6, <1>7 DEF Inserted
<1>10. QED BY <1>7, <1>8, <1>9

\* Sorted lists differ by a node in the middle of those before and those behind it.
LEMMA InsertedSorted ==
  ASSUME NEW list \in Seq(Instance), NEW more \in Seq(Instance), NEW k, NEW node \in Instance,
         Inserted(more, list, k, node), Sorted(list),
         \A j \in 1 .. k - 1 : list[j].id < node.id,
         \A j \in k .. Len(list) : list[j].id > node.id
  PROVE  Sorted(more)
<1> SUFFICES ASSUME NEW i \in DOMAIN more, NEW j \in DOMAIN more, i < j
             PROVE  more[i].id < more[j].id
  BY DEF Sorted
<1>1. /\ k \in 1 .. Len(list) + 1 /\ i \in 1 .. Len(list) + 1 /\ j \in 1 .. Len(list) + 1
      /\ Len(list) \in Nat
  BY DEF Inserted
<1>2. \A n \in 1 .. Len(list) + 1 :
        /\ n < k => n \in DOMAIN list /\ more[n] = list[n]
        /\ n > k => n - 1 \in DOMAIN list /\ n - 1 \in k .. Len(list) /\ more[n] = list[n - 1]
  <2> SUFFICES ASSUME NEW n \in 1 .. Len(list) + 1
               PROVE  /\ n < k => n \in DOMAIN list /\ more[n] = list[n]
                      /\ n > k => n - 1 \in DOMAIN list /\ n - 1 \in k .. Len(list) /\ more[n] = list[n - 1]
    OBVIOUS
  <2>1. n < k => n \in DOMAIN list /\ more[n] = list[n]
    BY <1>1 DEF Inserted
  <2>2. n > k => n - 1 \in k .. Len(list) /\ (n - 1) + 1 = n
    BY <1>1
  <2>3. n > k => more[n] = list[n - 1]
    BY <2>2 DEF Inserted
  <2>4. QED BY <1>1, <2>1, <2>2, <2>3
<1>3. more[k] = node
  BY DEF Inserted
<1>4. CASE i < k /\ j < k
  BY <1>1, <1>2, <1>4 DEF Sorted
<1>5. CASE i < k /\ j > k
  <2>1. /\ i \in DOMAIN list /\ j - 1 \in DOMAIN list /\ i < j - 1
        /\ more[i] = list[i] /\ more[j] = list[j - 1]
    BY <1>1, <1>2, <1>5
  <2>2. QED BY <2>1 DEF Sorted
<1>6. CASE i > k /\ j > k
  <2>1. /\ i - 1 \in DOMAIN list /\ j - 1 \in DOMAIN list /\ i - 1 < j - 1
        /\ more[i] = list[i - 1] /\ more[j] = list[j - 1]
    BY <1>1, <1>2, <1>6
  <2>2. QED BY <2>1 DEF Sorted
<1>7. CASE i = k \/ j = k
  <2>1. CASE i = k
    <3>1. j - 1 \in k .. Len(list) /\ more[j] = list[j - 1]
      BY <1>1, <1>2, <2>1
    <3>2. list[j - 1].id > node.id /\ list[j - 1].id \in Nat
      BY <1>1, <1>2, <2>1, <3>1, InstanceId
    <3>3. node.id \in Nat
      BY DEF Instance
    <3>4. QED BY <1>3, <2>1, <3>1, <3>2, <3>3
  <2>2. CASE j = k
    BY <1>1, <1>2, <1>3, <2>2
  <2>3. QED BY <1>7, <2>1, <2>2
<1>8. QED BY <1>1, <1>4, <1>5, <1>6, <1>7

\* What is left of a sorted list is sorted.
LEMMA RemovedSorted ==
  ASSUME NEW list \in Seq(Instance), NEW more \in Seq(Instance), NEW k, NEW node,
         Inserted(more, list, k, node), Sorted(more)
  PROVE  Sorted(list)
<1> SUFFICES ASSUME NEW i \in DOMAIN list, NEW j \in DOMAIN list, i < j
             PROVE  list[i].id < list[j].id
  BY DEF Sorted
<1> DEFINE At(n) == IF n < k THEN n ELSE n + 1
<1>1. \A n \in DOMAIN list : At(n) \in DOMAIN more /\ more[At(n)] = list[n]
  <2> SUFFICES ASSUME NEW n \in DOMAIN list
               PROVE  At(n) \in DOMAIN more /\ more[At(n)] = list[n]
    OBVIOUS
  <2>1. k \in 1 .. Len(list) + 1 /\ Len(more) = Len(list) + 1 /\ n \in 1 .. Len(list)
    BY DEF Inserted
  <2>2. CASE n < k
    BY <2>1, <2>2 DEF Inserted
  <2>3. CASE ~(n < k)
    BY <2>1, <2>3 DEF Inserted
  <2>4. QED BY <2>2, <2>3
<1>2. At(i) < At(j)
  BY DEF Inserted
<1> HIDE DEF At
<1>3. QED BY <1>1, <1>2 DEF Sorted

\* lwm2m_list_add puts a node with a new ID in its place.
LEMMA AddOK ==
  ASSUME NEW list \in Seq(Instance), Sorted(list), NEW node \in Instance,
         \A j \in DOMAIN list : list[j].id # node.id
  PROVE  /\ lwm2m_list_add(list, node) \in Seq(Instance)
         /\ Sorted(lwm2m_list_add(list, node))
         /\ \E k \in Nat : Inserted(lwm2m_list_add(list, node), list, k, node)
<1> DEFINE r == lwm2m_list_add(list, node)
<1>1. node.id \in Nat
  BY DEF Instance
<1>2. SUFFICES ASSUME NEW k \in 1 .. Len(list) + 1,
                      r \in Seq(Instance), Inserted(r, list, k, node),
                      \A j \in 1 .. k - 1 : list[j].id < node.id,
                      k <= Len(list) => list[k].id > node.id
               PROVE  r \in Seq(Instance) /\ Sorted(r) /\ \E n \in Nat : Inserted(r, list, n, node)
  <2>1. CASE list = <<>> \/ list[1].id > node.id
    <3>1. r = <<node>> \o list
      BY <2>1 DEF lwm2m_list_add
    <3>2. /\ <<node>> \o list \in Seq(Instance) /\ Inserted(<<node>> \o list, list, 1, node)
      <4>1. <<node>> \in Seq(Instance) /\ Len(<<node>>) = 1 /\ <<node>>[1] = node
        OBVIOUS
      <4> DEFINE n == <<node>>
      <4> HIDE DEF n
      <4>2. n \in Seq(Instance) /\ Len(n) = 1 /\ n[1] = node
        BY <4>1 DEF n
      <4>3. n \o list \in Seq(Instance) /\ Inserted(n \o list, list, 1, node)
        <5> DEFINE c == n \o list
        <5>1. /\ c \in Seq(Instance) /\ Len(c) = Len(list) + 1
              /\ \A i \in 1 .. Len(list) + 1 : c[i] = IF i <= 1 THEN n[i] ELSE list[i - 1]
          <6>1. /\ c \in Seq(Instance) /\ Len(c) = Len(n) + Len(list)
                /\ \A i \in 1 .. Len(n) + Len(list) :
                     c[i] = IF i <= Len(n) THEN n[i] ELSE list[i - Len(n)]
            BY <4>2, ConcatProperties
          <6> HIDE DEF c
          <6>2. QED BY <4>2, <6>1
        <5> HIDE DEF c
        <5>2. c[1] = node /\ \A j \in 1 .. Len(list) : c[j + 1] = list[j]
          BY <4>2, <5>1
        <5>3. c \in Seq(Instance) /\ Inserted(c, list, 1, node)
          BY <5>1, <5>2 DEF Inserted
        <5>4. QED BY <5>3 DEF c
      <4>4. QED BY <4>3 DEF n
    <3>3. 1 \in 1 .. Len(list) + 1 /\ \A j \in 1 .. 1 - 1 : list[j].id < node.id
      OBVIOUS
    <3>4. 1 <= Len(list) => list[1].id > node.id
      BY <2>1
    <3>5. QED BY <1>2, <3>1, <3>2, <3>3, <3>4
  <2>2. CASE ~(list = <<>> \/ list[1].id > node.id)
    <3> DEFINE k == Stop(list, 2, node.id)
    <3>1. r = InsertAt(list, k, node)
      BY <2>2 DEF lwm2m_list_add
    <3>2. 2 \in 1 .. Len(list) + 1 /\ 1 \in DOMAIN list /\ list[1].id < node.id
      <4>1. Len(list) >= 1
        BY <2>2
      <4>2. QED BY <1>1, <2>2, <4>1, InstanceId
    <3>3. /\ k \in 2 .. Len(list) + 1
          /\ k <= Len(list) => list[k].id >= node.id
          /\ \A j \in 2 .. k - 1 : list[j].id < node.id
      BY <1>1, <3>2, StopOK
    <3> HIDE DEF k
    <3>4. k \in 1 .. Len(list) + 1
      BY <3>3
    <3>5. k <= Len(list) => list[k].id > node.id
      <4>1. k <= Len(list) => k \in DOMAIN list
        BY <3>4
      <4>2. QED BY <1>1, <3>3, <4>1, InstanceId
    <3>6. \A j \in 1 .. k - 1 : list[j].id < node.id
      BY <3>2, <3>3
    <3>7. r \in Seq(Instance) /\ Inserted(r, list, k, node)
      BY <3>1, <3>4, InsertAtOK
    <3>8. QED BY <1>2, <3>4, <3>5, <3>6, <3>7
  <2>3. QED BY <2>1, <2>2
<1>3. \A j \in k .. Len(list) : list[j].id > node.id
  <2> SUFFICES ASSUME NEW j \in k .. Len(list) PROVE list[j].id > node.id
    OBVIOUS
  <2>1. k \in DOMAIN list /\ j \in DOMAIN list /\ list[k].id > node.id
    BY <1>2
  <2>2. j = k \/ list[k].id < list[j].id
    BY <2>1 DEF Sorted
  <2>3. list[k].id \in Nat /\ list[j].id \in Nat
    BY <2>1, InstanceId
  <2>4. QED BY <1>1, <2>1, <2>2, <2>3
<1> HIDE DEF r
<1>4. QED BY <1>2, <1>3, InsertedSorted

\* lwm2m_list_remove takes out the node that the search finds.
LEMMA RemoveOK ==
  ASSUME NEW list \in Seq(Instance), Sorted(list), NEW id \in Nat
  PROVE  /\ \A j \in DOMAIN list : list[j].id = id =>
              /\ lwm2m_list_remove(list, id) \in Seq(Instance)
              /\ Inserted(list, lwm2m_list_remove(list, id), j, list[j])
         /\ (\A j \in DOMAIN list : list[j].id # id) => lwm2m_list_remove(list, id) = list
<1>1. ASSUME \A j \in DOMAIN list : list[j].id # id
      PROVE  lwm2m_list_remove(list, id) = list
  <2>1. list # <<>> => 1 \in DOMAIN list /\ list[1].id # id /\ 2 \in 1 .. Len(list) + 1
    BY <1>1
  <2>2. list # <<>> => Stop(list, 2, id) \in 2 .. Len(list) + 1
    BY <2>1, StopOK
  <2>3. list # <<>> => ~(Stop(list, 2, id) <= Len(list) /\ list[Stop(list, 2, id)].id = id)
    BY <1>1, <2>2
  <2>4. QED BY <2>1, <2>3 DEF lwm2m_list_remove
<1>2. ASSUME NEW j \in DOMAIN list, list[j].id = id
      PROVE  /\ lwm2m_list_remove(list, id) \in Seq(Instance)
             /\ Inserted(list, lwm2m_list_remove(list, id), j, list[j])
  <2>1. list # <<>> /\ j \in 1 .. Len(list) /\ 1 \in DOMAIN list
    OBVIOUS
  <2>2. CASE list[1].id = id
    <3>1. j = 1
      <4>1. ~(1 < j)
        BY <1>2, <2>1, <2>2, InstanceId DEF Sorted
      <4>2. QED BY <2>1, <4>1
    <3>2. lwm2m_list_remove(list, id) = Tail(list)
      BY <2>1, <2>2 DEF lwm2m_list_remove
    <3>3. Tail(list) \in Seq(Instance) /\ Inserted(list, Tail(list), 1, list[1])
      BY <2>1 DEF Inserted
    <3>4. QED BY <3>1, <3>2, <3>3
  <2>3. CASE list[1].id # id
    <3> DEFINE k == Stop(list, 2, id)
    <3>1. j \in 2 .. Len(list) /\ 2 \in 1 .. Len(list) + 1
      BY <1>2, <2>1, <2>3
    <3>2. /\ k \in 2 .. Len(list) + 1
          /\ k <= Len(list) => list[k].id >= id
          /\ \A i \in 2 .. k - 1 : list[i].id < id
      BY <3>1, StopOK
    <3>3. lwm2m_list_remove(list, id) =
            IF k <= Len(list) /\ list[k].id = id THEN RemoveAt(list, k) ELSE list
      BY <2>1, <2>3 DEF lwm2m_list_remove
    <3> HIDE DEF k
    <3>4. k <= j
      <4>1. ~(j \in 2 .. k - 1)
        BY <1>2, <3>2
      <4>2. QED BY <3>1, <3>2, <4>1
    <3>5. k \in DOMAIN list /\ k \in 1 .. Len(list) /\ list[k].id >= id
      BY <3>1, <3>2, <3>4
    <3>6. ~(k < j)
      BY <1>2, <3>5, InstanceId DEF Sorted
    <3>7. k = j
      BY <3>1, <3>2, <3>4, <3>6
    <3>8. QED BY <1>2, <3>3, <3>5, <3>7, RemoveAtOK
  <2>4. QED BY <2>2, <2>3
<1>3. QED BY <1>1, <1>2

\* lwm2m_list_newId finds an ID that is not on the list.
LEMMA NewIdOK ==
  ASSUME NEW list \in Seq(Instance), Sorted(list)
  PROVE  /\ lwm2m_list_newId(list) \in Nat
         /\ \A j \in DOMAIN list : list[j].id # lwm2m_list_newId(list)
<1> DEFINE T == {i \in 1 .. Len(list) : list[i].id # i - 1} \cup {Len(list) + 1}
           m == Min(T)
<1>1. T \subseteq Nat /\ T # {}
  OBVIOUS
<1>2. m \in T /\ \A y \in T : m <= y
  <2> HIDE DEF T
  <2>1. QED BY <1>1, MinOK
<1>3. lwm2m_list_newId(list) = m - 1
  BY DEF lwm2m_list_newId
<1>4. m \in 1 .. Len(list) + 1 /\ (m <= Len(list) => list[m].id # m - 1)
  BY <1>2
<1>5. \A j \in 1 .. m - 1 : list[j].id = j - 1
  <2> SUFFICES ASSUME NEW j \in 1 .. m - 1 PROVE list[j].id = j - 1
    OBVIOUS
  <2>1. j \in 1 .. Len(list) /\ j < m
    BY <1>4
  <2>2. j \notin T
    <3> HIDE DEF T
    <3>1. QED BY <1>2, <1>4, <2>1
  <2>3. QED BY <2>1, <2>2
<1> HIDE DEF m, T
<1>6. m <= Len(list) => list[m].id > m - 1
  <2> SUFFICES ASSUME m <= Len(list) PROVE list[m].id > m - 1
    OBVIOUS
  <2>1. m \in DOMAIN list /\ list[m].id \in Nat /\ list[m].id # m - 1
    BY <1>4, InstanceId
  <2>2. CASE m = 1
    BY <2>1, <2>2
  <2>3. CASE m > 1
    <3>1. m - 1 \in DOMAIN list /\ m - 1 < m /\ list[m - 1].id = (m - 1) - 1
      BY <1>4, <1>5, <2>3
    <3>2. list[m - 1].id < list[m].id
      BY <2>1, <3>1 DEF Sorted
    <3>3. QED BY <1>4, <2>1, <3>1, <3>2
  <2>4. QED BY <1>4, <2>2, <2>3
<1>7. ASSUME NEW j \in DOMAIN list
      PROVE  list[j].id # m - 1
  <2>1. j \in 1 .. Len(list)
    OBVIOUS
  <2>2. CASE j < m
    BY <1>4, <1>5, <2>1, <2>2
  <2>3. CASE j = m
    BY <1>4, <1>6, <2>1, <2>3, InstanceId
  <2>4. CASE j > m
    <3>1. m \in DOMAIN list /\ list[m].id < list[j].id
      BY <1>4, <2>1, <2>4 DEF Sorted
    <3>2. list[m].id \in Nat /\ list[j].id \in Nat /\ list[m].id > m - 1
      BY <1>4, <1>6, <2>1, <2>4, <3>1, InstanceId
    <3>3. QED BY <1>4, <3>1, <3>2
  <2>5. QED BY <1>4, <2>1, <2>2, <2>3, <2>4
<1>8. QED BY <1>3, <1>4, <1>7

-----------------------------------------------------------------------------
(* What may be written, and what it does. *)

Letters == {"U", "Q", "S"}
ObjectsType == [server : Seq(Instance), offset : Int,
                firmware : [state : {1, 2}, supported : {0, 1}]]
Writable == {"server", "device", "firmware"}

\* The resources that requests name.
LEMMA ItemsAre ==
  /\ \A item \in Items["server"] :
       \/ item.id = "lifetime" /\ item.value \in Numbers \cup {None}
       \/ item.id = "disableTimeout" /\ item.value = 1
       \/ item.id = "binding" /\ item.value \in Bindings
       \/ item.id \in {"shortServerId", "unknown"}
  /\ \A item \in Items["device"] :
       \/ item.id = "utcOffset" /\ item.value \in {1, None}
       \/ item.id \in {"timezone", "reboot"}
  /\ \A item \in Items["firmware"] :
       \/ item.id = "supported" /\ item.value \in {1, None}
       \/ item.id \in {"package", "update"}
BY DEF Items, Item

\* What may be written, and with which values.
LEMMA AllowedServer ==
  ASSUME NEW item \in Items["server"], Allowed("server", item) = "2.04"
  PROVE  \/ item.id \in {"lifetime", "disableTimeout"} /\ item.value \in 0 .. Limit
         \/ item.id = "binding" /\ item.value \in Seq(Letters)
<1>1. CASE item.id \in {"lifetime", "disableTimeout"}
  <2>1. prv_set_int_value(item.value) = "2.04"
    BY <1>1, Zenon DEF Allowed
  <2>2. QED BY <1>1, <2>1 DEF prv_set_int_value
<1>2. CASE item.id = "binding"
  <2>1. item.value \in Seq(STRING)
    BY <1>2, ItemsAre, ObjectsAssumption
  <2>2. (IF item.value # <<>> /\ \E m \in Modes : IsPrefix(item.value, m) THEN "2.04" ELSE "4.00") = "2.04"
    BY <1>2, Zenon DEF Allowed
  <2>3. PICK m \in Modes : IsPrefix(item.value, m)
    BY <2>2
  <2>4. m \in Seq(Letters)
    <3>1. <<"U">> \in Seq(Letters) /\ <<"S">> \in Seq(Letters)
      BY DEF Letters
    <3>2. <<"U", "Q">> \in Seq(Letters) /\ <<"S", "Q">> \in Seq(Letters)
      BY DEF Letters
    <3>3. <<"U", "S">> \in Seq(Letters) /\ <<"U", "Q", "S">> \in Seq(Letters)
      BY DEF Letters
    <3>4. QED BY <3>1, <3>2, <3>3 DEF Modes
  <2>5. \A i \in 1 .. Len(item.value) : item.value[i] = m[i] /\ m[i] \in Letters
    <3>1. Len(item.value) <= Len(m) /\ SubSeq(item.value, 1, Len(item.value)) = SubSeq(m, 1, Len(item.value))
      BY <2>3 DEF IsPrefix
    <3>2. QED BY <2>1, <2>4, <3>1
  <2>6. QED BY <1>2, <2>1, <2>5
<1>3. item.id \notin {"shortServerId", "unknown"}
  <2>1. item.id = "unknown" => Allowed("server", item) = "4.04"
    BY Zenon DEF Allowed
  <2>2. item.id = "shortServerId" => Allowed("server", item) = "4.05"
    BY Zenon DEF Allowed
  <2>3. QED BY <2>1, <2>2
<1>4. QED BY <1>1, <1>2, <1>3, ItemsAre

\* The same for the other objects that are written.
LEMMA AllowedOthers ==
  /\ \A item \in Items["device"] : Allowed("device", item) = "2.04" =>
       item.id = "utcOffset" /\ item.value \in Int
  /\ \A item \in Items["firmware"] : Allowed("firmware", item) = "2.04" =>
       \/ item.id = "package"
       \/ item.id = "supported" /\ item.value \in {0, 1}
<1>1. ASSUME NEW item \in Items["device"], Allowed("device", item) = "2.04"
      PROVE  item.id = "utcOffset" /\ item.value \in Int
  <2>1. item.id = "utcOffset" => (IF item.value = None THEN "4.00" ELSE "2.04") = "2.04"
    BY <1>1, Zenon DEF Allowed
  <2>2. item.id = "timezone" => Allowed("device", item) = "5.01"
    BY Zenon DEF Allowed
  <2>3. item.id = "reboot" => Allowed("device", item) = "4.05"
    BY Zenon DEF Allowed
  <2>4. QED BY <1>1, <2>1, <2>2, <2>3, ItemsAre
<1>2. ASSUME NEW item \in Items["firmware"], Allowed("firmware", item) = "2.04"
      PROVE  item.id = "package" \/ (item.id = "supported" /\ item.value \in {0, 1})
  <2>1. item.id = "supported" => (IF item.value \in {0, 1} THEN "2.04" ELSE "4.00") = "2.04"
    BY <1>2, Zenon DEF Allowed
  <2>2. item.id = "update" => Allowed("firmware", item) = "4.05"
    BY Zenon DEF Allowed
  <2>3. QED BY <1>2, <2>1, <2>2, ItemsAre
<1>3. QED BY <1>1, <1>2

\* A binding is an array of zeros with the letters at its beginning.
Letter(b, p) == IF p \in 1 .. Len(b) THEN b[p] ELSE "0"

\* Its letters, and the zeros behind them.
LEMMA LetterIs ==
  ASSUME NEW b \in Seq(Letters), NEW p \in Nat \ {0}
  PROVE  /\ p <= Len(b) => Letter(b, p) = b[p]
         /\ p > Len(b) => Letter(b, p) = "0"
BY DEF Letter

\* strncpy replaces the letters at the beginning and no others.
LEMMA StrncpyOK ==
  ASSUME NEW old \in Seq(Letters), NEW new \in Seq(Letters)
  PROVE  /\ strncpy(old, new) \in Seq(Letters)
         /\ \A p \in Nat \ {0} : Letter(strncpy(old, new), p) =
              IF p <= Len(new) THEN new[p] ELSE Letter(old, p)
<1> DEFINE rest == SubSeq(old, Len(new) + 1, Len(old))
           c == new \o rest
<1>1. /\ rest \in Seq(Letters)
      /\ Len(rest) = IF Len(new) < Len(old) THEN Len(old) - Len(new) ELSE 0
      /\ \A i \in 1 .. Len(rest) : rest[i] = old[Len(new) + i]
  OBVIOUS
<1> HIDE DEF rest
<1>2. /\ c \in Seq(Letters) /\ Len(c) = Len(new) + Len(rest)
      /\ \A i \in 1 .. Len(new) + Len(rest) :
           c[i] = IF i <= Len(new) THEN new[i] ELSE rest[i - Len(new)]
  BY <1>1, ConcatProperties
<1>3. strncpy(old, new) = c
  BY DEF strncpy, rest
<1> HIDE DEF c
<1>4. ASSUME NEW p \in Nat \ {0}
      PROVE  Letter(c, p) = IF p <= Len(new) THEN new[p] ELSE Letter(old, p)
  <2>1. CASE p <= Len(new)
    <3>1. Len(rest) \in Nat /\ p \in 1 .. Len(new) + Len(rest)
      BY <1>1, <2>1
    <3>2. c[p] = new[p] /\ p <= Len(c)
      BY <1>2, <2>1, <3>1
    <3>3. QED BY <1>2, <2>1, <3>2, LetterIs
  <2>2. CASE p > Len(new) /\ p <= Len(old)
    <3>1. p - Len(new) \in 1 .. Len(rest) /\ Len(new) + (p - Len(new)) = p
      BY <1>1, <2>2
    <3>2. c[p] = old[p] /\ p <= Len(c)
      BY <1>1, <1>2, <2>2, <3>1
    <3>3. ~(p <= Len(new))
      BY <2>2
    <3>4. QED BY <1>2, <2>2, <3>2, <3>3, LetterIs
  <2>3. CASE p > Len(new) /\ p > Len(old)
    <3>1. p > Len(c) /\ ~(p <= Len(new))
      BY <1>1, <1>2, <2>3
    <3>2. QED BY <1>2, <2>3, <3>1, LetterIs
  <2>4. QED BY <2>1, <2>2, <2>3
<1>5. QED BY <1>2, <1>3, <1>4

\* Bindings of the same letters are the same.
LEMMA LettersSame ==
  ASSUME NEW a \in Seq(Letters), NEW b \in Seq(Letters), \A p \in Nat \ {0} : Letter(a, p) = Letter(b, p)
  PROVE  a = b
<1>1. ASSUME NEW x \in Seq(Letters), NEW y \in Seq(Letters),
             \A p \in Nat \ {0} : Letter(x, p) = Letter(y, p), Len(x) < Len(y)
      PROVE  FALSE
  <2> DEFINE n == Len(y)
  <2>1. n \in Nat \ {0} /\ n > Len(x) /\ n <= Len(y) /\ n \in 1 .. Len(y)
    BY <1>1
  <2>2. y[n] \in Letters
    BY <2>1, ElementOfSeq
  <2> HIDE DEF n
  <2>3. Letter(x, n) = "0" /\ Letter(y, n) = y[n]
    BY <2>1, LetterIs
  <2>4. QED BY <1>1, <2>1, <2>2, <2>3 DEF Letters
<1>2. Len(a) = Len(b)
  BY <1>1
<1>3. \A i \in 1 .. Len(a) : a[i] = b[i]
  <2> SUFFICES ASSUME NEW i \in 1 .. Len(a) PROVE a[i] = b[i]
    OBVIOUS
  <2>1. i \in Nat \ {0} /\ i <= Len(a) /\ i <= Len(b)
    BY <1>2
  <2>2. QED BY <2>1, LetterIs
<1>4. QED BY <1>2, <1>3

-----------------------------------------------------------------------------
(* What a write leaves alone. *)

\* What a write of instance id of an object leaves alone.
Kept(objs, object, id) ==
  {o \in ObjectsType :
     /\ Len(o.server) = Len(objs.server)
     /\ \A j \in DOMAIN objs.server :
          /\ o.server[j].id = objs.server[j].id
          /\ o.server[j].shortServerId = objs.server[j].shortServerId
          /\ (object = "server" /\ objs.server[j].id = id) \/ o.server[j] = objs.server[j]
     /\ object = "device" \/ o.offset = objs.offset
     /\ object = "firmware" \/ o.firmware = objs.firmware
     /\ o.firmware.state = objs.firmware.state}

\* The instance lists before and after a write.
LEMMA KeptTypes ==
  ASSUME NEW objs \in ObjectsType, NEW object, NEW id, NEW o \in Kept(objs, object, id)
  PROVE  /\ o.server \in Seq(Instance) /\ objs.server \in Seq(Instance)
         /\ Len(o.server) = Len(objs.server) /\ DOMAIN o.server = DOMAIN objs.server
         /\ o \in ObjectsType
<1>1. o \in ObjectsType /\ Len(o.server) = Len(objs.server)
  BY DEF Kept
<1>2. o.server \in Seq(Instance) /\ objs.server \in Seq(Instance)
  BY <1>1 DEF ObjectsType
<1>3. QED BY <1>1, <1>2

\* The searches go on to find the same instances.
LEMMA KeptFinds ==
  ASSUME NEW objs \in ObjectsType, Sorted(objs.server), NEW object, NEW id \in Nat,
         NEW o \in Kept(objs, object, id)
  PROVE  /\ Sorted(o.server)
         /\ \A n \in Nat : lwm2m_list_find(o.server, n) = lwm2m_list_find(objs.server, n)
<1>1. /\ o.server \in Seq(Instance) /\ objs.server \in Seq(Instance)
      /\ DOMAIN o.server = DOMAIN objs.server
  BY KeptTypes
<1>2. \A j \in DOMAIN objs.server : o.server[j].id = objs.server[j].id
  BY DEF Kept
<1>3. Sorted(o.server)
  BY <1>1, <1>2 DEF Sorted
<1>4. ASSUME NEW n \in Nat
      PROVE  lwm2m_list_find(o.server, n) = lwm2m_list_find(objs.server, n)
  <2> DEFINE a == lwm2m_list_find(o.server, n)
             b == lwm2m_list_find(objs.server, n)
  <2>1. /\ a \in 0 .. Len(o.server) /\ (a # 0 => o.server[a].id = n)
        /\ \A j \in DOMAIN o.server : o.server[j].id = n => a = j
    BY <1>1, <1>3, FindOK
  <2>2. /\ b \in 0 .. Len(objs.server) /\ (b # 0 => objs.server[b].id = n)
        /\ \A j \in DOMAIN objs.server : objs.server[j].id = n => b = j
    BY <1>1, FindOK
  <2> HIDE DEF a, b
  <2>3. a # 0 => a \in DOMAIN o.server
    BY <1>1, <2>1
  <2>4. b # 0 => b \in DOMAIN objs.server
    BY <1>1, <2>2
  <2>5. CASE a # 0
    <3>1. objs.server[a].id = n /\ a \in DOMAIN objs.server
      BY <1>1, <1>2, <2>1, <2>3, <2>5
    <3>2. QED BY <2>2, <3>1 DEF a, b
  <2>6. CASE a = 0
    <3>1. b # 0 => o.server[b].id = n /\ b \in DOMAIN o.server
      BY <1>1, <1>2, <2>2, <2>4
    <3>2. b = 0
      BY <2>1, <2>6, <3>1
    <3>3. QED BY <2>6, <3>2 DEF a, b
  <2>7. QED BY <2>5, <2>6
<1>5. QED BY <1>3, <1>4

\* The instance that is written.
LEMMA ExistsOK ==
  ASSUME NEW objs \in ObjectsType, Sorted(objs.server), NEW id \in Nat, Exists(objs, "server", id)
  PROVE  /\ lwm2m_list_find(objs.server, id) \in DOMAIN objs.server
         /\ lwm2m_list_find(objs.server, id) \in 1 .. Len(objs.server)
         /\ \A j \in DOMAIN objs.server :
              objs.server[j].id = id <=> j = lwm2m_list_find(objs.server, id)
<1>1. objs.server \in Seq(Instance)
  BY DEF ObjectsType
<1>2. lwm2m_list_find(objs.server, id) # 0
  BY DEF Exists
<1> DEFINE k == lwm2m_list_find(objs.server, id)
<1>3. /\ k \in 0 .. Len(objs.server) /\ objs.server[k].id = id
      /\ \A j \in DOMAIN objs.server : objs.server[j].id = id => k = j
  BY <1>1, <1>2, FindOK
<1>4. k # 0
  BY <1>2
<1> HIDE DEF k
<1>5. k \in DOMAIN objs.server /\ k \in 1 .. Len(objs.server)
  BY <1>1, <1>3, <1>4
<1>6. QED BY <1>3, <1>5 DEF k

Scalars(o, k) == [lifetime |-> o.server[k].lifetime, disableTimeout |-> o.server[k].disableTimeout,
                  utcOffset |-> o.offset, supported |-> o.firmware.supported]
Names == {"lifetime", "disableTimeout", "utcOffset", "supported"}

\* What one resource of an allowed write does.
LEMMA WrittenServer ==
  ASSUME NEW objs \in ObjectsType, Sorted(objs.server), NEW id \in Nat, Exists(objs, "server", id),
         NEW o \in Kept(objs, "server", id), NEW item \in Items["server"],
         Allowed("server", item) = "2.04", NEW k, k = lwm2m_list_find(objs.server, id)
  PROVE  LET w == Written(o, "server", id, item)
         IN  /\ w \in Kept(objs, "server", id)
             /\ \A s \in Names : Scalars(w, k)[s] = IF item.id = s THEN item.value ELSE Scalars(o, k)[s]
             /\ \A p \in Nat \ {0} : Letter(w.server[k].binding, p) =
                  IF item.id = "binding" /\ p <= Len(item.value) THEN item.value[p]
                                                                 ELSE Letter(o.server[k].binding, p)
<1> DEFINE w == Written(o, "server", id, item)
<1>1. /\ o.server \in Seq(Instance) /\ objs.server \in Seq(Instance)
      /\ Len(o.server) = Len(objs.server) /\ DOMAIN o.server = DOMAIN objs.server
      /\ o \in ObjectsType
  BY KeptTypes
<1>2. k = lwm2m_list_find(o.server, id)
  BY KeptFinds
<1>3. /\ k \in 1 .. Len(objs.server) /\ k \in DOMAIN o.server
      /\ \A j \in DOMAIN objs.server : objs.server[j].id = id <=> j = k
  BY <1>1, ExistsOK
<1>4. o.server[k] \in Instance
  BY <1>1, <1>3
<1>5. ASSUME NEW node \in Instance, node.id = o.server[k].id,
             node.shortServerId = o.server[k].shortServerId,
             w = [o EXCEPT !.server[k] = node]
      PROVE  w \in Kept(objs, "server", id) /\ w.server[k] = node
             /\ w.offset = o.offset /\ w.firmware = o.firmware
  <2> DEFINE new == [o.server EXCEPT ![k] = node]
  <2>1. w = [o EXCEPT !.server = new]
    BY <1>5
  <2>2. /\ new \in Seq(Instance) /\ Len(new) = Len(o.server)
        /\ \A j \in DOMAIN objs.server : new[j] = IF j = k THEN node ELSE o.server[j]
    BY <1>1, <1>3, <1>5
  <2> HIDE DEF new
  <2>3. /\ w \in ObjectsType /\ w.server = new /\ w.offset = o.offset /\ w.firmware = o.firmware
    BY <1>1, <2>1, <2>2 DEF ObjectsType
  <2> HIDE DEF w
  <2>4. w \in Kept(objs, "server", id)
    BY <1>1, <1>3, <1>5, <2>2, <2>3, ZenonT(30) DEF Kept
  <2>5. QED BY <1>1, <1>3, <2>2, <2>3, <2>4
<1>6. CASE item.id \in {"lifetime", "disableTimeout"}
  <2>1. item.value \in 0 .. Limit
    BY <1>6, AllowedServer
  <2> DEFINE node == [o.server[k] EXCEPT ![item.id] = item.value]
  <2>2. w = [o EXCEPT !.server[k] = node]
    <3>1. w = [o EXCEPT !.server[k][item.id] = item.value]
      <4>1. w = [o EXCEPT !.server[lwm2m_list_find(o.server, id)][item.id] = item.value]
        <5>1. item.id # "binding"
          BY <1>6
        <5>2. QED BY <5>1, Zenon DEF Written
      <4>2. QED BY <1>2, <4>1
    <3> HIDE DEF w
    <3>2. QED BY <3>1
  <2>3. node \in Instance /\ node.id = o.server[k].id /\ node.shortServerId = o.server[k].shortServerId
        /\ node.binding = o.server[k].binding
    BY <1>4, <1>6, <2>1 DEF Instance
  <2>4. /\ node.lifetime = IF item.id = "lifetime" THEN item.value ELSE o.server[k].lifetime
        /\ node.disableTimeout = IF item.id = "disableTimeout" THEN item.value ELSE o.server[k].disableTimeout
    BY <1>4, <1>6, <2>1 DEF Instance
  <2> HIDE DEF node, w
  <2>5. w \in Kept(objs, "server", id) /\ w.server[k] = node
        /\ w.offset = o.offset /\ w.firmware = o.firmware
    BY <1>5, <2>2, <2>3
  <2>6. \A s \in Names : Scalars(w, k)[s] = IF item.id = s THEN item.value ELSE Scalars(o, k)[s]
    BY <1>6, <2>4, <2>5 DEF Names, Scalars
  <2>7. QED BY <1>6, <2>3, <2>5, <2>6 DEF w
<1>7. CASE item.id = "binding"
  <2>1. item.value \in Seq(Letters) /\ o.server[k].binding \in Seq(Letters)
    BY <1>4, <1>7, AllowedServer DEF Instance, Letters
  <2> DEFINE new == strncpy(o.server[k].binding, item.value)
  <2>2. /\ new \in Seq(Letters)
        /\ \A p \in Nat \ {0} : Letter(new, p) =
             IF p <= Len(item.value) THEN item.value[p] ELSE Letter(o.server[k].binding, p)
    BY <2>1, StrncpyOK
  <2>3. w = [o EXCEPT !.server[k].binding = new]
    <3>1. w = [o EXCEPT !.server[lwm2m_list_find(o.server, id)].binding = strncpy(@, item.value)]
      BY <1>7, Zenon DEF Written
    <3>2. QED BY <1>2, <3>1
  <2> HIDE DEF new, w
  <2> DEFINE node == [o.server[k] EXCEPT !.binding = new]
  <2>4. w = [o EXCEPT !.server[k] = node]
    BY <2>3
  <2>5. node \in Instance /\ node.id = o.server[k].id /\ node.shortServerId = o.server[k].shortServerId
        /\ node.binding = new
        /\ node.lifetime = o.server[k].lifetime /\ node.disableTimeout = o.server[k].disableTimeout
    BY <1>4, <2>2 DEF Instance, Letters
  <2> HIDE DEF node
  <2>6. w \in Kept(objs, "server", id) /\ w.server[k] = node
        /\ w.offset = o.offset /\ w.firmware = o.firmware
    BY <1>5, <2>4, <2>5
  <2>7. \A s \in Names : Scalars(w, k)[s] = IF item.id = s THEN item.value ELSE Scalars(o, k)[s]
    BY <1>7, <2>5, <2>6 DEF Names, Scalars
  <2>8. QED BY <1>7, <2>2, <2>5, <2>6, <2>7 DEF w
<1>8. QED BY <1>6, <1>7, AllowedServer

\* The same for the other objects that are written.
LEMMA WrittenOthers ==
  ASSUME NEW objs \in ObjectsType, NEW id, NEW object \in {"device", "firmware"},
         NEW o \in Kept(objs, object, id), NEW item \in Items[object],
         Allowed(object, item) = "2.04", NEW k
  PROVE  LET w == Written(o, object, id, item)
         IN  /\ w \in Kept(objs, object, id)
             /\ \A s \in Names : Scalars(w, k)[s] = IF item.id = s THEN item.value ELSE Scalars(o, k)[s]
             /\ \A p \in Nat \ {0} : Letter(w.server[k].binding, p) =
                  IF item.id = "binding" /\ p <= Len(item.value) THEN item.value[p]
                                                                 ELSE Letter(o.server[k].binding, p)
<1> DEFINE w == Written(o, object, id, item)
<1>1. o \in ObjectsType /\ o \in Kept(objs, object, id)
  BY DEF Kept
<1>2. CASE object = "device"
  <2>1. item.id = "utcOffset" /\ item.value \in Int
    BY <1>2, AllowedOthers
  <2>2. w = [o EXCEPT !.offset = item.value]
    BY <1>2, <2>1, Zenon DEF Written
  <2> HIDE DEF w
  <2>3. w \in ObjectsType /\ w.server = o.server /\ w.firmware = o.firmware /\ w.offset = item.value
    BY <1>1, <2>1, <2>2 DEF ObjectsType
  <2>4. w \in Kept(objs, object, id)
    BY <1>1, <1>2, <2>3 DEF Kept
  <2>5. \A s \in Names : Scalars(w, k)[s] = IF item.id = s THEN item.value ELSE Scalars(o, k)[s]
    BY <2>1, <2>3 DEF Names, Scalars
  <2>6. QED BY <2>1, <2>3, <2>4, <2>5 DEF w
<1>3. CASE object = "firmware" /\ item.id = "supported"
  <2>1. item.value \in {0, 1}
    BY <1>3, AllowedOthers
  <2>2. w = [o EXCEPT !.firmware.supported = item.value]
    BY <1>3, Zenon DEF Written
  <2> HIDE DEF w
  <2>3. /\ w \in ObjectsType /\ w.server = o.server /\ w.offset = o.offset
        /\ w.firmware.supported = item.value /\ w.firmware.state = o.firmware.state
    BY <1>1, <2>1, <2>2 DEF ObjectsType
  <2>4. w \in Kept(objs, object, id)
    BY <1>1, <1>3, <2>3 DEF Kept
  <2>5. \A s \in Names : Scalars(w, k)[s] = IF item.id = s THEN item.value ELSE Scalars(o, k)[s]
    BY <1>3, <2>1, <2>3 DEF Names, Scalars
  <2>6. QED BY <1>3, <2>3, <2>4, <2>5 DEF w
<1>4. CASE object = "firmware" /\ item.id = "package"
  <2>1. w = o
    BY <1>4, Zenon DEF Written
  <2> HIDE DEF w
  <2>2. \A s \in Names : item.id # s
    BY <1>4 DEF Names
  <2>3. QED BY <1>1, <1>4, <2>1, <2>2 DEF w
<1>5. QED BY <1>2, <1>3, <1>4, AllowedOthers

\* Objects are the same when the cells of the instance written are.
LEMMA SameCells ==
  ASSUME NEW objs \in ObjectsType, Sorted(objs.server), NEW id \in Nat, NEW object \in Writable,
         Exists(objs, object, id), NEW a \in Kept(objs, object, id), NEW b \in Kept(objs, object, id),
         NEW k, k = lwm2m_list_find(objs.server, id),
         \A s \in Names : Scalars(a, k)[s] = Scalars(b, k)[s],
         \A p \in Nat \ {0} : Letter(a.server[k].binding, p) = Letter(b.server[k].binding, p)
  PROVE  a = b
<1>1. /\ a.server \in Seq(Instance) /\ b.server \in Seq(Instance) /\ objs.server \in Seq(Instance)
      /\ Len(a.server) = Len(objs.server) /\ DOMAIN a.server = DOMAIN objs.server
      /\ Len(b.server) = Len(objs.server) /\ DOMAIN b.server = DOMAIN objs.server
      /\ a \in ObjectsType /\ b \in ObjectsType
  BY KeptTypes
<1>2. /\ a.server[k].lifetime = b.server[k].lifetime
      /\ a.server[k].disableTimeout = b.server[k].disableTimeout
      /\ a.offset = b.offset /\ a.firmware.supported = b.firmware.supported
  BY DEF Names, Scalars
<1>3. a.firmware = b.firmware
  BY <1>1, <1>2 DEF Kept, ObjectsType
<1>4. ASSUME NEW j \in DOMAIN objs.server
      PROVE  a.server[j] = b.server[j]
  <2>1. CASE object = "server" /\ objs.server[j].id = id
    <3>1. j = k
      BY <2>1, ExistsOK
    <3>2. a.server[k] \in Instance /\ b.server[k] \in Instance
      BY <1>1, <1>4, <3>1
    <3>3. a.server[k].binding = b.server[k].binding
      <4>1. a.server[k].binding \in Seq(Letters) /\ b.server[k].binding \in Seq(Letters)
        BY <3>2 DEF Instance, Letters
      <4>2. QED BY <4>1, LettersSame
    <3>4. a.server[j].id = b.server[j].id /\ a.server[j].shortServerId = b.server[j].shortServerId
      BY DEF Kept
    <3>5. QED BY <1>2, <3>1, <3>2, <3>3, <3>4 DEF Instance
  <2>2. CASE ~(object = "server" /\ objs.server[j].id = id)
    BY <2>2 DEF Kept
  <2>3. QED BY <2>1, <2>2
<1>5. a.server = b.server
  BY <1>1, <1>4
<1>6. QED BY <1>1, <1>2, <1>3, <1>5 DEF ObjectsType

-----------------------------------------------------------------------------
(* The loop over the resources of a write. *)

\* One round of the loop, for any of the objects.
LEMMA WrittenOK ==
  ASSUME NEW objs \in ObjectsType, Sorted(objs.server), NEW id \in Nat, NEW object \in Writable,
         Exists(objs, object, id), NEW o \in Kept(objs, object, id), NEW item \in Items[object],
         Allowed(object, item) = "2.04", NEW k, k = lwm2m_list_find(objs.server, id)
  PROVE  LET w == Written(o, object, id, item)
         IN  /\ w \in Kept(objs, object, id)
             /\ \A s \in Names : Scalars(w, k)[s] = IF item.id = s THEN item.value ELSE Scalars(o, k)[s]
             /\ \A p \in Nat \ {0} : Letter(w.server[k].binding, p) =
                  IF item.id = "binding" /\ p <= Len(item.value) THEN item.value[p]
                                                                 ELSE Letter(o.server[k].binding, p)
<1>1. CASE object = "server"
  BY <1>1, WrittenServer
<1>2. CASE object \in {"device", "firmware"}
  BY <1>2, WrittenOthers
<1>3. QED BY <1>1, <1>2 DEF Writable

\* The first resource that is refused, and the states until then.
Bad(object, items) ==
  Min({i \in 1 .. Len(items) : Allowed(object, items[i]) # "2.04"} \cup {Len(items) + 1})
Writes(o, m, objs, object, id, items) ==
  /\ o \in [0 .. m -> Kept(objs, object, id)]
  /\ o[0] = objs
  /\ \A n \in 1 .. m : o[n] = Written(o[n - 1], object, id, items[n])

\* Everything before the first refusal is accepted.
LEMMA BadOK ==
  ASSUME NEW object, NEW S, NEW items \in Seq(S)
  PROVE  /\ Bad(object, items) \in 1 .. Len(items) + 1
         /\ \A i \in 1 .. Bad(object, items) - 1 : Allowed(object, items[i]) = "2.04"
         /\ Bad(object, items) <= Len(items) => Allowed(object, items[Bad(object, items)]) # "2.04"
<1> DEFINE T == {i \in 1 .. Len(items) : Allowed(object, items[i]) # "2.04"} \cup {Len(items) + 1}
           b == Min(T)
<1>1. T \subseteq Nat /\ T # {}
  OBVIOUS
<1>2. b \in T /\ \A y \in T : b <= y
  <2> HIDE DEF T
  <2>1. QED BY <1>1, MinOK
<1>3. b \in 1 .. Len(items) + 1 /\ (b <= Len(items) => Allowed(object, items[b]) # "2.04")
  BY <1>2
<1>4. ASSUME NEW i \in 1 .. b - 1
      PROVE  Allowed(object, items[i]) = "2.04"
  <2>1. i \in 1 .. Len(items) /\ i < b
    BY <1>3
  <2> HIDE DEF b
  <2>2. i \notin T
    <3> HIDE DEF T
    <3>1. QED BY <1>2, <1>3, <2>1
  <2>3. QED BY <2>1, <2>2
<1>5. QED BY <1>3, <1>4 DEF Bad

\* A write that changes nothing leaves alone all it should.
LEMMA KeptSelf ==
  ASSUME NEW objs \in ObjectsType, NEW object, NEW id
  PROVE  objs \in Kept(objs, object, id)
BY DEF Kept

\* The loop of a write is a walk through these states.
LEMMA WriteAllOK ==
  ASSUME NEW objs \in ObjectsType, Sorted(objs.server), NEW id \in Nat, NEW object \in Writable,
         Exists(objs, object, id), NEW items \in Seq(Items[object])
  PROVE  LET b == Bad(object, items)
         IN  \E o : /\ Writes(o, b - 1, objs, object, id, items)
                    /\ WriteAll(objs, object, id, items) =
                         [code |-> IF b > Len(items) THEN "2.04" ELSE Allowed(object, items[b]),
                          objects |-> o[b - 1]]
<1> DEFINE N == Len(items)
           b == Bad(object, items)
           C == {"2.04"} \cup {Allowed(object, items[n]) : n \in 1 .. N}
           S == [code : C, objects : Kept(objs, object, id)]
           start == [code |-> "2.04", objects |-> objs]
           Round(acc, n) == Write(acc, object, id, items[n])
           Goes(g) == g = [n \in 0 .. N |-> IF n = 0 THEN start ELSE Round(g[n - 1], n)]
<1>1. /\ b \in 1 .. N + 1
      /\ \A i \in 1 .. b - 1 : Allowed(object, items[i]) = "2.04"
      /\ b <= N => Allowed(object, items[b]) # "2.04"
  BY BadOK
<1>2. start \in S
  BY KeptSelf
<1>3. \A n \in 1 .. N : \A acc \in S : Round(acc, n) \in S
  <2> SUFFICES ASSUME NEW n \in 1 .. N, NEW acc \in S PROVE Round(acc, n) \in S
    OBVIOUS
  <2>1. items[n] \in Items[object] /\ Allowed(object, items[n]) \in C
    OBVIOUS
  <2>2. acc.code \in C /\ acc.objects \in Kept(objs, object, id)
    OBVIOUS
  <2>3. CASE acc.code # "2.04"
    BY <2>3 DEF Write
  <2>4. CASE acc.code = "2.04" /\ Allowed(object, items[n]) # "2.04"
    BY <2>1, <2>2, <2>4 DEF Write
  <2>5. CASE acc.code = "2.04" /\ Allowed(object, items[n]) = "2.04"
    <3>1. Written(acc.objects, object, id, items[n]) \in Kept(objs, object, id)
      BY <2>1, <2>2, <2>5, WrittenOK
    <3>2. QED BY <2>1, <2>2, <2>5, <3>1 DEF Write
  <2>6. QED BY <2>3, <2>4, <2>5
<1> HIDE DEF Round, S
<1>4. \E g : Goes(g)
  <2> DEFINE step == [n \in 1 .. N |-> [acc \in S |-> Round(acc, n)]]
  <2>1. step \in Rounds(N, S) /\ N \in Nat
    BY <1>3 DEF Rounds
  <2>2. PICK f \in [0 .. N -> S] : f[0] = start /\ \A n \in 1 .. N : f[n] = step[n][f[n - 1]]
    <3> HIDE DEF step, N, start
    <3>1. \E f : Runs(f, N, S, start, step)
      BY <1>2, <2>1, Course
    <3>2. QED BY <3>1 DEF Runs
  <2>3. \A n \in 1 .. N : f[n] = Round(f[n - 1], n)
    <3> SUFFICES ASSUME NEW n \in 1 .. N PROVE f[n] = Round(f[n - 1], n)
      OBVIOUS
    <3>1. f[n - 1] \in S
      BY <2>2
    <3>2. QED BY <2>2, <3>1
  <2>4. Goes(f)
    BY <2>2, <2>3
  <2>5. QED BY <2>4
<1> DEFINE w == CHOOSE g : Goes(g)
<1>5. Goes(w)
  <2> HIDE DEF Goes
  <2>1. QED BY <1>4
<1>6. WriteAll(objs, object, id, items) = w[N]
  BY DEF WriteAll, Round
<1> HIDE DEF w
<1>7. w[0] = start /\ \A n \in 1 .. N : w[n] = Round(w[n - 1], n)
  <2>1. \A n \in 0 .. N : w[n] = IF n = 0 THEN start ELSE Round(w[n - 1], n)
    BY <1>5
  <2>2. QED BY <2>1
<1> DEFINE end == [code |-> Allowed(object, items[b]), objects |-> w[b - 1].objects]
           G == {n \in 0 .. N : /\ w[n] \in S
                                /\ n < b => w[n].code = "2.04"
                                /\ n >= b => w[n] = end}
<1>8. \A n \in 0 .. N : n \in G
  <2>1. 0 \in G
    BY <1>1, <1>2, <1>7
  <2>2. ASSUME NEW n \in G, n \in Nat /\ n < N
        PROVE  n + 1 \in G
    <3>1. n + 1 \in 1 .. N /\ w[n] \in S /\ w[n + 1] = Round(w[n], n + 1)
      BY <1>7, <2>2
    <3>2. w[n + 1] \in S
      BY <1>3, <3>1
    <3>3. CASE n + 1 < b
      <4>1. w[n].code = "2.04" /\ Allowed(object, items[n + 1]) = "2.04"
        BY <1>1, <2>2, <3>3
      <4>2. w[n + 1].code = "2.04"
        <5>1. w[n + 1] = [w[n] EXCEPT !.objects = Written(@, object, id, items[n + 1])]
          BY <3>1, <4>1 DEF Round, Write
        <5>2. QED BY <3>1, <4>1, <5>1 DEF S
      <4>3. QED BY <1>1, <2>2, <3>2, <3>3, <4>2
    <3>4. CASE n + 1 = b
      <4>1. w[n].code = "2.04" /\ Allowed(object, items[n + 1]) # "2.04" /\ n = b - 1
        BY <1>1, <2>2, <3>1, <3>4
      <4>2. w[n + 1] = end
        <5>1. w[n + 1] = [w[n] EXCEPT !.code = Allowed(object, items[n + 1])]
          BY <3>1, <4>1 DEF Round, Write
        <5>2. QED BY <3>1, <3>4, <4>1, <5>1 DEF S
      <4>3. QED BY <1>1, <2>2, <3>2, <3>4, <4>2
    <3>5. CASE n + 1 > b
      <4>1. w[n] = end /\ Allowed(object, items[b]) # "2.04"
        BY <1>1, <2>2, <3>1, <3>5
      <4>2. w[n + 1] = end
        BY <3>1, <4>1 DEF Round, Write
      <4>3. QED BY <1>1, <2>2, <3>2, <3>5, <4>2
    <3>6. QED BY <1>1, <2>2, <3>3, <3>4, <3>5
  <2>3. N \in Nat
    OBVIOUS
  <2> HIDE DEF G, N
  <2>4. QED BY <2>1, <2>2, <2>3, Upwards
<1> DEFINE o == [n \in 0 .. b - 1 |-> w[n].objects]
<1>9. Writes(o, b - 1, objs, object, id, items)
  <2>1. o \in [0 .. b - 1 -> Kept(objs, object, id)]
    <3> SUFFICES ASSUME NEW n \in 0 .. b - 1 PROVE w[n].objects \in Kept(objs, object, id)
      OBVIOUS
    <3>1. n \in G
      BY <1>1, <1>8
    <3>2. QED BY <3>1 DEF S
  <2>2. o[0] = objs
    BY <1>1, <1>7
  <2>3. ASSUME NEW n \in 1 .. b - 1
        PROVE  o[n] = Written(o[n - 1], object, id, items[n])
    <3>1. n \in 1 .. N /\ n - 1 \in 0 .. b - 1 /\ n \in 0 .. b - 1 /\ n - 1 \in 0 .. N
      BY <1>1
    <3>2. w[n - 1].code = "2.04" /\ w[n - 1] \in S /\ Allowed(object, items[n]) = "2.04"
      BY <1>1, <1>8, <3>1
    <3>3. w[n] = [w[n - 1] EXCEPT !.objects = Written(@, object, id, items[n])]
      BY <1>7, <3>1, <3>2 DEF Round, Write
    <3>4. w[n].objects = Written(w[n - 1].objects, object, id, items[n])
      BY <3>2, <3>3 DEF S
    <3>5. QED BY <3>1, <3>4
  <2> HIDE DEF o
  <2>4. QED BY <2>1, <2>2, <2>3 DEF Writes
<1>10. w[N] = [code |-> IF b > N THEN "2.04" ELSE Allowed(object, items[b]), objects |-> o[b - 1]]
  <2>1. N \in G /\ o[b - 1] = w[b - 1].objects
    BY <1>1, <1>8
  <2>2. CASE b > N
    <3>1. b - 1 = N /\ w[N].code = "2.04" /\ w[N] \in S
      BY <1>1, <2>1, <2>2
    <3>2. QED BY <2>1, <2>2, <3>1 DEF S
  <2>3. CASE b <= N
    <3>1. w[N] = end
      BY <1>1, <2>1, <2>3
    <3>2. QED BY <1>1, <2>1, <2>3, <3>1
  <2>4. QED BY <1>1, <2>2, <2>3
<1> HIDE DEF o
<1>11. QED BY <1>6, <1>9, <1>10

-----------------------------------------------------------------------------
(* Requests. *)

Good(objs) == objs \in ObjectsType /\ Sorted(objs.server) /\ Len(objs.server) <= MaxInstances

\* No instance has taken over the account.
AccountKept(new, old) ==
  \A s \in ToSet(new.server) : s.shortServerId = ShortId =>
    \E t \in ToSet(old.server) : t.id = s.id /\ t.shortServerId = ShortId

\* A payload with resources in it.
LEMMA PayloadOK ==
  ASSUME NEW object, NEW payload \in Payloads(object), payload \notin {None, <<>>}
  PROVE  payload \in Seq(Items[object])
BY DEF Payloads

\* The fields of a request.
LEMMA RequestOK ==
  ASSUME NEW req \in Requests
  PROVE  /\ req.method \in {"GET", "POST", "PUT", "DELETE"}
         /\ req.object \in {"server", "device", "firmware", "sensor", "security"}
         /\ req.instance \in InstanceIds \cup {None}
         /\ req.payload \in Payloads(req.object)
<1> DEFINE R(o) == Request({"PUT", "POST"}, o, InstanceIds \cup {None}, {None}, Payloads(o))
     \cup (UNION {Request({"PUT"}, o, InstanceIds, {item.id}, {<<item>>}) : item \in Items[o]})
     \cup Request({"POST"}, o, InstanceIds, {"update", "disable", "reboot", "reset"}, {None, <<>>})
     \cup Request({"GET", "DELETE"}, o, InstanceIds, {None, "disable", "unknown"}, {None})
     \cup Request({"GET", "DELETE"}, o, {None}, {None}, {None})
<1>1. PICK o \in DOMAIN Items : req \in R(o)
  BY DEF Requests
<1>2. DOMAIN Items = {"server", "device", "firmware", "sensor", "security"}
  BY DEF Items
<1>3. None \in Payloads(o) /\ <<>> \in Payloads(o)
  BY DEF Payloads
<1>4. \A item \in Items[o] : <<item>> \in Payloads(o)
  <2> SUFFICES ASSUME NEW item \in Items[o] PROVE <<item>> \in Payloads(o)
    OBVIOUS
  <2>1. 1 \in 1 .. MaxItems
    BY ObjectsAssumption
  <2>2. <<item>> \in [1 .. 1 -> Items[o]]
    OBVIOUS
  <2>3. QED BY <2>1, <2>2 DEF Payloads
<1>5. \/ req \in Request({"PUT", "POST"}, o, InstanceIds \cup {None}, {None}, Payloads(o))
      \/ \E item \in Items[o] : req \in Request({"PUT"}, o, InstanceIds, {item.id}, {<<item>>})
      \/ req \in Request({"POST"}, o, InstanceIds, {"update", "disable", "reboot", "reset"}, {None, <<>>})
      \/ req \in Request({"GET", "DELETE"}, o, InstanceIds, {None, "disable", "unknown"}, {None})
      \/ req \in Request({"GET", "DELETE"}, o, {None}, {None}, {None})
  BY <1>1
<1>6. QED BY <1>2, <1>3, <1>4, <1>5 DEF Request

\* The branches of handle_dm_request.
LEMMA HandleIs ==
  ASSUME NEW objs, NEW req
  PROVE  /\ req.method = "GET" => handle_dm_request(objs, req) =
              object_read(objs, req.object, req.instance, req.resource)
         /\ req.method = "POST" /\ req.resource # None => handle_dm_request(objs, req) =
              object_execute(objs, req.object, req.instance, req.resource, req.payload)
         /\ req.method = "POST" /\ req.resource = None => handle_dm_request(objs, req) =
              IF req.instance = None \/ object_isInstanceNew(objs, req.object, req.instance)
                THEN object_create(objs, req.object, req.instance, req.payload)
                ELSE object_write(objs, req.object, req.instance, req.payload)
         /\ req.method = "PUT" /\ req.instance # None => handle_dm_request(objs, req) =
              object_write(objs, req.object, req.instance, req.payload)
         /\ req.method = "DELETE" /\ req.instance # None /\ req.resource = None =>
              handle_dm_request(objs, req) = object_delete(objs, req.object, req.instance)
         /\ req.method = "PUT" /\ req.instance = None =>
              handle_dm_request(objs, req) = Refused(objs, "4.00")
         /\ req.method = "DELETE" /\ ~(req.instance # None /\ req.resource = None) =>
              handle_dm_request(objs, req) = Refused(objs, "4.00")
BY Zenon DEF handle_dm_request

\* A write takes over no account and keeps the list in order.
LEMMA KeptGood ==
  ASSUME NEW objs, Good(objs), NEW object, NEW id \in Nat, NEW o \in Kept(objs, object, id)
  PROVE  Good(o) /\ AccountKept(o, objs)
<1>1. /\ o.server \in Seq(Instance) /\ objs.server \in Seq(Instance)
      /\ Len(o.server) = Len(objs.server) /\ DOMAIN o.server = DOMAIN objs.server
      /\ o \in ObjectsType /\ objs \in ObjectsType /\ Sorted(objs.server)
  BY KeptTypes DEF Good
<1>2. Good(o)
  BY <1>1, KeptFinds DEF Good
<1>3. AccountKept(o, objs)
  BY <1>1 DEF AccountKept, Kept, ToSet
<1>4. QED BY <1>2, <1>3

\* The same for the write a server asks for, whatever it is answered with.
LEMMA WriteOK ==
  ASSUME NEW objs, Good(objs), NEW object \in {"server", "device", "firmware", "sensor", "security"},
         NEW id \in Nat, NEW payload \in Payloads(object)
  PROVE  LET r == object_write(objs, object, id, payload).objects
         IN  Good(r) /\ AccountKept(r, objs)
<1> DEFINE r == object_write(objs, object, id, payload).objects
<1>1. CASE r = objs
  BY <1>1 DEF AccountKept
<1>2. CASE r # objs
  <2>1. /\ object \in Writable /\ payload \notin {None, <<>>} /\ Exists(objs, object, id)
        /\ r = WriteAll(objs, object, id, payload).objects
    BY <1>2 DEF object_write, writeFunc, Refused, Visible, Writable
  <2>2. payload \in Seq(Items[object])
    BY <2>1, PayloadOK
  <2>3. objs \in ObjectsType /\ Sorted(objs.server)
    BY DEF Good
  <2> DEFINE b == Bad(object, payload)
  <2>4. PICK o : /\ Writes(o, b - 1, objs, object, id, payload)
                 /\ WriteAll(objs, object, id, payload) =
                      [code |-> IF b > Len(payload) THEN "2.04" ELSE Allowed(object, payload[b]),
                       objects |-> o[b - 1]]
    BY <2>1, <2>2, <2>3, WriteAllOK
  <2>5. b - 1 \in 0 .. b - 1
    BY <2>2, BadOK
  <2>6. r \in Kept(objs, object, id)
    BY <2>1, <2>4, <2>5 DEF Writes
  <2> HIDE DEF r
  <2>7. QED BY <2>6, KeptGood DEF r
<1>3. QED BY <1>1, <1>2

\* No write is answered as a creation.
LEMMA NotCreated ==
  \A item \in Items["server"] : Allowed("server", item) # "2.01"
<1> SUFFICES ASSUME NEW item \in Items["server"], Allowed("server", item) = "2.01"
             PROVE  FALSE
  OBVIOUS
<1>1. item.id \in {"lifetime", "disableTimeout"} => prv_set_int_value(item.value) = "2.01"
  BY Zenon DEF Allowed
<1>2. item.id = "binding" =>
        (IF item.value # <<>> /\ \E m \in Modes : IsPrefix(item.value, m) THEN "2.04" ELSE "4.00") = "2.01"
  BY Zenon DEF Allowed
<1>3. item.id = "unknown" => Allowed("server", item) = "4.04"
  BY Zenon DEF Allowed
<1>4. item.id = "shortServerId" => Allowed("server", item) = "4.05"
  BY Zenon DEF Allowed
<1>5. prv_set_int_value(item.value) # "2.01"
  BY DEF prv_set_int_value
<1>6. QED BY <1>1, <1>2, <1>3, <1>4, <1>5, ItemsAre

\* What is left when the same position is taken out of lists alike elsewhere.
LEMMA SameRest ==
  ASSUME NEW a \in Seq(Instance), NEW b \in Seq(Instance), NEW x \in Seq(Instance),
         NEW y \in Seq(Instance), NEW k, NEW m, NEW n,
         Inserted(a, x, k, m), Inserted(b, y, k, n), Len(a) = Len(b),
         \A j \in DOMAIN a : j # k => a[j] = b[j]
  PROVE  x = y
<1>1. Len(x) = Len(y) /\ k \in 1 .. Len(x) + 1 /\ Len(a) = Len(x) + 1 /\ Len(x) \in Nat
  BY DEF Inserted
<1>2. ASSUME NEW j \in 1 .. Len(x)
      PROVE  x[j] = y[j]
  <2>1. CASE j < k
    <3>1. j \in DOMAIN a /\ j # k /\ j \in 1 .. k - 1
      BY <1>1, <2>1
    <3>2. QED BY <3>1 DEF Inserted
  <2>2. CASE ~(j < k)
    <3>1. j + 1 \in DOMAIN a /\ j + 1 # k /\ j \in k .. Len(x)
      BY <1>1, <2>2
    <3>2. a[j + 1] = x[j] /\ b[j + 1] = y[j]
      BY <1>1, <3>1 DEF Inserted
    <3>3. QED BY <3>1, <3>2
  <2>3. QED BY <2>1, <2>2
<1>3. QED BY <1>1, <1>2

Added(objs, id) == [objs EXCEPT !.server = lwm2m_list_add(@, New(id))]

\* The new instance is on the list, and is found there.
LEMMA AddedOK ==
  ASSUME NEW objs \in ObjectsType, Sorted(objs.server), NEW id \in Nat,
         \A j \in DOMAIN objs.server : objs.server[j].id # id
  PROVE  /\ Added(objs, id) \in ObjectsType /\ Sorted(Added(objs, id).server)
         /\ Added(objs, id).offset = objs.offset /\ Added(objs, id).firmware = objs.firmware
         /\ Len(Added(objs, id).server) = Len(objs.server) + 1
         /\ \E k \in 1 .. Len(objs.server) + 1 :
              /\ Inserted(Added(objs, id).server, objs.server, k, New(id))
              /\ lwm2m_list_find(Added(objs, id).server, id) = k
         /\ Exists(Added(objs, id), "server", id)
<1>1. New(id) \in Instance /\ New(id).id = id
  BY ObjectsAssumption DEF New, Instance
<1>2. objs.server \in Seq(Instance)
  BY DEF ObjectsType
<1> DEFINE l == lwm2m_list_add(objs.server, New(id))
<1>3. /\ l \in Seq(Instance) /\ Sorted(l)
      /\ \E k \in Nat : Inserted(l, objs.server, k, New(id))
  BY <1>1, <1>2, AddOK
<1> HIDE DEF l
<1>4. PICK k \in Nat : Inserted(l, objs.server, k, New(id))
  BY <1>3
<1>5. k \in 1 .. Len(objs.server) + 1 /\ Len(l) = Len(objs.server) + 1 /\ l[k].id = id
      /\ k \in DOMAIN l
  BY <1>1, <1>2, <1>3, <1>4 DEF Inserted
<1>6. lwm2m_list_find(l, id) = k
  BY <1>3, <1>5, FindOK
<1>7. Added(objs, id) = [objs EXCEPT !.server = l]
  BY DEF Added, l
<1>8. /\ Added(objs, id) \in ObjectsType /\ Added(objs, id).server = l
      /\ Added(objs, id).offset = objs.offset /\ Added(objs, id).firmware = objs.firmware
  BY <1>3, <1>7 DEF ObjectsType
<1>9. Exists(Added(objs, id), "server", id)
  BY <1>5, <1>6, <1>8 DEF Exists
<1>10. QED BY <1>3, <1>4, <1>5, <1>6, <1>8, <1>9

\* A creation adds one instance, without an account, or changes nothing.
LEMMA ServerCreateOK ==
  ASSUME NEW objs, Good(objs), Len(objs.server) < MaxInstances, NEW id \in Nat,
         \A j \in DOMAIN objs.server : objs.server[j].id # id,
         NEW items \in Seq(Items["server"])
  PROVE  LET r == prv_server_create(objs, id, items)
         IN  \/ r.code # "2.01" /\ r.objects = objs
             \/ /\ r.code = "2.01" /\ Good(r.objects) /\ Exists(r.objects, "server", id)
                /\ r.objects = WriteAll(Added(objs, id), "server", id, items).objects
                /\ \E k \in Nat : \E node \in Instance :
                     /\ Inserted(r.objects.server, objs.server, k, node)
                     /\ node.id = id /\ node.shortServerId = 0
<1>1. objs \in ObjectsType /\ Sorted(objs.server) /\ objs.server \in Seq(Instance)
      /\ Len(objs.server) \in Nat
  BY DEF Good, ObjectsType
<1> DEFINE a == Added(objs, id)
           b == Bad("server", items)
           w == WriteAll(a, "server", id, items)
<1>2. /\ a \in ObjectsType /\ Sorted(a.server)
      /\ a.offset = objs.offset /\ a.firmware = objs.firmware
      /\ Len(a.server) = Len(objs.server) + 1
      /\ Exists(a, "server", id)
  BY <1>1, AddedOK
<1>3. PICK k \in 1 .. Len(objs.server) + 1 :
        /\ Inserted(a.server, objs.server, k, New(id))
        /\ lwm2m_list_find(a.server, id) = k
  BY <1>1, AddedOK
<1> HIDE DEF a
<1>4. PICK o : /\ Writes(o, b - 1, a, "server", id, items)
               /\ w = [code |-> IF b > Len(items) THEN "2.04" ELSE Allowed("server", items[b]),
                       objects |-> o[b - 1]]
  BY <1>2, WriteAllOK DEF Writable
<1>5. b \in 1 .. Len(items) + 1 /\ (b <= Len(items) => Allowed("server", items[b]) # "2.04")
  BY BadOK
<1>6. w.objects \in Kept(a, "server", id)
  <2>1. b - 1 \in 0 .. b - 1
    BY <1>5
  <2>2. QED BY <1>4, <2>1 DEF Writes
<1>7. w.code # "2.01"
  BY <1>4, <1>5, NotCreated
<1>8. writeFunc([objs EXCEPT !.server = lwm2m_list_add(@, New(id))], "server", id, items) = w
  BY <1>2 DEF writeFunc, a, Added
<1> DEFINE r == prv_server_create(objs, id, items)
<1>9. r = IF w.code = "2.04" THEN [w EXCEPT !.code = "2.01"]
          ELSE [w EXCEPT !.objects = prv_server_delete(w.objects, id).objects]
  BY <1>8 DEF prv_server_create
<1> HIDE DEF r, b
<1>10. w = [code |-> w.code, objects |-> w.objects]
  BY <1>4
<1> DEFINE c == w.code
           v == w.objects
<1>11. r = IF c = "2.04" THEN [code |-> "2.01", objects |-> v]
           ELSE [code |-> c, objects |-> prv_server_delete(v, id).objects]
  BY <1>9, <1>10
<1> HIDE DEF w
<1>12. /\ v \in ObjectsType /\ v.server \in Seq(Instance) /\ a.server \in Seq(Instance)
       /\ Len(v.server) = Len(objs.server) + 1 /\ DOMAIN v.server = DOMAIN a.server
       /\ Sorted(v.server) /\ lwm2m_list_find(v.server, id) = k
       /\ k \in DOMAIN a.server
  <2>1. k \in DOMAIN a.server
    BY <1>1, <1>2, <1>3 DEF ObjectsType
  <2>2. QED BY <1>2, <1>3, <1>6, <2>1, KeptTypes, KeptFinds
<1>13. /\ v.offset = objs.offset /\ v.firmware = objs.firmware
       /\ \A j \in DOMAIN a.server : j # k => v.server[j] = a.server[j]
       /\ v.server[k].id = id /\ v.server[k].shortServerId = 0
  <2>1. \A j \in DOMAIN a.server : a.server[j].id = id <=> j = k
    BY <1>2, <1>3, ExistsOK
  <2>2. a.server[k] = New(id)
    BY <1>3 DEF Inserted
  <2>3. QED BY <1>2, <1>6, <1>12, <2>1, <2>2 DEF Kept, New
<1>14. CASE c = "2.04"
  <2>1. r.code = "2.01" /\ r.objects = v
    BY <1>11, <1>14
  <2>2. Good(v)
    BY <1>1, <1>12, ObjectsAssumption DEF Good
  <2>3. Exists(v, "server", id)
    BY <1>3, <1>12 DEF Exists
  <2>4. v.server[k] \in Instance
    BY <1>12
  <2>5. Inserted(v.server, objs.server, k, v.server[k])
    <3>1. Inserted(a.server, objs.server, k, New(id))
      BY <1>3
    <3>2. \A j \in 1 .. k - 1 : v.server[j] = objs.server[j]
      <4>1. \A j \in 1 .. k - 1 : j \in DOMAIN a.server /\ j # k
        BY <1>2, <1>3, <1>12
      <4>2. QED BY <1>13, <3>1, <4>1 DEF Inserted
    <3>3. \A j \in k .. Len(objs.server) : v.server[j + 1] = objs.server[j]
      <4>1. \A j \in k .. Len(objs.server) : j + 1 \in DOMAIN a.server /\ j + 1 # k
        BY <1>2, <1>3, <1>12
      <4>2. QED BY <1>13, <3>1, <4>1 DEF Inserted
    <3>4. QED BY <1>3, <1>12, <3>2, <3>3 DEF Inserted
  <2>6. k \in Nat
    BY <1>3
  <2>7. QED BY <1>13, <2>1, <2>2, <2>3, <2>4, <2>5, <2>6 DEF r, w, a
<1>15. CASE c # "2.04"
  <2> DEFINE l == lwm2m_list_remove(v.server, id)
  <2>1. l \in Seq(Instance) /\ Inserted(v.server, l, k, v.server[k])
    BY <1>12, <1>13, RemoveOK
  <2> HIDE DEF l
  <2>2. l = objs.server
    BY <1>1, <1>2, <1>3, <1>12, <1>13, <2>1, SameRest
  <2>3. prv_server_delete(v, id).objects = [v EXCEPT !.server = l]
    BY DEF prv_server_delete, l
  <2>4. [v EXCEPT !.server = l] = objs
    BY <1>1, <1>12, <1>13, <2>2 DEF ObjectsType
  <2>5. r.code # "2.01" /\ r.objects = objs
    BY <1>7, <1>11, <1>15, <2>3, <2>4
  <2>6. QED BY <2>5 DEF r
<1>16. QED BY <1>14, <1>15

\* A firmware update that starts is all that an execution changes.
LEMMA ExecuteOK ==
  ASSUME NEW objs, NEW object \in {"server", "device", "firmware", "sensor", "security"},
         NEW id, NEW resource, NEW payload
  PROVE  object_execute(objs, object, id, resource, payload).objects
           \in {objs, [objs EXCEPT !.firmware.state = 2]}
<1> DEFINE r == object_execute(objs, object, id, resource, payload)
<1>1. CASE object = "server"
  <2>1. r = prv_server_execute(objs, id, resource)
    BY <1>1, Zenon DEF object_execute
  <2>2. QED BY <2>1 DEF prv_server_execute
<1>2. CASE object = "device"
  <2>1. r = prv_device_execute(objs, id, resource, payload)
    BY <1>2, Zenon DEF object_execute
  <2>2. QED BY <2>1 DEF prv_device_execute
<1>3. CASE object = "firmware"
  <2>1. r = prv_firmware_execute(objs, id, resource, payload)
    BY <1>3, Zenon DEF object_execute
  <2>2. QED BY <2>1 DEF prv_firmware_execute
<1>4. CASE object = "sensor"
  <2>1. r = Refused(objs, "4.05")
    BY <1>4, Zenon DEF object_execute
  <2>2. QED BY <2>1 DEF Refused
<1>5. CASE object = "security"
  <2>1. r = Refused(objs, "4.04")
    BY <1>5, Zenon DEF object_execute
  <2>2. QED BY <2>1 DEF Refused
<1>6. QED BY <1>1, <1>2, <1>3, <1>4, <1>5

\* The ID a creation uses is on the list of no instance.
LEMMA FreeId ==
  ASSUME NEW objs, Good(objs), NEW id \in InstanceIds \cup {None},
         id # None => lwm2m_list_find(objs.server, id) = 0,
         NEW new, new = IF id = None THEN lwm2m_list_newId(objs.server) ELSE id
  PROVE  new \in Nat /\ \A j \in DOMAIN objs.server : objs.server[j].id # new
<1>1. objs.server \in Seq(Instance) /\ Sorted(objs.server)
  BY DEF Good, ObjectsType
<1>2. CASE id = None
  BY <1>1, <1>2, NewIdOK
<1>3. CASE id # None
  <2>1. new = id /\ id \in Nat
    BY <1>3, ObjectsAssumption
  <2>2. \A j \in DOMAIN objs.server : objs.server[j].id = id => lwm2m_list_find(objs.server, id) = j
    BY <1>1, <2>1, FindOK
  <2>3. \A j \in DOMAIN objs.server : j # 0
    BY <1>1
  <2>4. QED BY <1>3, <2>1, <2>2, <2>3
<1>4. QED BY <1>2, <1>3

\* What a creation leaves and is answered with.
LEMMA CreateOK ==
  ASSUME NEW objs, Good(objs), NEW object \in {"server", "device", "firmware", "sensor", "security"},
         NEW id \in InstanceIds \cup {None}, NEW payload \in Payloads(object)
  PROVE  LET r == object_create(objs, object, id, payload)
             new == IF id = None THEN lwm2m_list_newId(objs.server) ELSE id
         IN  \/ r.code # "2.01" /\ r.objects = objs
             \/ /\ r.code = "2.01" /\ Good(r.objects) /\ Exists(r.objects, "server", new)
                /\ object = "server" /\ new \in Nat
                /\ \A j \in DOMAIN objs.server : objs.server[j].id # new
                /\ payload \in Seq(Items["server"])
                /\ r.objects = WriteAll(Added(objs, new), "server", new, payload).objects
                /\ \E k \in Nat : \E node \in Instance :
                     /\ Inserted(r.objects.server, objs.server, k, node)
                     /\ node.id = new /\ node.shortServerId = 0
<1> DEFINE r == object_create(objs, object, id, payload)
           new == IF id = None THEN lwm2m_list_newId(objs.server) ELSE id
           passes == /\ payload \notin {None, <<>>} /\ object = "server"
                     /\ id # None => lwm2m_list_find(objs.server, id) = 0
                     /\ Len(objs.server) # MaxInstances
<1>1. CASE ~passes
  <2>1. r.code \in {"4.00", "4.04", "4.05", "4.06", "5.00"} /\ r.objects = objs
    BY <1>1 DEF object_create, Refused, Visible
  <2>2. QED BY <2>1
<1>2. CASE passes
  <2>1. r = prv_server_create(objs, new, payload)
    BY <1>2 DEF object_create, Visible
  <2>2. new \in Nat /\ \A j \in DOMAIN objs.server : objs.server[j].id # new
    BY <1>2, FreeId
  <2>3. payload \in Seq(Items["server"])
    BY <1>2, PayloadOK
  <2>4. Len(objs.server) < MaxInstances
    <3>1. Len(objs.server) <= MaxInstances /\ Len(objs.server) \in Nat
      BY DEF Good, ObjectsType
    <3>2. QED BY <1>2, <3>1, ObjectsAssumption
  <2> HIDE DEF new
  <2>5. \/ r.code # "2.01" /\ r.objects = objs
        \/ /\ r.code = "2.01" /\ Good(r.objects) /\ Exists(r.objects, "server", new)
           /\ r.objects = WriteAll(Added(objs, new), "server", new, payload).objects
           /\ \E k \in Nat : \E node \in Instance :
                /\ Inserted(r.objects.server, objs.server, k, node)
                /\ node.id = new /\ node.shortServerId = 0
    BY <2>1, <2>2, <2>3, <2>4, ServerCreateOK
  <2> HIDE DEF r
  <2>6. QED BY <1>2, <2>2, <2>3, <2>5 DEF new, r
<1>3. QED BY <1>1, <1>2

\* An insertion adds the node to the set of the nodes.
LEMMA InsertedSet ==
  ASSUME NEW list \in Seq(Instance), NEW more \in Seq(Instance), NEW k, NEW node,
         Inserted(more, list, k, node)
  PROVE  ToSet(more) = ToSet(list) \cup {node}
<1>1. k \in 1 .. Len(list) + 1 /\ Len(more) = Len(list) + 1 /\ Len(list) \in Nat
  BY DEF Inserted
<1>2. ASSUME NEW n \in DOMAIN more
      PROVE  more[n] \in ToSet(list) \cup {node}
  <2>1. n \in 1 .. Len(list) + 1
    BY <1>1
  <2>2. CASE n < k
    <3>1. n \in DOMAIN list /\ more[n] = list[n]
      BY <1>1, <2>1, <2>2 DEF Inserted
    <3>2. QED BY <3>1 DEF ToSet
  <2>3. CASE n = k
    BY <2>3 DEF Inserted
  <2>4. CASE n > k
    <3>1. n - 1 \in k .. Len(list) /\ n - 1 \in DOMAIN list /\ (n - 1) + 1 = n
      BY <1>1, <2>1, <2>4
    <3>2. more[n] = list[n - 1]
      BY <3>1 DEF Inserted
    <3>3. QED BY <3>1, <3>2 DEF ToSet
  <2>5. QED BY <1>1, <2>1, <2>2, <2>3, <2>4
<1>3. ASSUME NEW n \in DOMAIN list
      PROVE  list[n] \in ToSet(more)
  <2>1. n \in 1 .. Len(list)
    OBVIOUS
  <2>2. CASE n < k
    <3>1. n \in DOMAIN more /\ more[n] = list[n]
      BY <1>1, <2>1, <2>2 DEF Inserted
    <3>2. QED BY <3>1 DEF ToSet
  <2>3. CASE n >= k
    <3>1. n + 1 \in DOMAIN more /\ more[n + 1] = list[n]
      BY <1>1, <2>1, <2>3 DEF Inserted
    <3>2. QED BY <3>1 DEF ToSet
  <2>4. QED BY <1>1, <2>1, <2>2, <2>3
<1>4. node \in ToSet(more)
  <2>1. k \in DOMAIN more /\ more[k] = node
    BY <1>1 DEF Inserted
  <2>2. QED BY <2>1 DEF ToSet
<1>5. QED BY <1>2, <1>3, <1>4 DEF ToSet

\* A deletion takes out the instance and keeps the list in order.
LEMMA DeleteOK ==
  ASSUME NEW objs, Good(objs), NEW object, NEW id \in Nat
  PROVE  LET r == object_delete(objs, object, id).objects
         IN  /\ Good(r) /\ AccountKept(r, objs)
             /\ object = "server" => \A j \in DOMAIN r.server : r.server[j].id # id
<1>1. /\ objs.server \in Seq(Instance) /\ Sorted(objs.server) /\ Len(objs.server) <= MaxInstances
      /\ objs \in ObjectsType
  BY DEF Good, ObjectsType
<1> DEFINE r == object_delete(objs, object, id).objects
           l == lwm2m_list_remove(objs.server, id)
<1>2. CASE object # "server"
  <2>1. r = objs
    BY <1>2 DEF object_delete, Refused
  <2> HIDE DEF r
  <2>2. QED BY <1>2, <2>1 DEF AccountKept, r
<1>3. CASE object = "server"
  <2>1. r = [objs EXCEPT !.server = l]
    BY <1>3 DEF object_delete, prv_server_delete, Visible
  <2>2. CASE \A j \in DOMAIN objs.server : objs.server[j].id # id
    <3>1. l = objs.server
      BY <1>1, <2>2, RemoveOK
    <3>2. r = objs
      BY <1>1, <2>1, <3>1 DEF ObjectsType
    <3> HIDE DEF r
    <3>3. QED BY <2>2, <3>2 DEF AccountKept, r
  <2>3. ASSUME NEW k \in DOMAIN objs.server, objs.server[k].id = id
        PROVE  Good(r) /\ AccountKept(r, objs) /\ \A j \in DOMAIN r.server : r.server[j].id # id
    <3>1. l \in Seq(Instance) /\ Inserted(objs.server, l, k, objs.server[k])
      BY <1>1, <2>3, RemoveOK
    <3> HIDE DEF l
    <3>2. Sorted(l)
      BY <1>1, <3>1, RemovedSorted
    <3>3. Len(l) <= MaxInstances
      BY <1>1, <3>1, ObjectsAssumption DEF Inserted
    <3>4. r \in ObjectsType /\ r.server = l
      BY <1>1, <2>1, <3>1 DEF ObjectsType
    <3> HIDE DEF r
    <3>5. AccountKept(r, objs)
      <4>1. ToSet(objs.server) = ToSet(l) \cup {objs.server[k]}
        BY <1>1, <3>1, InsertedSet
      <4>2. QED BY <3>4, <4>1 DEF AccountKept
    <3>6. ASSUME NEW j \in DOMAIN l
          PROVE  l[j].id # id
      <4>1. /\ k \in 1 .. Len(l) + 1 /\ Len(objs.server) = Len(l) + 1 /\ j \in 1 .. Len(l)
        BY <3>1 DEF Inserted
      <4>2. CASE j < k
        <5>1. j \in DOMAIN objs.server /\ l[j] = objs.server[j]
          BY <1>1, <3>1, <4>1, <4>2 DEF Inserted
        <5>2. QED BY <1>1, <2>3, <4>2, <5>1, InstanceId DEF Sorted
      <4>3. CASE j >= k
        <5>1. j + 1 \in DOMAIN objs.server /\ l[j] = objs.server[j + 1] /\ k < j + 1
          BY <1>1, <3>1, <4>1, <4>3 DEF Inserted
        <5>2. QED BY <1>1, <2>3, <5>1, InstanceId DEF Sorted
      <4>4. QED BY <4>1, <4>2, <4>3
    <3>7. QED BY <3>2, <3>3, <3>4, <3>5, <3>6 DEF Good
  <2>4. QED BY <2>2, <2>3
<1>4. QED BY <1>2, <1>3

\* Every request keeps the objects in order.
LEMMA HandleOK ==
  ASSUME NEW objs, Good(objs), NEW req \in Requests
  PROVE  LET r == handle_dm_request(objs, req).objects
         IN  Good(r) /\ AccountKept(r, objs)
<1> DEFINE r == handle_dm_request(objs, req).objects
<1>1. /\ req.method \in {"GET", "POST", "PUT", "DELETE"}
      /\ req.object \in {"server", "device", "firmware", "sensor", "security"}
      /\ req.instance \in InstanceIds \cup {None}
      /\ req.payload \in Payloads(req.object)
      /\ req.instance # None => req.instance \in Nat
  BY RequestOK, ObjectsAssumption
<1>2. ASSUME r = objs
      PROVE  Good(r) /\ AccountKept(r, objs)
  BY <1>2 DEF AccountKept
<1>3. CASE req.method = "GET"
  <2>1. handle_dm_request(objs, req) = object_read(objs, req.object, req.instance, req.resource)
    BY <1>3, HandleIs
  <2>2. r = objs
    BY <2>1 DEF object_read, Refused
  <2>3. QED BY <1>2, <2>2
<1>4. CASE req.method = "POST" /\ req.resource # None
  <2>1. handle_dm_request(objs, req) =
          object_execute(objs, req.object, req.instance, req.resource, req.payload)
    BY <1>4, HandleIs
  <2>2. r \in {objs, [objs EXCEPT !.firmware.state = 2]}
    BY <1>1, <2>1, ExecuteOK
  <2> HIDE DEF r
  <2>3. CASE r = [objs EXCEPT !.firmware.state = 2]
    <3>1. objs \in ObjectsType /\ Sorted(objs.server) /\ Len(objs.server) <= MaxInstances
      BY DEF Good
    <3>2. r \in ObjectsType /\ r.server = objs.server
      BY <2>3, <3>1 DEF ObjectsType
    <3>3. QED BY <3>1, <3>2 DEF Good, AccountKept, r
  <2>4. QED BY <1>2, <2>2, <2>3 DEF r
<1>5. CASE req.method = "POST" /\ req.resource = None
  <2>1. handle_dm_request(objs, req) =
          IF req.instance = None \/ object_isInstanceNew(objs, req.object, req.instance)
            THEN object_create(objs, req.object, req.instance, req.payload)
            ELSE object_write(objs, req.object, req.instance, req.payload)
    BY <1>5, HandleIs
  <2>2. CASE req.instance = None \/ object_isInstanceNew(objs, req.object, req.instance)
    <3>1. r = object_create(objs, req.object, req.instance, req.payload).objects
      BY <2>1, <2>2
    <3>2. CASE r = objs
      BY <1>2, <3>2
    <3>3. CASE r # objs
      <4>1. Good(r) /\ \E k \in Nat : \E node \in Instance :
              Inserted(r.server, objs.server, k, node) /\ node.shortServerId = 0
        BY <1>1, <3>1, <3>3, CreateOK
      <4> HIDE DEF r
      <4>2. PICK k \in Nat, node \in Instance :
              Inserted(r.server, objs.server, k, node) /\ node.shortServerId = 0
        BY <4>1
      <4>3. ToSet(r.server) = ToSet(objs.server) \cup {node}
        BY <4>1, <4>2, InsertedSet DEF Good, ObjectsType
      <4>4. AccountKept(r, objs)
        BY <4>2, <4>3, ObjectsAssumption DEF AccountKept
      <4>5. QED BY <4>1, <4>4 DEF r
    <3>4. QED BY <3>2, <3>3
  <2>3. CASE ~(req.instance = None \/ object_isInstanceNew(objs, req.object, req.instance))
    <3>1. r = object_write(objs, req.object, req.instance, req.payload).objects
      BY <2>1, <2>3
    <3>2. QED BY <1>1, <2>3, <3>1, WriteOK
  <2>4. QED BY <2>2, <2>3
<1>6. CASE req.method = "PUT" /\ req.instance # None
  <2>1. r = object_write(objs, req.object, req.instance, req.payload).objects
    BY <1>6, HandleIs
  <2>2. QED BY <1>1, <1>6, <2>1, WriteOK
<1>7. CASE req.method = "DELETE" /\ req.instance # None /\ req.resource = None
  <2>1. r = object_delete(objs, req.object, req.instance).objects
    BY <1>7, HandleIs
  <2>2. QED BY <1>1, <1>7, <2>1, DeleteOK
<1>8. CASE \/ req.method = "PUT" /\ req.instance = None
           \/ req.method = "DELETE" /\ ~(req.instance # None /\ req.resource = None)
  <2>1. handle_dm_request(objs, req) = Refused(objs, "4.00")
    BY <1>8, HandleIs
  <2>2. r = objs
    BY <2>1 DEF Refused
  <2>3. QED BY <1>2, <2>2
<1>9. QED BY <1>1, <1>3, <1>4, <1>5, <1>6, <1>7, <1>8

-----------------------------------------------------------------------------
(* The order of the instance list. *)

\* The objects main.cpp makes.
LEMMA InitOK == Init => Good(objects)
<1> SUFFICES ASSUME Init PROVE Good(objects)
  OBVIOUS
<1> DEFINE b == <<"U">>
           n0 == New(0)
           n1 == [n0 EXCEPT !.shortServerId = ShortId]
           n2 == [n1 EXCEPT !.lifetime = LifetimeSet]
           node == [n2 EXCEPT !.binding = b]
<1>1. node \in Instance
  <2>1. b \in Seq({"U", "Q", "S"})
    OBVIOUS
  <2>2. n0 \in Instance
    BY ObjectsAssumption DEF New, Instance
  <2> HIDE DEF b, n0
  <2>3. n1 \in Instance
    BY <2>2, ObjectsAssumption DEF Instance
  <2> HIDE DEF n1
  <2>4. n2 \in Instance
    BY <2>3, ObjectsAssumption DEF Instance
  <2> HIDE DEF n2
  <2>5. QED BY <2>1, <2>4 DEF Instance
<1>2. objects = [server |-> <<node>>, offset |-> 0, firmware |-> [state |-> 1, supported |-> 0]]
  BY DEF Init
<1> HIDE DEF node
<1>3. <<node>> \in Seq(Instance) /\ Len(<<node>>) = 1 /\ Sorted(<<node>>)
  BY <1>1 DEF Sorted
<1>4. objects \in ObjectsType /\ objects.server = <<node>>
  BY <1>2, <1>3 DEF ObjectsType
<1>5. QED BY <1>3, <1>4, ObjectsAssumption DEF Good

\* The inductive invariant: the types, and the order of the instance list.
LEMMA InOrder == Spec => []Good(objects)
<1>1. Good(objects) /\ [Next]_vars => Good(objects')
  BY HandleOK DEF Next, Handle, vars
<1>2. Good(objects') <=> Good(objects)'
  BY DEF Good, Sorted, ObjectsType
<1>3. QED BY <1>1, <1>2, InitOK, PTL DEF Spec

\* The types of the three objects, and no more instances than there is memory for.
THEOREM ObjectsTypeCorrect == Spec => []TypeOK
<1>1. Good(objects) => TypeOK
  BY DEF Good, ObjectsType, TypeOK
<1>2. QED BY <1>1, InOrder, PTL

\* Each instance of the Server object is found at its place by the searches of
\* list.c, whatever servers create and delete: lwm2m_list_add and
\* lwm2m_list_remove keep the list sorted, without an ID twice.
THEOREM InstancesFound == Spec => []EveryInstanceFound
<1>1. Good(objects) => EveryInstanceFound
  <2> SUFFICES ASSUME Good(objects), NEW i \in DOMAIN objects.server
               PROVE  lwm2m_list_find(objects.server, objects.server[i].id) = i
    BY DEF EveryInstanceFound
  <2>1. objects.server \in Seq(Instance) /\ Sorted(objects.server)
    BY DEF Good, ObjectsType
  <2>2. QED BY <2>1, InstanceId, FindOK
<1>2. QED BY <1>1, InOrder, PTL

\* The answer to a creation is the truth: one instance more, under a free ID, or
\* nothing changed (object_create, prv_server_create).  The refused instance is
\* taken off by prv_server_delete from the place it was put in.
THEOREM CreationsTold == Spec => []CreatedOrUntouched
<1>1. Good(objects) => CreatedOrUntouched
  <2> SUFFICES ASSUME Good(objects), NEW id \in InstanceIds \cup {None}, NEW payload \in Payloads("server")
               PROVE  LET r == object_create(objects, "server", id, payload)
                      IN  IF r.code = "2.01"
                            THEN \E new \in ToSet(r.objects.server) :
                                   /\ id \in {None, new.id}
                                   /\ \A s \in ToSet(objects.server) : s.id # new.id
                                   /\ ToSet(r.objects.server) = ToSet(objects.server) \cup {new}
                            ELSE r.objects = objects
    BY DEF CreatedOrUntouched
  <2> DEFINE r == object_create(objects, "server", id, payload)
             free == IF id = None THEN lwm2m_list_newId(objects.server) ELSE id
  <2>1. CASE r.code # "2.01"
    <3>1. r.objects = objects
      BY <2>1, CreateOK
    <3>2. QED BY <2>1, <3>1
  <2>2. CASE r.code = "2.01"
    <3>1. /\ Good(r.objects)
          /\ \A j \in DOMAIN objects.server : objects.server[j].id # free
          /\ \E k \in Nat : \E node \in Instance :
               Inserted(r.objects.server, objects.server, k, node) /\ node.id = free
      BY <2>2, CreateOK
    <3>2. PICK k \in Nat, node \in Instance :
            Inserted(r.objects.server, objects.server, k, node) /\ node.id = free
      BY <3>1
    <3> HIDE DEF r
    <3>3. ToSet(r.objects.server) = ToSet(objects.server) \cup {node}
      BY <3>1, <3>2, InsertedSet DEF Good, ObjectsType
    <3>4. \A s \in ToSet(objects.server) : s.id # node.id
      BY <3>1, <3>2 DEF ToSet
    <3>5. id \in {None, node.id}
      BY <3>2
    <3>6. QED BY <2>2, <3>3, <3>4, <3>5 DEF r
  <2>3. QED BY <2>1, <2>2
<1>2. QED BY <1>1, InOrder, PTL

\* No write, creation or deletion lets an instance take over the account of the
\* Security object: the short server ID is never written, and new instances have none.
THEOREM AccountSafe == Spec => AccountNotTakenOver
<1>1. Good(objects) /\ [Next]_vars =>
        [\A s \in ToSet(objects'.server) : s.shortServerId = ShortId =>
           \E t \in ToSet(objects.server) : t.id = s.id /\ t.shortServerId = ShortId]_vars
  <2> SUFFICES ASSUME Good(objects), Next
               PROVE  \A s \in ToSet(objects'.server) : s.shortServerId = ShortId =>
                        \E t \in ToSet(objects.server) : t.id = s.id /\ t.shortServerId = ShortId
    OBVIOUS
  <2>1. AccountKept(objects', objects)
    BY HandleOK DEF Next, Handle
  <2>2. QED BY <2>1 DEF AccountKept
<1>2. QED BY <1>1, InOrder, PTL DEF Spec, AccountNotTakenOver

-----------------------------------------------------------------------------
(* Writes that are refused. *)

\* A write goes one way only.
LEMMA OneWay ==
  ASSUME NEW m \in Nat, NEW objs, NEW object, NEW id, NEW x, NEW y, NEW a, NEW b,
         Writes(a, m, objs, object, id, x), Writes(b, m, objs, object, id, y),
         \A n \in 1 .. m : x[n] = y[n]
  PROVE  \A n \in 0 .. m : a[n] = b[n]
<1> DEFINE S == {n \in 0 .. m : a[n] = b[n]}
<1>1. 0 \in S
  BY DEF Writes
<1>2. ASSUME NEW n \in S, n < m
      PROVE  n + 1 \in S
  <2>1. n + 1 \in 1 .. m /\ (n + 1) - 1 = n /\ a[n] = b[n]
    BY <1>2
  <2>2. a[n + 1] = Written(a[n], object, id, x[n + 1]) /\ b[n + 1] = Written(b[n], object, id, y[n + 1])
    BY <2>1 DEF Writes
  <2>3. QED BY <2>1, <2>2
<1>3. \A n \in 0 .. m : n \in S
  <2> HIDE DEF S
  <2>1. QED BY <1>1, <1>2, Upwards
<1>4. QED BY <1>3

One(item) == <<item>>

\* A write of a single resource, under a name of its own.
LEMMA OneOK ==
  ASSUME NEW S, NEW item \in S
  PROVE  One(item) \in Seq(S) /\ Len(One(item)) = 1 /\ One(item)[1] = item
BY DEF One

\* The resources before one of them.
LEMMA PrefixOK ==
  ASSUME NEW S, NEW items \in Seq(S), NEW m \in 0 .. Len(items)
  PROVE  /\ SubSeq(items, 1, m) \in Seq(S) /\ Len(SubSeq(items, 1, m)) = m
         /\ \A n \in 1 .. m : SubSeq(items, 1, m)[n] = items[n]
OBVIOUS

\* A write of one resource.
LEMMA AloneOK ==
  ASSUME NEW objs \in ObjectsType, Sorted(objs.server), NEW id \in Nat, NEW object \in Writable,
         Exists(objs, object, id), NEW item \in Items[object]
  PROVE  writeFunc(objs, object, id, One(item)) =
           [code |-> Allowed(object, item),
            objects |-> IF Allowed(object, item) = "2.04" THEN Written(objs, object, id, item) ELSE objs]
<1> DEFINE x == One(item)
<1>1. x \in Seq(Items[object]) /\ Len(x) = 1 /\ x[1] = item
  BY OneOK
<1> HIDE DEF x
<1> DEFINE b == Bad(object, x)
<1>2. b \in 1 .. 2 /\ (b = 2 <=> Allowed(object, item) = "2.04")
  <2>1. /\ b \in 1 .. Len(x) + 1
        /\ \A i \in 1 .. b - 1 : Allowed(object, x[i]) = "2.04"
        /\ b <= Len(x) => Allowed(object, x[b]) # "2.04"
    BY <1>1, BadOK
  <2> HIDE DEF b
  <2>2. QED BY <1>1, <2>1
<1>3. PICK o : /\ Writes(o, b - 1, objs, object, id, x)
               /\ WriteAll(objs, object, id, x) =
                    [code |-> IF b > Len(x) THEN "2.04" ELSE Allowed(object, x[b]), objects |-> o[b - 1]]
  BY <1>1, WriteAllOK
<1> HIDE DEF b
<1>4. writeFunc(objs, object, id, x) = WriteAll(objs, object, id, x)
  BY DEF writeFunc
<1>5. CASE b = 1
  <2>1. o[0] = objs
    BY <1>3 DEF Writes
  <2>2. QED BY <1>1, <1>2, <1>3, <1>4, <1>5, <2>1 DEF x
<1>6. CASE b = 2
  <2>1. o[0] = objs /\ o[1] = Written(o[0], object, id, x[1])
    BY <1>3, <1>6 DEF Writes
  <2>2. QED BY <1>1, <1>2, <1>3, <1>4, <1>6, <2>1 DEF x
<1>7. QED BY <1>2, <1>5, <1>6

\* A refused write leaves what a write of the resources before the first
\* unacceptable one leaves, and its answer is that one's (the loops of
\* prv_server_write, prv_device_write and prv_firmware_write).
THEOREM RefusedWritesKeep == Spec => []RefusedWriteKeepsBeginning
<1>1. ASSUME Good(objects), NEW object \in Writable, NEW id \in InstanceIds,
             NEW items \in Payloads(object) \ {None, <<>>}, Exists(objects, object, id)
      PROVE  LET Alone(i) == writeFunc(objects, object, id, <<items[i]>>).code
                 bad == Min({i \in 1 .. Len(items) : Alone(i) # "2.04"} \cup {Len(items) + 1})
                 OneByOne[n \in 0 .. Len(items)] ==
                   IF n = 0 THEN objects ELSE writeFunc(OneByOne[n - 1], object, id, <<items[n]>>).objects
             IN  writeFunc(objects, object, id, items) =
                   IF bad > Len(items) THEN [code |-> "2.04", objects |-> OneByOne[Len(items)]]
                   ELSE [code |-> Alone(bad),
                         objects |-> writeFunc(objects, object, id, SubSeq(items, 1, bad - 1)).objects]
  <2> DEFINE N == Len(items)
             Alone(i) == writeFunc(objects, object, id, One(items[i])).code
             bad == Min({i \in 1 .. N : Alone(i) # "2.04"} \cup {N + 1})
             Goes(g) == g = [n \in 0 .. N |->
                               IF n = 0 THEN objects
                               ELSE writeFunc(g[n - 1], object, id, One(items[n])).objects]
             OneByOne == CHOOSE g : Goes(g)
             prefix == SubSeq(items, 1, bad - 1)
             b == Bad(object, items)
  <2>1. /\ objects \in ObjectsType /\ Sorted(objects.server) /\ id \in Nat
        /\ items \in Seq(Items[object]) /\ N \in Nat
    BY <1>1, PayloadOK, ObjectsAssumption DEF Good
  <2>2. \A i \in 1 .. N : Alone(i) = Allowed(object, items[i])
    <3> SUFFICES ASSUME NEW i \in 1 .. N PROVE Alone(i) = Allowed(object, items[i])
      OBVIOUS
    <3>1. items[i] \in Items[object]
      BY <2>1
    <3>2. QED BY <1>1, <2>1, <3>1, AloneOK
  <2>3. bad = b
    BY <2>2 DEF Bad
  <2>4. /\ b \in 1 .. N + 1
        /\ \A i \in 1 .. b - 1 : Allowed(object, items[i]) = "2.04"
        /\ b <= N => Allowed(object, items[b]) # "2.04"
    BY <2>1, BadOK
  <2>5. PICK o : /\ Writes(o, b - 1, objects, object, id, items)
                 /\ WriteAll(objects, object, id, items) =
                      [code |-> IF b > N THEN "2.04" ELSE Allowed(object, items[b]), objects |-> o[b - 1]]
    BY <1>1, <2>1, WriteAllOK
  <2> HIDE DEF b, bad, Alone, OneByOne, Goes, prefix
  <2>6. writeFunc(objects, object, id, items) = WriteAll(objects, object, id, items)
    BY <1>1 DEF writeFunc
  <2>7. CASE b > N
    <3>1. b - 1 = N /\ Writes(o, N, objects, object, id, items)
      BY <2>1, <2>4, <2>5, <2>7
    <3>2. o \in [0 .. N -> Kept(objects, object, id)] /\ o[0] = objects
      BY <3>1 DEF Writes
    <3>3. ASSUME NEW n \in 1 .. N, NEW c, c = o[n - 1]
          PROVE  writeFunc(c, object, id, One(items[n])).objects = Written(c, object, id, items[n])
      <4>1. c \in Kept(objects, object, id) /\ items[n] \in Items[object]
        BY <2>1, <3>2, <3>3
      <4>2. /\ c \in ObjectsType /\ Sorted(c.server) /\ Exists(c, object, id)
        BY <1>1, <2>1, <4>1, KeptTypes, KeptFinds DEF Exists
      <4>3. Allowed(object, items[n]) = "2.04"
        BY <2>4, <3>1
      <4>4. ASSUME NEW item \in Items[object], Allowed(object, item) = "2.04"
            PROVE  writeFunc(c, object, id, One(item)).objects = Written(c, object, id, item)
        <5>1. writeFunc(c, object, id, One(item)) =
                [code |-> Allowed(object, item),
                 objects |-> IF Allowed(object, item) = "2.04" THEN Written(c, object, id, item) ELSE c]
          BY <2>1, <4>2, AloneOK
        <5>2. QED BY <4>4, <5>1
      <4>5. QED BY <4>1, <4>3, <4>4
    <3>4. \A n \in 1 .. N : o[n] = writeFunc(o[n - 1], object, id, One(items[n])).objects
      BY <3>1, <3>3 DEF Writes
    <3>5. Goes(o)
      BY <3>2, <3>4 DEF Goes
    <3>6. Goes(OneByOne)
      BY <3>5 DEF OneByOne
    <3>7. \A n \in 0 .. N : OneByOne[n] = IF n = 0 THEN objects
            ELSE writeFunc(OneByOne[n - 1], object, id, One(items[n])).objects
      BY <3>6 DEF Goes
    <3> DEFINE S == {n \in 0 .. N : OneByOne[n] = o[n]}
    <3>8. \A n \in 0 .. N : n \in S
      <4>1. 0 \in S
        BY <2>1, <3>2, <3>7
      <4>2. ASSUME NEW n \in S, n \in Nat /\ n < N
            PROVE  n + 1 \in S
        <5>1. n + 1 \in 1 .. N /\ n + 1 \in 0 .. N /\ n + 1 # 0 /\ (n + 1) - 1 = n /\ OneByOne[n] = o[n]
          BY <2>1, <4>2
        <5>2. OneByOne[n + 1] = writeFunc(OneByOne[n], object, id, One(items[n + 1])).objects
          BY <3>7, <5>1
        <5>3. o[n + 1] = writeFunc(o[n], object, id, One(items[n + 1])).objects
          BY <3>4, <5>1
        <5>4. QED BY <5>1, <5>2, <5>3
      <4> HIDE DEF S, N
      <4>3. QED BY <2>1, <4>1, <4>2, Upwards
    <3>9. OneByOne[N] = o[N]
      BY <2>1, <3>8
    <3>10. writeFunc(objects, object, id, items) = [code |-> "2.04", objects |-> OneByOne[N]] /\ bad > N
      BY <2>3, <2>5, <2>6, <2>7, <3>1, <3>9
    <3>11. QED BY <3>10 DEF bad, Alone, OneByOne, Goes, One
  <2>8. CASE b <= N
    <3>1. /\ prefix \in Seq(Items[object]) /\ Len(prefix) = b - 1
          /\ \A n \in 1 .. b - 1 : prefix[n] = items[n]
      <4>1. b - 1 \in 0 .. N /\ prefix = SubSeq(items, 1, b - 1)
        BY <2>1, <2>3, <2>4, <2>8 DEF prefix
      <4>2. QED BY <2>1, <4>1, PrefixOK
    <3>2. Bad(object, prefix) = b
      <4>1. /\ Bad(object, prefix) \in 1 .. b
            /\ Bad(object, prefix) <= b - 1 => Allowed(object, prefix[Bad(object, prefix)]) # "2.04"
        BY <2>4, <3>1, BadOK
      <4>2. QED BY <2>4, <3>1, <4>1
    <3>3. PICK p : /\ Writes(p, b - 1, objects, object, id, prefix)
                   /\ WriteAll(objects, object, id, prefix).objects = p[b - 1]
      BY <1>1, <2>1, <3>1, <3>2, WriteAllOK
    <3>4. p[b - 1] = o[b - 1]
      <4>1. b - 1 \in Nat /\ b - 1 \in 0 .. b - 1
        BY <2>4
      <4>2. QED BY <2>5, <3>1, <3>3, <4>1, OneWay
    <3>5. writeFunc(objects, object, id, prefix).objects = o[b - 1]
      BY <1>1, <3>3, <3>4 DEF writeFunc
    <3>6. Alone(b) = Allowed(object, items[b])
      BY <2>2, <2>4, <2>8
    <3>7. writeFunc(objects, object, id, items) =
            [code |-> Alone(bad), objects |-> writeFunc(objects, object, id, prefix).objects]
      BY <2>1, <2>3, <2>4, <2>5, <2>6, <2>8, <3>5, <3>6
    <3>8. ~(bad > N)
      BY <2>1, <2>3, <2>4, <2>8
    <3>9. QED BY <3>7, <3>8 DEF bad, Alone, prefix, One
  <2>9. QED BY <2>1, <2>4, <2>7, <2>8
<1>2. Good(objects) => RefusedWriteKeepsBeginning
  <2>1. InstanceIds \subseteq Nat
    BY ObjectsAssumption
  <2>2. QED BY <1>1 DEF RefusedWriteKeepsBeginning, Writable
<1>3. QED BY <1>2, InOrder, PTL

-----------------------------------------------------------------------------
(* Writes and requests that are repeated. *)

\* f overwrites a cell with val[n] in each round n of C.
Over(f, N, C, val) == \A n \in 1 .. N : f[n] = IF n \in C THEN val[n] ELSE f[n - 1]

\* Whatever is written over, writing it again changes nothing.
LEMMA Overwrites ==
  ASSUME NEW N \in Nat, NEW f, NEW g, NEW C, NEW val, Over(f, N, C, val), Over(g, N, C, val),
         g[0] = f[N]
  PROVE  g[N] = f[N]
<1> DEFINE S == {n \in 0 .. N : g[n] = f[n] \/ g[n] = f[N]}
<1>1. 0 \in S
  OBVIOUS
<1>2. ASSUME NEW n \in S, n < N
      PROVE  n + 1 \in S
  <2>1. n + 1 \in 1 .. N /\ (n + 1) - 1 = n
    BY <1>2
  <2>2. /\ f[n + 1] = IF n + 1 \in C THEN val[n + 1] ELSE f[n]
        /\ g[n + 1] = IF n + 1 \in C THEN val[n + 1] ELSE g[n]
    BY <2>1 DEF Over
  <2>3. QED BY <2>1, <2>2
<1>3. \A n \in 0 .. N : n \in S
  <2> HIDE DEF S
  <2>1. QED BY <1>1, <1>2, Upwards
<1>4. QED BY <1>3

\* A scalar and a letter of the binding in the course of a write.
ScalarOf(o, m, k, s) == [n \in 0 .. m |-> Scalars(o[n], k)[s]]
LetterOf(o, m, k, p) == [n \in 0 .. m |-> Letter(o[n].server[k].binding, p)]
CoversScalar(items, m, s) == {n \in 1 .. m : items[n].id = s}
CoversLetter(items, m, p) == {n \in 1 .. m : items[n].id = "binding" /\ p <= Len(items[n].value)}
ValueOf(items, m) == [n \in 1 .. m |-> items[n].value]
LetterAt(items, m, p) == [n \in 1 .. m |-> items[n].value[p]]

\* Each round of a write overwrites the cells its resource covers.
LEMMA CourseCells ==
  ASSUME NEW objs \in ObjectsType, Sorted(objs.server), NEW id \in Nat, NEW object \in Writable,
         Exists(objs, object, id), NEW items \in Seq(Items[object]), NEW m \in 0 .. Len(items),
         \A i \in 1 .. m : Allowed(object, items[i]) = "2.04",
         NEW o, Writes(o, m, objs, object, id, items), NEW k, k = lwm2m_list_find(objs.server, id)
  PROVE  /\ \A s \in Names : Over(ScalarOf(o, m, k, s), m, CoversScalar(items, m, s), ValueOf(items, m))
         /\ \A p \in Nat \ {0} :
              Over(LetterOf(o, m, k, p), m, CoversLetter(items, m, p), LetterAt(items, m, p))
<1>1. ASSUME NEW n \in 1 .. m
      PROVE  /\ \A s \in Names : Scalars(o[n], k)[s] =
                  IF items[n].id = s THEN items[n].value ELSE Scalars(o[n - 1], k)[s]
             /\ \A p \in Nat \ {0} : Letter(o[n].server[k].binding, p) =
                  IF items[n].id = "binding" /\ p <= Len(items[n].value) THEN items[n].value[p]
                  ELSE Letter(o[n - 1].server[k].binding, p)
  <2>1. n \in 1 .. Len(items) /\ n - 1 \in 0 .. m
    OBVIOUS
  <2>2. items[n] \in Items[object] /\ Allowed(object, items[n]) = "2.04"
    BY <2>1
  <2>3. o[n - 1] \in Kept(objs, object, id) /\ o[n] = Written(o[n - 1], object, id, items[n])
    BY <2>1 DEF Writes
  <2>4. QED BY <2>2, <2>3, WrittenOK
<1>2. ASSUME NEW n \in 1 .. m
      PROVE  n \in 0 .. m /\ n - 1 \in 0 .. m
  OBVIOUS
<1>3. QED BY <1>1, <1>2 DEF Over, ScalarOf, LetterOf, CoversScalar, CoversLetter, ValueOf, LetterAt

\* A write that is repeated changes nothing.
LEMMA WriteTwice ==
  ASSUME NEW objs \in ObjectsType, Sorted(objs.server), NEW id \in Nat, NEW object \in Writable,
         Exists(objs, object, id), NEW items \in Seq(Items[object])
  PROVE  LET r == WriteAll(objs, object, id, items).objects
         IN  /\ r \in Kept(objs, object, id)
             /\ WriteAll(r, object, id, items).objects = r
<1> DEFINE r == WriteAll(objs, object, id, items).objects
           t == WriteAll(r, object, id, items).objects
           b == Bad(object, items)
           k == lwm2m_list_find(objs.server, id)
           m == b - 1
<1>1. /\ b \in 1 .. Len(items) + 1 /\ m \in 0 .. Len(items) /\ m \in 0 .. m /\ 0 \in 0 .. m
      /\ \A i \in 1 .. m : Allowed(object, items[i]) = "2.04"
  BY BadOK
<1>2. PICK f : Writes(f, m, objs, object, id, items) /\ r = f[m]
  BY WriteAllOK
<1> HIDE DEF b
<1>3. r \in Kept(objs, object, id)
  BY <1>1, <1>2 DEF Writes
<1> HIDE DEF r
<1>4. /\ r \in ObjectsType /\ Sorted(r.server) /\ Exists(r, object, id)
      /\ k = lwm2m_list_find(r.server, id)
  BY <1>3, KeptTypes, KeptFinds DEF Exists
<1>5. PICK g : Writes(g, m, r, object, id, items) /\ t = g[m]
  BY <1>4, WriteAllOK DEF b
<1> HIDE DEF t, m, k
<1>6. t \in Kept(r, object, id) /\ r \in Kept(r, object, id) /\ g[0] = r
  BY <1>1, <1>4, <1>5, KeptSelf DEF Writes
<1>7. /\ \A s \in Names : Over(ScalarOf(f, m, k, s), m, CoversScalar(items, m, s), ValueOf(items, m))
      /\ \A p \in Nat \ {0} :
           Over(LetterOf(f, m, k, p), m, CoversLetter(items, m, p), LetterAt(items, m, p))
  BY <1>1, <1>2, CourseCells DEF k
<1>8. /\ \A s \in Names : Over(ScalarOf(g, m, k, s), m, CoversScalar(items, m, s), ValueOf(items, m))
      /\ \A p \in Nat \ {0} :
           Over(LetterOf(g, m, k, p), m, CoversLetter(items, m, p), LetterAt(items, m, p))
  BY <1>1, <1>4, <1>5, CourseCells
<1>9. ASSUME NEW s \in Names
      PROVE  Scalars(t, k)[s] = Scalars(r, k)[s]
  <2>1. /\ ScalarOf(g, m, k, s)[0] = Scalars(r, k)[s] /\ ScalarOf(g, m, k, s)[m] = Scalars(t, k)[s]
        /\ ScalarOf(f, m, k, s)[m] = Scalars(r, k)[s]
    BY <1>1, <1>2, <1>5, <1>6 DEF ScalarOf
  <2> DEFINE ff == ScalarOf(f, m, k, s)
             gg == ScalarOf(g, m, k, s)
             C == CoversScalar(items, m, s)
             v == ValueOf(items, m)
  <2>2. m \in Nat /\ Over(ff, m, C, v) /\ Over(gg, m, C, v) /\ gg[0] = ff[m]
    BY <1>1, <1>7, <1>8, <2>1
  <2> HIDE DEF ff, gg, C, v
  <2>3. gg[m] = ff[m]
    BY <2>2, Overwrites
  <2>4. QED BY <2>1, <2>3 DEF ff, gg
<1>10. ASSUME NEW p \in Nat \ {0}
       PROVE  Letter(t.server[k].binding, p) = Letter(r.server[k].binding, p)
  <2>1. /\ LetterOf(g, m, k, p)[0] = Letter(r.server[k].binding, p)
        /\ LetterOf(g, m, k, p)[m] = Letter(t.server[k].binding, p)
        /\ LetterOf(f, m, k, p)[m] = Letter(r.server[k].binding, p)
    BY <1>1, <1>2, <1>5, <1>6 DEF LetterOf
  <2> DEFINE ff == LetterOf(f, m, k, p)
             gg == LetterOf(g, m, k, p)
             C == CoversLetter(items, m, p)
             v == LetterAt(items, m, p)
  <2>2. m \in Nat /\ Over(ff, m, C, v) /\ Over(gg, m, C, v) /\ gg[0] = ff[m]
    BY <1>1, <1>7, <1>8, <2>1
  <2> HIDE DEF ff, gg, C, v
  <2>3. gg[m] = ff[m]
    BY <2>2, Overwrites
  <2>4. QED BY <2>1, <2>3 DEF ff, gg
<1>11. t = r
  BY <1>4, <1>6, <1>9, <1>10, SameCells
<1>12. QED BY <1>3, <1>11 DEF t, r

\* An update that has started does not start again.
LEMMA ExecuteTwice ==
  ASSUME NEW objs \in ObjectsType, NEW object \in {"server", "device", "firmware", "sensor", "security"},
         NEW id, NEW resource, NEW payload, NEW once,
         once = object_execute(objs, object, id, resource, payload).objects, once # objs
  PROVE  object_execute(once, object, id, resource, payload).objects = once
<1>1. once = [objs EXCEPT !.firmware.state = 2]
  BY ExecuteOK
<1>2. once.firmware.state = 2
  BY <1>1 DEF ObjectsType
<1>3. \A o : /\ object = "server" => object_execute(o, object, id, resource, payload) =
                                       prv_server_execute(o, id, resource)
             /\ object = "device" => object_execute(o, object, id, resource, payload) =
                                       prv_device_execute(o, id, resource, payload)
             /\ object = "firmware" => object_execute(o, object, id, resource, payload) =
                                         prv_firmware_execute(o, id, resource, payload)
             /\ object = "sensor" => object_execute(o, object, id, resource, payload) = Refused(o, "4.05")
             /\ object = "security" => object_execute(o, object, id, resource, payload) = Refused(o, "4.04")
  BY Zenon DEF object_execute
<1>4. object_execute(objs, object, id, resource, payload).objects # objs
  OBVIOUS
<1>5. object = "firmware"
  BY <1>3, <1>4 DEF prv_server_execute, prv_device_execute, Refused
<1>6. QED BY <1>2, <1>3, <1>5 DEF prv_firmware_execute

\* The same for a write, and for a creation that is a write the second time.
LEMMA ObjectWriteTwice ==
  ASSUME NEW objs, Good(objs), NEW object \in {"server", "device", "firmware", "sensor", "security"},
         NEW id \in Nat, NEW payload \in Payloads(object), NEW once,
         once = object_write(objs, object, id, payload).objects, once # objs
  PROVE  /\ object_write(once, object, id, payload).objects = once
         /\ ~object_isInstanceNew(once, object, id)
<1>1. /\ object \in Writable /\ payload \notin {None, <<>>} /\ Exists(objs, object, id)
      /\ once = WriteAll(objs, object, id, payload).objects
  BY DEF object_write, writeFunc, Refused, Visible, Writable
<1>2. /\ payload \in Seq(Items[object]) /\ objs \in ObjectsType /\ Sorted(objs.server)
  BY <1>1, PayloadOK DEF Good
<1>3. once \in Kept(objs, object, id) /\ WriteAll(once, object, id, payload).objects = once
  BY <1>1, <1>2, WriteTwice
<1>4. Exists(once, object, id)
  BY <1>1, <1>2, <1>3, KeptFinds DEF Exists
<1>5. object_write(once, object, id, payload) = WriteAll(once, object, id, payload)
  BY <1>1, <1>4 DEF object_write, writeFunc, Visible, Writable
<1>6. QED BY <1>1, <1>3, <1>4, <1>5 DEF object_isInstanceNew, Visible, Writable

\* A creation that is repeated is a write of the same resources.
LEMMA ObjectCreateTwice ==
  ASSUME NEW objs, Good(objs), NEW object \in {"server", "device", "firmware", "sensor", "security"},
         NEW id \in InstanceIds, NEW payload \in Payloads(object), NEW once,
         once = object_create(objs, object, id, payload).objects, once # objs
  PROVE  /\ object_write(once, object, id, payload).objects = once
         /\ ~object_isInstanceNew(once, object, id)
<1>1. id # None /\ id \in Nat /\ id \in InstanceIds \cup {None}
  BY ObjectsAssumption
<1>2. /\ object = "server" /\ Good(once) /\ Exists(once, "server", id)
      /\ \A j \in DOMAIN objs.server : objs.server[j].id # id
      /\ payload \in Seq(Items["server"])
      /\ once = WriteAll(Added(objs, id), "server", id, payload).objects
  BY <1>1, CreateOK
<1>3. /\ Added(objs, id) \in ObjectsType /\ Sorted(Added(objs, id).server)
      /\ Exists(Added(objs, id), "server", id)
  <2>1. objs \in ObjectsType /\ Sorted(objs.server)
    BY DEF Good
  <2>2. QED BY <1>1, <1>2, <2>1, AddedOK
<1>4. WriteAll(once, "server", id, payload).objects = once
  BY <1>1, <1>2, <1>3, WriteTwice DEF Writable
<1>5. payload \notin {None, <<>>}
  BY <1>2 DEF object_create, Refused, Visible
<1>6. object_write(once, object, id, payload) = WriteAll(once, "server", id, payload)
  BY <1>2, <1>5 DEF object_write, writeFunc, Visible
<1>7. QED BY <1>2, <1>4, <1>6 DEF object_isInstanceNew, Visible

\* To handle a copy of a request is to change nothing, creations that leave the ID
\* to the client apart: each cell has the value last written into it, an update
\* that has started does not start again, and a deleted instance is not found.
THEOREM CopiesHarmless == Spec => []CopyHarmless
<1>1. ASSUME Good(objects), NEW req \in Requests, req.method # "POST" \/ req.instance # None
      PROVE  handle_dm_request(handle_dm_request(objects, req).objects, req).objects
               = handle_dm_request(objects, req).objects
  <2> DEFINE once == handle_dm_request(objects, req).objects
             twice == handle_dm_request(once, req).objects
  <2> SUFFICES ASSUME once # objects PROVE twice = once
    OBVIOUS
  <2>1. /\ req.method \in {"GET", "POST", "PUT", "DELETE"}
        /\ req.object \in {"server", "device", "firmware", "sensor", "security"}
        /\ req.instance \in InstanceIds \cup {None}
        /\ req.payload \in Payloads(req.object)
        /\ req.instance # None => req.instance \in Nat /\ req.instance \in InstanceIds
    BY RequestOK, ObjectsAssumption
  <2>2. CASE req.method = "GET"
    <3>1. handle_dm_request(objects, req) = object_read(objects, req.object, req.instance, req.resource)
      BY <2>2, HandleIs
    <3>2. QED BY <3>1 DEF object_read, Refused
  <2>3. CASE req.method = "POST" /\ req.resource # None
    <3>1. \A o : handle_dm_request(o, req) =
                   object_execute(o, req.object, req.instance, req.resource, req.payload)
      BY <2>3, HandleIs
    <3> DEFINE Run(o) == object_execute(o, req.object, req.instance, req.resource, req.payload).objects
    <3>2. once = Run(objects) /\ twice = Run(once)
      BY <3>1
    <3> HIDE DEF once, twice
    <3>3. Run(once) = once
      BY <1>1, <2>1, <3>2, ExecuteTwice DEF Good
    <3>4. QED BY <3>2, <3>3 DEF once, twice
  <2>4. CASE req.method = "POST" /\ req.resource = None
    <3>1. \A o : handle_dm_request(o, req) =
            IF req.instance = None \/ object_isInstanceNew(o, req.object, req.instance)
              THEN object_create(o, req.object, req.instance, req.payload)
              ELSE object_write(o, req.object, req.instance, req.payload)
      BY <2>4, HandleIs
    <3>2. req.instance # None
      BY <1>1, <2>4
    <3> HIDE DEF once
    <3>3. \/ once = object_create(objects, req.object, req.instance, req.payload).objects
          \/ once = object_write(objects, req.object, req.instance, req.payload).objects
      BY <3>1 DEF once
    <3>4. /\ object_write(once, req.object, req.instance, req.payload).objects = once
          /\ ~object_isInstanceNew(once, req.object, req.instance)
      BY <1>1, <2>1, <3>2, <3>3, ObjectWriteTwice, ObjectCreateTwice
    <3>5. twice = once
      BY <3>1, <3>2, <3>4
    <3>6. QED BY <3>5 DEF once
  <2>5. CASE req.method = "PUT" /\ req.instance # None
    <3>1. \A o : handle_dm_request(o, req) = object_write(o, req.object, req.instance, req.payload)
      BY <2>5, HandleIs
    <3> HIDE DEF once
    <3>2. once = object_write(objects, req.object, req.instance, req.payload).objects
      BY <3>1 DEF once
    <3>3. object_write(once, req.object, req.instance, req.payload).objects = once
      BY <1>1, <2>1, <2>5, <3>2, ObjectWriteTwice
    <3>4. twice = once
      BY <3>1, <3>3
    <3>5. QED BY <3>4 DEF once
  <2>6. CASE req.method = "DELETE" /\ req.instance # None /\ req.resource = None
    <3>1. \A o : handle_dm_request(o, req) = object_delete(o, req.object, req.instance)
      BY <2>6, HandleIs
    <3> HIDE DEF once
    <3>2. once = object_delete(objects, req.object, req.instance).objects
      BY <3>1 DEF once
    <3>3. req.object = "server"
      BY <3>2 DEF object_delete, Refused, once
    <3>4. Good(once) /\ \A j \in DOMAIN once.server : once.server[j].id # req.instance
      BY <1>1, <2>1, <2>6, <3>2, <3>3, DeleteOK
    <3>5. lwm2m_list_remove(once.server, req.instance) = once.server
      BY <2>1, <2>6, <3>4, RemoveOK DEF Good, ObjectsType
    <3>6. object_delete(once, req.object, req.instance).objects = [once EXCEPT !.server = once.server]
      BY <3>3, <3>5 DEF object_delete, prv_server_delete, Visible
    <3>7. [once EXCEPT !.server = once.server] = once
      BY <3>4 DEF Good, ObjectsType
    <3>8. twice = once
      BY <3>1, <3>6, <3>7
    <3>9. QED BY <3>8 DEF once
  <2>7. CASE \/ req.method = "PUT" /\ req.instance = None
             \/ req.method = "DELETE" /\ ~(req.instance # None /\ req.resource = None)
    <3>1. handle_dm_request(objects, req) = Refused(objects, "4.00")
      BY <2>7, HandleIs
    <3>2. QED BY <3>1 DEF Refused
  <2>8. QED BY <2>1, <2>2, <2>3, <2>4, <2>5, <2>6, <2>7
<1>2. Good(objects) => CopyHarmless
  BY <1>1 DEF CopyHarmless
<1>3. QED BY <1>2, InOrder, PTL

-----------------------------------------------------------------------------
(* The records that carry what the objects read and write (TlvRecord),     *)
(* whatever they hold and wherever they are cut.                           *)

\* The types of records, the numbers that fit in k bytes.
RecordTypes == {Resource, MultipleResource, ResourceInstance, ObjectInstance}
Fits(n, k) == /\ n \in Nat /\ k \in 1 .. 3
              /\ k = 1 => n < 256
              /\ k = 2 => n < 65536
              /\ k = 3 => n < 16777216

\* The first byte of a header: a type, whether the ID takes a second byte, how many
\* the length takes, and a length that takes none.
IsFlags(flags, type, second, k, low) ==
  /\ type \in RecordTypes /\ second \in {0, 1} /\ k \in 0 .. 3 /\ low \in 0 .. 7
  /\ flags = type + 32 * second + 8 * k + low

\* The flags give back what they are made of.
LEMMA FlagsRead ==
  ASSUME NEW type, NEW second, NEW k, NEW low, NEW flags, IsFlags(flags, type, second, k, low)
  PROVE  /\ flags \in Byte /\ 64 * (flags \div 64) = type
         /\ flags \div 32 % 2 = second /\ flags \div 8 % 4 = k /\ flags % 8 = low
<1>1. PICK t \in 0 .. 3 : type = 64 * t
  <2>1. type \in {0, 64, 128, 192}
    BY DEF IsFlags, RecordTypes, Resource, MultipleResource, ResourceInstance, ObjectInstance
  <2>2. QED BY <2>1, SMT
<1>2. QED BY <1>1, SMT DEF Byte, IsFlags

\* A number of one, two or three bytes is read as it was written, wherever it stands.
LEMMA NumberReads ==
  ASSUME NEW k, NEW n, Fits(n, k), NEW buffer, NEW at \in Nat,
         \A i \in 1 .. k : buffer[at + i] = Bytes(n, k)[i]
  PROVE  Number(buffer, at, k) = n
<1>1. CASE k = 1
  BY <1>1, SMT DEF Bytes, Number
<1>2. CASE k = 2
  BY <1>2, SMT DEF Bytes, Number, Fits
<1>3. CASE k = 3
  BY <1>3, SMT DEF Bytes, Number, Fits
<1>4. QED BY <1>1, <1>2, <1>3 DEF Fits

\* The bytes of a number.
LEMMA BytesType ==
  ASSUME NEW k, NEW n, Fits(n, k)
  PROVE  Bytes(n, k) \in Seq(Byte) /\ Len(Bytes(n, k)) = k
<1>1. CASE k = 1
  BY <1>1, SMT DEF Bytes, Byte, Fits
<1>2. CASE k = 2
  BY <1>2, SMTT(30) DEF Bytes, Byte, Fits
<1>3. CASE k = 3
  BY <1>3, SMT DEF Bytes, Byte, Fits
<1>4. QED BY <1>1, <1>2, <1>3, SMT DEF Fits

\* What a record may be made of: an ID of 16 bits, a value of 24 bits of length.
IsId(id) == id \in Nat /\ id < 65536
IsLength(n) == n \in Nat /\ n < 16777216

\* The length in a header needs the bytes it is given.
LEMMA LengthFits ==
  ASSUME NEW n, IsLength(n)
  PROVE  /\ n \in Nat /\ LengthBytes(n) \in 0 .. 3
         /\ LengthBytes(n) = 0 => n \in 0 .. 7
         /\ LengthBytes(n) # 0 => Fits(n, LengthBytes(n))
  BY SMT DEF IsLength, LengthBytes, Fits

\* The ID in a header needs the bytes it is given.
LEMMA IdFits ==
  ASSUME NEW id, IsId(id)
  PROVE  /\ IdBytes(id) \in {1, 2} /\ Fits(id, IdBytes(id))
         /\ (IF id > 255 THEN 32 ELSE 0) = 32 * (IdBytes(id) - 1)
  BY SMT DEF IsId, IdBytes, Fits

\* A header is its flags, the ID and the length.
LEMMA HeaderParts ==
  ASSUME NEW type \in RecordTypes, NEW id, IsId(id), NEW n, IsLength(n),
         NEW w, w = IdBytes(id), NEW k, k = LengthBytes(n),
         NEW h, h = prv_create_header(type, id, n)
  PROVE  /\ h \in Seq(Byte) /\ Len(h) = 1 + w + k
         /\ h[1] = type + 32 * (w - 1) + 8 * k + (IF k = 0 THEN n ELSE 0)
         /\ \A i \in 1 .. w : h[1 + i] = Bytes(id, w)[i]
         /\ k # 0 => \A i \in 1 .. k : h[1 + w + i] = Bytes(n, k)[i]
<1> DEFINE flags == type + 32 * (w - 1) + 8 * k + (IF k = 0 THEN n ELSE 0)
           ids == Bytes(id, w)
           lengths == IF k = 0 THEN <<>> ELSE Bytes(n, k)
<1>1. h = <<flags>> \o ids \o lengths
  <2>1. h = <<type + (IF id > 255 THEN 32 ELSE 0) + 8 * k + (IF k = 0 THEN n ELSE 0)>>
              \o Bytes(id, w) \o (IF k = 0 THEN <<>> ELSE Bytes(n, k))
    BY DEF prv_create_header
  <2>2. QED BY <2>1, IdFits
<1>2. w \in {1, 2} /\ ids \in Seq(Byte) /\ Len(ids) = w
  BY IdFits, BytesType
<1>3. k \in 0 .. 3 /\ (k = 0 => n \in 0 .. 7)
  BY LengthFits
<1>4. lengths \in Seq(Byte) /\ Len(lengths) = k /\ (k # 0 => lengths = Bytes(n, k))
  <2>1. CASE k = 0
    BY <2>1
  <2>2. CASE k # 0
    BY <2>2, LengthFits, BytesType
  <2>3. QED BY <2>1, <2>2
<1>5. flags \in Byte
  <2> DEFINE bit == w - 1
             low == IF k = 0 THEN n ELSE 0
  <2>1. bit \in {0, 1} /\ low \in 0 .. 7
    BY <1>2, <1>3
  <2>2. IsFlags(flags, type, bit, k, low)
    BY <1>3, <2>1 DEF IsFlags
  <2> HIDE DEF bit, low, flags
  <2>3. QED BY <2>2, FlagsRead
<1> HIDE DEF flags, ids, lengths
<1>6. <<flags>> \in Seq(Byte) /\ Len(<<flags>>) = 1 /\ <<flags>>[1] = flags
  BY <1>5
<1> DEFINE front == <<flags>> \o ids
<1>7. /\ front \in Seq(Byte) /\ Len(front) = 1 + w /\ front[1] = flags
      /\ \A i \in 1 .. w : front[1 + i] = ids[i]
  BY <1>2, <1>6
<1>8. h = front \o lengths
  BY <1>1
<1> HIDE DEF front
<1>9. h \in Seq(Byte) /\ Len(h) = 1 + w + k
  BY <1>2, <1>3, <1>4, <1>7, <1>8
<1>10. \A i \in 1 .. 1 + w : h[i] = front[i]
  BY <1>2, <1>4, <1>7, <1>8
<1>11. \A i \in 1 .. k : h[1 + w + i] = lengths[i]
  BY <1>2, <1>3, <1>4, <1>7, <1>8, SMTT(30)
<1>12. h[1] = flags
  BY <1>2, <1>7, <1>10
<1>13. \A i \in 1 .. w : h[1 + i] = ids[i]
  BY <1>2, <1>7, <1>10
<1>14. QED BY <1>4, <1>9, <1>11, <1>12, <1>13 DEF flags, ids

\* The buffer begins as a header does, as far as it goes.
Begins(buffer, h) ==
  /\ buffer \in Seq(Byte) /\ buffer # <<>>
  /\ \A i \in 1 .. Len(h) : i <= Len(buffer) => buffer[i] = h[i]

\* One sequence behind another.
LEMMA Joined ==
  ASSUME NEW S, NEW s \in Seq(S), NEW t \in Seq(S)
  PROVE  /\ s \o t \in Seq(S) /\ Len(s \o t) = Len(s) + Len(t)
         /\ \A i \in 1 .. Len(s) : (s \o t)[i] = s[i]
         /\ \A i \in 1 .. Len(t) : (s \o t)[Len(s) + i] = t[i]
  OBVIOUS

\* A buffer that begins as a record does gives the record, or nothing as long as some
\* of it is missing.
LEMMA DecodeEffect ==
  ASSUME NEW type \in RecordTypes, NEW id, IsId(id), NEW n, IsLength(n),
         NEW h, h = prv_create_header(type, id, n),
         NEW buffer, Begins(buffer, h)
  PROVE  lwm2m_decodeTLV(buffer) =
           IF Len(buffer) < Len(h) + n THEN Nothing
           ELSE [size |-> Len(h) + n, type |-> type, id |-> id,
                 data |-> SubSeq(buffer, Len(h) + 1, Len(h) + n)]
<1> DEFINE w == IdBytes(id)
           k == LengthBytes(n)
           idBytes == IF buffer[1] \div 32 % 2 = 1 THEN 2 ELSE 1
           kk == buffer[1] \div 8 % 4
           length == IF kk = 0 THEN buffer[1] % 8 ELSE Number(buffer, 1 + idBytes, kk)
<1>1. /\ w \in {1, 2} /\ Fits(id, w)
  BY IdFits
<1>2. /\ n \in Nat /\ k \in 0 .. 3 /\ (k = 0 => n \in 0 .. 7) /\ (k # 0 => Fits(n, k))
  BY LengthFits
<1>3. /\ h \in Seq(Byte) /\ Len(h) = 1 + w + k
      /\ h[1] = type + 32 * (w - 1) + 8 * k + (IF k = 0 THEN n ELSE 0)
      /\ \A i \in 1 .. w : h[1 + i] = Bytes(id, w)[i]
      /\ k # 0 => \A i \in 1 .. k : h[1 + w + i] = Bytes(n, k)[i]
  BY HeaderParts
<1> HIDE DEF w, k
<1>4. /\ buffer \in Seq(Byte) /\ buffer # <<>> /\ Len(buffer) \in Nat /\ Len(buffer) >= 1
      /\ \A i \in 1 .. Len(h) : i <= Len(buffer) => buffer[i] = h[i]
  BY DEF Begins
<1>5. /\ 64 * (buffer[1] \div 64) = type /\ buffer[1] \div 32 % 2 = w - 1
      /\ buffer[1] \div 8 % 4 = k /\ (k = 0 => buffer[1] % 8 = n)
  <2>1. buffer[1] = h[1]
    BY <1>1, <1>2, <1>3, <1>4
  <2> DEFINE bit == w - 1
             low == IF k = 0 THEN n ELSE 0
             flags == buffer[1]
  <2>2. bit \in {0, 1} /\ low \in 0 .. 7
    BY <1>1, <1>2
  <2>3. IsFlags(flags, type, bit, k, low)
    BY <1>2, <1>3, <2>1, <2>2 DEF IsFlags
  <2>4. k = 0 => low = n
    OBVIOUS
  <2> HIDE DEF bit, low, flags
  <2>5. /\ 64 * (flags \div 64) = type /\ flags \div 32 % 2 = bit
        /\ flags \div 8 % 4 = k /\ flags % 8 = low
    BY <2>3, FlagsRead
  <2>6. QED BY <2>4, <2>5 DEF bit, flags
<1>6. idBytes = w /\ kk = k
  BY <1>1, <1>5
<1>7. CASE Len(buffer) < Len(h)
  <2>1. Len(buffer) < 1 + idBytes + kk
    BY <1>3, <1>6, <1>7
  <2>2. lwm2m_decodeTLV(buffer) = Nothing
    BY <1>4, <2>1 DEF lwm2m_decodeTLV
  <2>3. QED BY <1>2, <1>3, <1>4, <1>7, <2>2
<1>8. CASE Len(buffer) >= Len(h)
  <2>1. \A i \in 1 .. w : buffer[1 + i] = Bytes(id, w)[i]
    BY <1>1, <1>2, <1>3, <1>4, <1>8
  <2>2. Number(buffer, 1, w) = id
    BY <1>1, <2>1, NumberReads
  <2>3. length = n
    <3>1. CASE k = 0
      BY <1>5, <1>6, <3>1
    <3>2. CASE k # 0
      <4>1. \A i \in 1 .. k : buffer[1 + w + i] = Bytes(n, k)[i]
        BY <1>1, <1>2, <1>3, <1>4, <1>8, <3>2
      <4>2. Number(buffer, 1 + w, k) = n
        BY <1>1, <1>2, <3>2, <4>1, NumberReads
      <4>3. QED BY <1>6, <3>2, <4>2
    <3>3. QED BY <3>1, <3>2
  <2>4. lwm2m_decodeTLV(buffer) =
          IF Len(buffer) < 1 + idBytes + kk THEN Nothing
          ELSE IF 1 + idBytes + kk + length > Len(buffer) THEN Nothing
          ELSE [size |-> 1 + idBytes + kk + length, type |-> 64 * (buffer[1] \div 64),
                id |-> Number(buffer, 1, idBytes),
                data |-> SubSeq(buffer, 1 + idBytes + kk + 1, 1 + idBytes + kk + length)]
    BY <1>4, Zenon DEF lwm2m_decodeTLV
  <2> HIDE DEF idBytes, kk, length
  <2>5. lwm2m_decodeTLV(buffer) =
          IF Len(buffer) < Len(h) THEN Nothing
          ELSE IF Len(h) + n > Len(buffer) THEN Nothing
          ELSE [size |-> Len(h) + n, type |-> type, id |-> id,
                data |-> SubSeq(buffer, Len(h) + 1, Len(h) + n)]
    BY <1>3, <1>5, <1>6, <2>2, <2>3, <2>4, ZenonT(30)
  <2>6. QED BY <1>2, <1>3, <1>4, <1>8, <2>5
<1>9. QED BY <1>2, <1>3, <1>4, <1>7, <1>8

\* A record is its header and its value.
LEMMA RecordParts ==
  ASSUME NEW type \in RecordTypes, NEW id, IsId(id),
         NEW value \in Seq(Byte), IsLength(Len(value)),
         NEW h, h = prv_create_header(type, id, Len(value)),
         NEW r, r = Record(type, id, value)
  PROVE  /\ h \in Seq(Byte) /\ h # <<>> /\ r \in Seq(Byte) /\ Len(r) = Len(h) + Len(value)
         /\ \A i \in 1 .. Len(h) : r[i] = h[i]
         /\ \A i \in 1 .. Len(value) : r[Len(h) + i] = value[i]
<1>1. r = h \o value
  BY DEF Record
<1>2. h \in Seq(Byte) /\ Len(h) >= 1
  <2> DEFINE w == IdBytes(id)
             k == LengthBytes(Len(value))
  <2>1. h \in Seq(Byte) /\ Len(h) = 1 + w + k
    BY HeaderParts
  <2>2. w \in {1, 2} /\ k \in 0 .. 3
    BY IdFits, LengthFits
  <2> HIDE DEF w, k
  <2>3. QED BY <2>1, <2>2
<1>3. QED BY <1>1, <1>2

\* A record is read as it was written, whatever its type, its ID and its value and
\* whatever follows it: the header tells exactly where it ends.
THEOREM RecordReadsBack ==
  \A id : \A type \in RecordTypes, value \in Seq(Byte), behind \in Seq(Byte) :
    IsId(id) /\ IsLength(Len(value)) =>
      lwm2m_decodeTLV(Record(type, id, value) \o behind) =
        [size |-> Len(Record(type, id, value)), type |-> type, id |-> id, data |-> value]
<1> SUFFICES ASSUME NEW type \in RecordTypes, NEW id, NEW value \in Seq(Byte),
                    NEW behind \in Seq(Byte), IsId(id), IsLength(Len(value))
             PROVE  lwm2m_decodeTLV(Record(type, id, value) \o behind) =
                      [size |-> Len(Record(type, id, value)), type |-> type, id |-> id,
                       data |-> value]
  BY Zenon
<1> DEFINE h == prv_create_header(type, id, Len(value))
           r == Record(type, id, value)
           buffer == r \o behind
           n == Len(value)
<1>1. /\ h \in Seq(Byte) /\ h # <<>> /\ r \in Seq(Byte) /\ Len(r) = Len(h) + Len(value)
      /\ \A i \in 1 .. Len(h) : r[i] = h[i]
      /\ \A i \in 1 .. Len(value) : r[Len(h) + i] = value[i]
  BY RecordParts
<1> HIDE DEF r, h
<1>2. buffer \in Seq(Byte) /\ Len(buffer) = Len(r) + Len(behind)
  BY <1>1, Joined
<1>3. \A i \in 1 .. Len(r) : buffer[i] = r[i]
  BY <1>1, Joined
<1>4. n \in Nat /\ Len(behind) \in Nat /\ Len(h) \in Nat /\ Len(h) >= 1
  BY <1>1
<1>5. h = prv_create_header(type, id, n) /\ IsLength(n)
  BY DEF h
<1> HIDE DEF buffer
<1>6. buffer # <<>> /\ Len(buffer) >= Len(h) + n
  BY <1>1, <1>2, <1>4
<1>7. Begins(buffer, h)
  BY <1>1, <1>2, <1>3, <1>4, <1>6 DEF Begins
<1>8. SubSeq(buffer, Len(h) + 1, Len(h) + n) = value
  <2> DEFINE d == SubSeq(buffer, Len(h) + 1, Len(h) + n)
  <2>1. d \in Seq(Byte) /\ Len(d) = n
    BY <1>2, <1>4, <1>6
  <2>2. ASSUME NEW i \in 1 .. n PROVE d[i] = value[i]
    <3>1. d[i] = buffer[Len(h) + i]
      BY <1>2, <1>4, <1>6
    <3>2. Len(h) + i \in 1 .. Len(r)
      BY <1>1, <1>4
    <3>3. QED BY <1>1, <1>3, <3>1, <3>2
  <2> HIDE DEF d
  <2>3. d = value
    BY <2>1, <2>2, SeqEqual
  <2>4. QED BY <2>3 DEF d
<1> HIDE DEF n
<1>9. lwm2m_decodeTLV(buffer) =
        IF Len(buffer) < Len(h) + n THEN Nothing
        ELSE [size |-> Len(h) + n, type |-> type, id |-> id,
              data |-> SubSeq(buffer, Len(h) + 1, Len(h) + n)]
  BY <1>5, <1>7, DecodeEffect
<1>10. lwm2m_decodeTLV(buffer) = [size |-> Len(h) + n, type |-> type, id |-> id, data |-> value]
  <2>1. ~(Len(buffer) < Len(h) + n)
    BY <1>2, <1>4, <1>6
  <2>2. QED BY <1>8, <1>9, <2>1, Zenon
<1>11. QED BY <1>1, <1>10 DEF buffer, r, n

\* A record of which anything is missing is not taken at all: the parse stops before it.
THEOREM CutRecordIsNothing ==
  \A id : \A type \in RecordTypes, value \in Seq(Byte) :
    IsId(id) /\ IsLength(Len(value)) =>
      \A k \in 0 .. Len(Record(type, id, value)) - 1 :
        lwm2m_decodeTLV(SubSeq(Record(type, id, value), 1, k)) = Nothing
<1> SUFFICES ASSUME NEW type \in RecordTypes, NEW id, NEW value \in Seq(Byte),
                    IsId(id), IsLength(Len(value)),
                    NEW k \in 0 .. Len(Record(type, id, value)) - 1
             PROVE  lwm2m_decodeTLV(SubSeq(Record(type, id, value), 1, k)) = Nothing
  BY Zenon
<1> DEFINE n == Len(value)
           h == prv_create_header(type, id, n)
           r == Record(type, id, value)
           buffer == SubSeq(r, 1, k)
<1>1. /\ h \in Seq(Byte) /\ r \in Seq(Byte) /\ Len(r) = Len(h) + n
      /\ \A i \in 1 .. Len(h) : r[i] = h[i]
  BY RecordParts
<1>2. k \in 0 .. Len(r) - 1 /\ n \in Nat /\ IsLength(n)
  OBVIOUS
<1> HIDE DEF n, h, r
<1>3. buffer \in Seq(Byte) /\ Len(buffer) = k
  BY <1>1, <1>2
<1>4. \A i \in 1 .. k : buffer[i] = r[i]
  BY <1>1, <1>2
<1>5. Len(h) \in Nat
  BY <1>1
<1> HIDE DEF buffer
<1>6. CASE buffer = <<>>
  BY <1>6 DEF lwm2m_decodeTLV, buffer, r
<1>7. CASE buffer # <<>>
  <2>1. Begins(buffer, h)
    BY <1>1, <1>2, <1>3, <1>4, <1>5, <1>7 DEF Begins
  <2>2. h = prv_create_header(type, id, n)
    BY DEF h
  <2>3. lwm2m_decodeTLV(buffer) =
          IF Len(buffer) < Len(h) + n THEN Nothing
          ELSE [size |-> Len(h) + n, type |-> type, id |-> id,
                data |-> SubSeq(buffer, Len(h) + 1, Len(h) + n)]
    BY <1>2, <2>1, <2>2, DecodeEffect
  <2>4. Len(buffer) < Len(h) + n
    BY <1>1, <1>2, <1>3, <1>5
  <2>5. QED BY <2>3, <2>4 DEF buffer, r
<1>8. QED BY <1>6, <1>7

-----------------------------------------------------------------------------
(* TlvRecord: records one behind the other. *)

\* One round of the parse, as a function of what it makes of shorter buffers.
Round(f, buffer) ==
  LET first == lwm2m_decodeTLV(buffer)
  IN  IF first.size = 0 THEN <<>>
      ELSE LET value == IF first.type \in Nested THEN f[first.data] ELSE first.data
               tail == SubSeq(buffer, first.size + 1, Len(buffer))
               more == f[tail]
           IN  IF \/ first.type \in Nested /\ value = <<>>
                  \/ more = <<>> /\ lwm2m_decodeTLV(tail).size # 0
                 THEN <<>>
                 ELSE <<[type |-> first.type, id |-> first.id, value |-> value]>> \o more

\* The value of the first record and what follows it are shorter buffers.
LEMMA ShorterParts ==
  ASSUME NEW buffer \in Seq(Byte), lwm2m_decodeTLV(buffer).size # 0
  PROVE  /\ lwm2m_decodeTLV(buffer).data \in Seq(Byte)
         /\ Len(lwm2m_decodeTLV(buffer).data) < Len(buffer)
         /\ SubSeq(buffer, lwm2m_decodeTLV(buffer).size + 1, Len(buffer)) \in Seq(Byte)
         /\ Len(SubSeq(buffer, lwm2m_decodeTLV(buffer).size + 1, Len(buffer))) < Len(buffer)
<1> DEFINE idBytes == IF buffer[1] \div 32 % 2 = 1 THEN 2 ELSE 1
           k == buffer[1] \div 8 % 4
           dataIndex == 1 + idBytes + k
           length == IF k = 0 THEN buffer[1] % 8 ELSE Number(buffer, 1 + idBytes, k)
           d == lwm2m_decodeTLV(buffer)
<1>1. d = IF buffer = <<>> THEN Nothing
          ELSE IF Len(buffer) < dataIndex THEN Nothing
          ELSE IF dataIndex + length > Len(buffer) THEN Nothing
          ELSE [size |-> dataIndex + length, type |-> 64 * (buffer[1] \div 64),
                id |-> Number(buffer, 1, idBytes),
                data |-> SubSeq(buffer, dataIndex + 1, dataIndex + length)]
  BY Zenon DEF lwm2m_decodeTLV
<1>2. buffer # <<>> /\ ~(Len(buffer) < dataIndex) /\ ~(dataIndex + length > Len(buffer))
  <2>1. Nothing.size = 0
    BY DEF Nothing
  <2> HIDE DEF dataIndex, length, d
  <2>2. QED BY <1>1, <2>1 DEF d
<1>3. /\ d.size = dataIndex + length
      /\ d.data = SubSeq(buffer, dataIndex + 1, dataIndex + length)
  <2> HIDE DEF dataIndex, length, d
  <2>1. QED BY <1>1, <1>2
<1>4. Len(buffer) \in Nat /\ \A i \in 1 .. Len(buffer) : buffer[i] \in Nat
  <2>1. \A b \in Byte : b \in Nat
    BY DEF Byte
  <2>2. QED BY <2>1, ElementOfSeq
<1>5. idBytes \in {1, 2} /\ k \in 0 .. 3 /\ dataIndex \in Nat /\ dataIndex >= 2
  <2>1. Len(buffer) > 0 /\ buffer[1] \in Nat
    BY <1>2, <1>4
  <2>2. k \in 0 .. 3
    BY <2>1, SMT
  <2> HIDE DEF k
  <2>3. QED BY <2>2
<1>6. length \in Nat
  <2>1. buffer[1] \in Nat /\ Len(buffer) >= 1 + idBytes + k
    BY <1>2, <1>4, <1>5
  <2> DEFINE n == Number(buffer, 1 + idBytes, k)
  <2>2. k # 0 => n \in Nat
    <3> DEFINE at == 1 + idBytes
    <3> HIDE DEF k
    <3>1. at \in Nat /\ \A i \in 1 .. k : buffer[at + i] \in Nat
      <4>1. at \in Nat
        BY <1>5
      <4> HIDE DEF idBytes
      <4>2. QED BY <1>4, <1>5, <2>1, <4>1
    <3> HIDE DEF at
    <3>2. CASE k = 1
      <4>1. buffer[at + 1] \in Nat
        BY <3>1, <3>2
      <4>2. Number(buffer, at, 1) = buffer[at + 1]
        BY DEF Number
      <4>3. QED BY <3>2, <4>1, <4>2 DEF at
    <3>3. CASE k = 2
      <4>1. buffer[at + 1] \in Nat /\ buffer[at + 2] \in Nat
        BY <3>1, <3>3
      <4>2. Number(buffer, at, 2) = 256 * buffer[at + 1] + buffer[at + 2]
        BY DEF Number
      <4>3. QED BY <3>3, <4>1, <4>2 DEF at
    <3>4. CASE k = 3
      <4>1. buffer[at + 1] \in Nat /\ buffer[at + 2] \in Nat /\ buffer[at + 3] \in Nat
        BY <3>1, <3>4
      <4>2. Number(buffer, at, 3) = 65536 * buffer[at + 1] + 256 * buffer[at + 2] + buffer[at + 3]
        BY DEF Number
      <4>3. Number(buffer, at, 3) \in Nat
        BY <4>1, <4>2, SMTT(30)
      <4>4. QED BY <3>4, <4>3 DEF at
    <3>5. QED BY <1>5, <3>2, <3>3, <3>4
  <2>3. buffer[1] % 8 \in Nat
    BY <2>1, SMT
  <2> HIDE DEF n, k, idBytes
  <2>4. QED BY <2>2, <2>3 DEF n
<1> HIDE DEF dataIndex, length, d, k, idBytes
<1>7. dataIndex + length <= Len(buffer)
  BY <1>2, <1>4, <1>5, <1>6
<1>8. /\ SubSeq(buffer, dataIndex + 1, dataIndex + length) \in Seq(Byte)
      /\ Len(SubSeq(buffer, dataIndex + 1, dataIndex + length)) = length
  <2>1. /\ dataIndex + 1 \in 1 .. Len(buffer) + 1
        /\ dataIndex + length \in dataIndex + 1 - 1 .. Len(buffer)
    BY <1>4, <1>5, <1>6, <1>7
  <2>2. QED BY <1>4, <1>5, <1>6, <2>1, SubSeqProperties
<1>9. /\ SubSeq(buffer, d.size + 1, Len(buffer)) \in Seq(Byte)
      /\ Len(SubSeq(buffer, d.size + 1, Len(buffer))) = Len(buffer) - d.size
  <2>1. /\ d.size + 1 \in 1 .. Len(buffer) + 1 /\ d.size \in Nat
        /\ Len(buffer) \in d.size + 1 - 1 .. Len(buffer)
    BY <1>3, <1>4, <1>5, <1>6, <1>7
  <2>2. QED BY <1>4, <2>1, SubSeqProperties
<1>10. QED BY <1>3, <1>4, <1>5, <1>6, <1>7, <1>8, <1>9 DEF d

\* A round asks only what comes of shorter buffers.
LEMMA RoundLocal ==
  ASSUME NEW f, NEW g, NEW buffer \in Seq(Byte),
         \A b \in Seq(Byte) : Len(b) < Len(buffer) => f[b] = g[b]
  PROVE  Round(f, buffer) = Round(g, buffer)
<1> DEFINE first == lwm2m_decodeTLV(buffer)
           tail == SubSeq(buffer, first.size + 1, Len(buffer))
<1>1. CASE first.size = 0
  BY <1>1 DEF Round
<1>2. CASE first.size # 0
  <2>1. f[first.data] = g[first.data] /\ f[tail] = g[tail]
    BY <1>2, ShorterParts
  <2>2. QED BY <1>2, <2>1, Zenon DEF Round
<1>3. QED BY <1>1, <1>2

Short(n) == {b \in Seq(Byte) : Len(b) <= n}
Parses(f, n) == f = [b \in Short(n) |-> Round(f, b)]

\* A function that parses the buffers up to a length does with each what a round does.
LEMMA ParseStep ==
  ASSUME NEW f, NEW n \in Nat, Parses(f, n)
  PROVE  \A b \in Short(n) : f[b] = Round(f, b)
BY DEF Parses

\* There is one way to parse the buffers of a length.
LEMMA ParseUnique ==
  ASSUME NEW f, NEW g, NEW n \in Nat, NEW m \in Nat, Parses(f, n), Parses(g, m)
  PROVE  \A b \in Short(n) \cap Short(m) : f[b] = g[b]
<1> DEFINE Unlike == {b \in Short(n) \cap Short(m) : f[b] # g[b]}
           T == {Len(b) : b \in Unlike}
<1> SUFFICES ASSUME Unlike # {} PROVE FALSE
  OBVIOUS
<1>1. PICK x \in T : \A y \in T : x <= y
  <2>1. T \subseteq Nat /\ T # {}
    BY DEF Short
  <2> HIDE DEF T
  <2>2. QED BY <2>1, Smallest
<1>2. PICK b \in Unlike : Len(b) = x
  BY <1>1
<1>3. b \in Seq(Byte) /\ Len(b) \in Nat /\ Len(b) <= n /\ Len(b) <= m /\ f[b] # g[b]
  BY <1>2 DEF Short
<1>4. ASSUME NEW c \in Seq(Byte), Len(c) < Len(b)
      PROVE  f[c] = g[c]
  <2>1. Len(c) \in Nat /\ c \in Short(n) \cap Short(m)
    BY <1>3, <1>4 DEF Short
  <2>2. c \in Unlike => Len(b) <= Len(c)
    BY <1>1, <1>2
  <2>3. c \notin Unlike
    BY <1>3, <1>4, <2>1, <2>2
  <2>4. QED BY <2>1, <2>3
<1>5. Round(f, b) = Round(g, b)
  <2> HIDE DEF Unlike, T
  <2>1. QED BY <1>3, <1>4, RoundLocal
<1>6. f[b] = Round(f, b) /\ g[b] = Round(g, b)
  BY <1>2, ParseStep
<1>7. QED BY <1>3, <1>5, <1>6

\* There is a function that parses the buffers up to a length.
LEMMA ParseExists ==
  ASSUME NEW N \in Nat
  PROVE  \E f : Parses(f, N)
<1> DEFINE T == {n \in 0 .. N : \E f : Parses(f, n)}
<1>1. ASSUME NEW f, NEW n \in Nat,
             \A b \in Short(n) : Len(b) < n => f[b] = Round(f, b)
      PROVE  \E g : Parses(g, n)
  <2> DEFINE g == [b \in Short(n) |-> IF Len(b) < n THEN f[b] ELSE Round(f, b)]
  <2>1. ASSUME NEW b \in Short(n) PROVE g[b] = Round(g, b)
    <3>1. b \in Seq(Byte) /\ Len(b) \in Nat /\ Len(b) <= n
      BY DEF Short
    <3>2. g[b] = Round(f, b)
      BY <1>1, <3>1
    <3>3. ASSUME NEW c \in Seq(Byte), Len(c) < Len(b) PROVE f[c] = g[c]
      <4>1. c \in Short(n) /\ Len(c) < n
        BY <3>1, <3>3 DEF Short
      <4>2. QED BY <4>1
    <3> HIDE DEF g
    <3>4. Round(f, b) = Round(g, b)
      BY <3>1, <3>3, RoundLocal
    <3>5. QED BY <3>2, <3>4
  <2>2. g = [b \in Short(n) |-> g[b]]
    OBVIOUS
  <2> HIDE DEF g
  <2>3. g = [b \in Short(n) |-> Round(g, b)]
    BY <2>1, <2>2
  <2>4. QED BY <2>3 DEF Parses
<1>2. 0 \in T
  <2>1. \E f : Parses(f, 0)
    <3> DEFINE z == [b \in {} |-> 0]
    <3>1. 0 \in Nat /\ \A b \in Short(0) : Len(b) < 0 => z[b] = Round(z, b)
      OBVIOUS
    <3> HIDE DEF z
    <3>2. QED BY <1>1, <3>1
  <2>2. QED BY <2>1
<1>3. ASSUME NEW n \in T, n \in Nat, n < N PROVE n + 1 \in T
  <2>1. PICK f : Parses(f, n)
    BY <1>3
  <2>2. \A b \in Short(n) : f[b] = Round(f, b)
    BY <1>3, <2>1, ParseStep
  <2>3. \A b \in Short(n + 1) : Len(b) < n + 1 => b \in Short(n)
    BY <1>3 DEF Short
  <2>4. \E g : Parses(g, n + 1)
    BY <1>1, <1>3, <2>2, <2>3
  <2>5. QED BY <1>3, <2>4
<1>4. \A n \in 0 .. N : n \in T
  <2> HIDE DEF T
  <2>1. QED BY <1>2, <1>3, Upwards
<1>5. QED BY <1>4

\* The recursion of lwm2m_tlv_parse has a solution: every round leaves shorter buffers.
LEMMA ParseRounds ==
  \A buffer \in Seq(Byte) : lwm2m_tlv_parse[buffer] = Round(lwm2m_tlv_parse, buffer)
<1> DEFINE G(n) == CHOOSE f : Parses(f, n)
           h == [b \in Seq(Byte) |-> G(Len(b))[b]]
           Step(f) == [buffer \in Seq(Byte) |-> Round(f, buffer)]
<1>1. \A n \in Nat : Parses(G(n), n)
  BY ParseExists
<1> HIDE DEF G
<1>2. ASSUME NEW b \in Seq(Byte) PROVE h[b] = Round(h, b)
  <2>1. Len(b) \in Nat /\ b \in Short(Len(b)) /\ Parses(G(Len(b)), Len(b))
    BY <1>1 DEF Short
  <2>2. h[b] = Round(G(Len(b)), b)
    BY <2>1, ParseStep
  <2>3. ASSUME NEW c \in Seq(Byte), Len(c) < Len(b) PROVE G(Len(b))[c] = h[c]
    <3>1. /\ Len(c) \in Nat /\ Parses(G(Len(c)), Len(c))
          /\ c \in Short(Len(b)) \cap Short(Len(c))
      BY <1>1, <2>1, <2>3 DEF Short
    <3>2. G(Len(b))[c] = G(Len(c))[c]
      BY <2>1, <3>1, ParseUnique
    <3>3. QED BY <3>2
  <2> HIDE DEF h
  <2>4. Round(G(Len(b)), b) = Round(h, b)
    BY <2>3, RoundLocal
  <2>5. QED BY <2>2, <2>4
<1>3. h = Step(h)
  <2>1. h = [b \in Seq(Byte) |-> h[b]]
    OBVIOUS
  <2> HIDE DEF h
  <2>2. QED BY <1>2, <2>1
<1>4. lwm2m_tlv_parse = CHOOSE f : f = Step(f)
  BY DEF lwm2m_tlv_parse, Round
<1>5. lwm2m_tlv_parse = Step(lwm2m_tlv_parse)
  <2> HIDE DEF h, Step
  <2>1. QED BY <1>3, <1>4
<1> HIDE DEF lwm2m_tlv_parse, h
<1>6. QED BY <1>5

\* value is what is written of record's value: itself, or a buffer its records are
\* read back from.
ReadFrom(record, value) ==
  /\ record = [type |-> record.type, id |-> record.id, value |-> record.value]
  /\ record.type \in RecordTypes /\ IsId(record.id)
  /\ value \in Seq(Byte) /\ IsLength(Len(value))
  /\ record.type \in Nested => record.value # <<>> /\ lwm2m_tlv_parse[value] = record.value
  /\ record.type \notin Nested => record.value = value

AllReadFrom(records, values) ==
  Len(values) = Len(records) /\ \A k \in 1 .. Len(records) : ReadFrom(records[k], values[k])

\* What comes behind does not make the parse fail.
Harmless(rest) ==
  rest \in Seq(Byte) /\ (lwm2m_decodeTLV(rest).size = 0 \/ lwm2m_tlv_parse[rest] # <<>>)

\* A record is bytes, and at least one.
LEMMA RecordBytes ==
  ASSUME NEW record, NEW value, ReadFrom(record, value),
         NEW r, r = Record(record.type, record.id, value)
  PROVE  r \in Seq(Byte) /\ Len(r) > 0
<1> DEFINE h == prv_create_header(record.type, record.id, Len(value))
<1>1. h \in Seq(Byte) /\ Len(h) = 1 + IdBytes(record.id) + LengthBytes(Len(value))
  BY HeaderParts DEF ReadFrom
<1>2. IdBytes(record.id) \in Nat /\ LengthBytes(Len(value)) \in Nat
  BY DEF IdBytes, LengthBytes
<1>3. r = h \o value /\ value \in Seq(Byte)
  BY DEF Record, ReadFrom
<1> HIDE DEF h
<1>4. QED BY <1>1, <1>2, <1>3

\* Two sequences one behind the other, and what is left behind the first.
LEMMA Behind ==
  ASSUME NEW S, NEW a \in Seq(S), NEW b \in Seq(S)
  PROVE  /\ a \o b \in Seq(S) /\ Len(a \o b) = Len(a) + Len(b)
         /\ SubSeq(a \o b, Len(a) + 1, Len(a \o b)) = b
<1> DEFINE ab == a \o b
           s == SubSeq(ab, Len(a) + 1, Len(ab))
<1>1. /\ ab \in Seq(S) /\ Len(ab) = Len(a) + Len(b) /\ Len(a) \in Nat /\ Len(b) \in Nat
      /\ \A i \in 1 .. Len(b) : ab[Len(a) + i] = b[i]
  OBVIOUS
<1> HIDE DEF ab
<1>2. Len(a) + 1 \in 1 .. Len(ab) + 1 /\ Len(ab) \in Len(a) + 1 - 1 .. Len(ab)
  BY <1>1
<1>3. /\ s \in Seq(S) /\ Len(s) = Len(b)
      /\ \A i \in 1 .. Len(b) : s[i] = ab[Len(a) + 1 + i - 1]
  BY <1>1, <1>2, SubSeqProperties
<1>4. \A i \in 1 .. Len(b) : s[i] = b[i]
  BY <1>1, <1>3
<1> HIDE DEF s
<1>5. s = b
  BY <1>1, <1>3, <1>4, SeqEqual
<1>6. QED BY <1>1, <1>5 DEF ab, s

\* Three sequences one behind the other.
LEMMA Associative ==
  ASSUME NEW S, NEW a \in Seq(S), NEW b \in Seq(S), NEW c \in Seq(S)
  PROVE  (a \o b) \o c = a \o (b \o c)
<1> DEFINE x == (a \o b) \o c
           y == a \o (b \o c)
<1>1. x \in Seq(S) /\ y \in Seq(S) /\ Len(x) = Len(y)
  OBVIOUS
<1>2. \A i \in 1 .. Len(x) : x[i] = y[i]
  OBVIOUS
<1> HIDE DEF x, y
<1>3. x = y
  BY <1>1, <1>2, SeqEqual
<1>4. QED BY <1>3 DEF x, y

\* The same of numbers, whichever.
LEMMA Grouped == \A p, q, r \in Seq(Int) : (p \o q) \o r = p \o (q \o r)
<1>1. ASSUME NEW p \in Seq(Int), NEW q \in Seq(Int), NEW r \in Seq(Int)
      PROVE  (p \o q) \o r = p \o (q \o r)
  <2>1. QED BY Associative
<1>2. QED BY <1>1, Zenon

\* A record in front of what can be parsed is parsed.
LEMMA ParseRecord ==
  ASSUME NEW T, NEW record \in T, NEW value, ReadFrom(record, value),
         NEW rest, Harmless(rest), lwm2m_tlv_parse[rest] \in Seq(T)
  PROVE  LET buffer == Record(record.type, record.id, value) \o rest
         IN  /\ buffer \in Seq(Byte)
             /\ lwm2m_tlv_parse[buffer] = <<record>> \o lwm2m_tlv_parse[rest]
<1> DEFINE r == Record(record.type, record.id, value)
           buffer == r \o rest
           first == lwm2m_decodeTLV(buffer)
           tail == SubSeq(buffer, first.size + 1, Len(buffer))
           inner == IF first.type \in Nested THEN lwm2m_tlv_parse[first.data] ELSE first.data
           more == lwm2m_tlv_parse[tail]
<1>1. r \in Seq(Byte) /\ Len(r) \in Nat /\ Len(r) > 0 /\ rest \in Seq(Byte)
  BY RecordBytes DEF Harmless
<1>2. buffer \in Seq(Byte) /\ SubSeq(buffer, Len(r) + 1, Len(buffer)) = rest
  BY <1>1, Behind
<1>3. first = [size |-> Len(r), type |-> record.type, id |-> record.id, data |-> value]
  BY <1>1, RecordReadsBack DEF ReadFrom
<1>4. lwm2m_tlv_parse[buffer] = Round(lwm2m_tlv_parse, buffer)
  BY <1>2, ParseRounds
<1> HIDE DEF r, buffer
<1>5. lwm2m_tlv_parse[buffer] =
        IF first.size = 0 THEN <<>>
        ELSE IF \/ first.type \in Nested /\ inner = <<>>
                \/ more = <<>> /\ lwm2m_decodeTLV(tail).size # 0
               THEN <<>>
               ELSE <<[type |-> first.type, id |-> first.id, value |-> inner]>> \o more
  BY <1>4, Zenon DEF Round
<1> HIDE DEF first
<1>6. /\ first.size = Len(r) /\ first.size # 0 /\ first.type = record.type
      /\ first.id = record.id /\ first.data = value
  BY <1>1, <1>3
<1>7. tail = rest /\ more = lwm2m_tlv_parse[rest]
  BY <1>2, <1>6
<1>8. inner = record.value /\ (first.type \in Nested => inner # <<>>)
  BY <1>6 DEF ReadFrom
<1>9. record = [type |-> first.type, id |-> first.id, value |-> inner]
  BY <1>6, <1>8 DEF ReadFrom
<1>10. ~(more = <<>> /\ lwm2m_decodeTLV(tail).size # 0)
  BY <1>7 DEF Harmless
<1> HIDE DEF inner, more, tail
<1>11. lwm2m_tlv_parse[buffer] = <<record>> \o more
  BY <1>5, <1>6, <1>8, <1>9, <1>10
<1>12. QED BY <1>2, <1>7, <1>11 DEF buffer, r

\* w[i] is what is written of the first i records, out of S; and of each alone.
PiledIn(S, w, records, values) ==
  /\ \A i \in 0 .. Len(records) : w[i] \in Seq(S)
  /\ w[0] = <<>>
  /\ \A i \in 1 .. Len(records) :
       w[i] = w[i - 1] \o Record(records[i].type, records[i].id, values[i])

RecordsIn(E, records, values) ==
  \A i \in 1 .. Len(records) : Record(records[i].type, records[i].id, values[i]) \in Seq(E)

\* Writing records is putting one behind the other.
LEMMA SerializedIs ==
  ASSUME NEW E, NEW T, NEW records \in Seq(T), NEW values,
         RecordsIn(E, records, values)
  PROVE  PiledIn(E, Serialized(records, values), records, values)
<1> DEFINE N == Len(records)
           R(i) == Record(records[i].type, records[i].id, values[i])
           Step(f) == [i \in 0 .. N |-> IF i = 0 THEN <<>> ELSE f[i - 1] \o R(i)]
           S == Seq(E)
           w == Serialized(records, values)
           step == [i \in 1 .. N |-> [b \in S |-> b \o R(i)]]
<1>1. N \in Nat /\ \A i \in 1 .. N : R(i) \in S
  BY DEF RecordsIn
<1>2. \A i \in 1 .. N : \A b \in S : b \o R(i) \in S
  <2> HIDE DEF R
  <2>1. QED BY <1>1
<1> HIDE DEF R, N
<1>3. step \in Rounds(N, S) /\ <<>> \in S
  <2>1. <<>> \in S
    OBVIOUS
  <2> HIDE DEF S
  <2>2. QED BY <1>2, <2>1 DEF Rounds
<1> HIDE DEF S
<1>4. PICK f \in [0 .. N -> S] : f[0] = <<>> /\ \A n \in 1 .. N : f[n] = step[n][f[n - 1]]
  <2> DEFINE start == <<>>
  <2>1. start \in S
    BY <1>3
  <2> HIDE DEF step, start
  <2>2. \E f : Runs(f, N, S, start, step)
    BY <1>1, <1>3, <2>1, Course
  <2>3. QED BY <2>2 DEF start, Runs
<1>5. ASSUME NEW n \in 1 .. N
      PROVE  f[n - 1] \in S /\ f[n] = f[n - 1] \o R(n)
  <2>1. n - 1 \in 0 .. N /\ f[n - 1] \in S
    BY <1>1
  <2>2. f[n] = step[n][f[n - 1]]
    BY <1>4
  <2>3. QED BY <2>1, <2>2
<1>6. f = Step(f)
  <2>1. \A i \in 0 .. N : f[i] = IF i = 0 THEN <<>> ELSE f[i - 1] \o R(i)
    BY <1>1, <1>4, <1>5
  <2>2. f = [i \in 0 .. N |-> f[i]]
    OBVIOUS
  <2>3. QED BY <2>1, <2>2
<1>7. w = CHOOSE v : v = Step(v)
  BY DEF Serialized, R, N
<1> HIDE DEF w
<1>8. w = Step(w)
  <2> HIDE DEF Step
  <2>1. QED BY <1>6, <1>7
<1>9. \A i \in 0 .. N : w[i] = IF i = 0 THEN <<>> ELSE w[i - 1] \o R(i)
  BY <1>8
<1>10. w[0] = <<>> /\ \A i \in 1 .. N : w[i] = w[i - 1] \o R(i)
  <2>1. 0 \in 0 .. N /\ \A i \in 1 .. N : i \in 0 .. N /\ i # 0
    BY <1>1
  <2>2. QED BY <1>9, <2>1, Zenon
<1>11. \A i \in 0 .. N : w[i] \in S
  <2> DEFINE U == {i \in 0 .. N : w[i] \in S}
  <2>1. 0 \in U
    BY <1>1, <1>3, <1>10
  <2>2. ASSUME NEW n \in U, n \in Nat, n < N PROVE n + 1 \in U
    <3>1. n + 1 \in 1 .. N /\ (n + 1) - 1 = n /\ w[n] \in S
      BY <1>1, <2>2
    <3>2. w[n + 1] = w[n] \o R(n + 1) /\ w[n] \o R(n + 1) \in S
      BY <1>2, <1>10, <3>1
    <3>3. n + 1 \in 0 .. N /\ w[n + 1] \in S
      BY <1>1, <3>1, <3>2
    <3>4. QED BY <3>3
  <2>3. \A n \in 0 .. N : n \in U
    <3> HIDE DEF U
    <3>1. QED BY <1>1, <2>1, <2>2, Upwards
  <2>4. QED BY <2>3
<1>12. QED BY <1>10, <1>11 DEF S, R, N, w, PiledIn

Piled(w, records, values) == PiledIn(Byte, w, records, values)

\* For records that can be read: what is put together is bytes.
LEMMA SerializedOK ==
  ASSUME NEW T, NEW records \in Seq(T), NEW values, AllReadFrom(records, values)
  PROVE  Piled(Serialized(records, values), records, values)
<1>1. RecordsIn(Byte, records, values)
  BY RecordBytes DEF AllReadFrom, RecordsIn
<1>2. QED BY <1>1, SerializedIs DEF Piled

\* One record more of a sequence.
LEMMA OneMore ==
  ASSUME NEW T, NEW records \in Seq(T), NEW j \in Nat, j < Len(records)
  PROVE  /\ SubSeq(records, 1, j) \in Seq(T)
         /\ SubSeq(records, 1, j + 1) = SubSeq(records, 1, j) \o <<records[j + 1]>>
<1> DEFINE a == SubSeq(records, 1, j)
           b == SubSeq(records, 1, j + 1)
           c == a \o <<records[j + 1]>>
<1>1. /\ 1 \in 1 .. Len(records) + 1 /\ j \in 1 - 1 .. Len(records)
      /\ j + 1 \in 1 - 1 .. Len(records) /\ Len(records) \in Nat /\ j + 1 \in 1 .. Len(records)
  OBVIOUS
<1>2. a \in Seq(T) /\ Len(a) = j /\ \A i \in 1 .. j : a[i] = records[1 + i - 1]
  BY <1>1, SubSeqProperties
<1>3. b \in Seq(T) /\ Len(b) = j + 1 /\ \A i \in 1 .. j + 1 : b[i] = records[1 + i - 1]
  BY <1>1, SubSeqProperties
<1>4. records[j + 1] \in T
  BY <1>1, ElementOfSeq
<1> HIDE DEF a, b
<1>5. c \in Seq(T) /\ Len(c) = j + 1 /\ \A i \in 1 .. j + 1 : c[i] = IF i <= j THEN a[i] ELSE records[j + 1]
  BY <1>2, <1>4
<1>6. \A i \in 1 .. j + 1 : c[i] = b[i]
  <2>1. \A i \in 1 .. j + 1 : 1 + i - 1 = i /\ (i <= j => i \in 1 .. j) /\ (~(i <= j) => i = j + 1)
    OBVIOUS
  <2> HIDE DEF c
  <2>2. QED BY <1>2, <1>3, <1>5, <2>1
<1> HIDE DEF c
<1>7. b = c
  BY <1>3, <1>5, <1>6, SeqEqual
<1>8. QED BY <1>2, <1>7 DEF a, b, c

\* The records in front of what parses to nothing are the ones that are found.
LEMMA ParseAhead ==
  ASSUME NEW T, NEW records \in Seq(T), NEW values, AllReadFrom(records, values),
         NEW w, w = Serialized(records, values),
         NEW rest \in Seq(Byte), lwm2m_decodeTLV(rest).size = 0, NEW j \in 0 .. Len(records)
  PROVE  lwm2m_tlv_parse[w[j] \o rest] = SubSeq(records, 1, j)
<1> DEFINE N == Len(records)
           First(n) == SubSeq(records, 1, n)
           Ahead(n) == \A r : Harmless(r) /\ lwm2m_tlv_parse[r] \in Seq(T) =>
                         lwm2m_tlv_parse[w[n] \o r] = First(n) \o lwm2m_tlv_parse[r]
           U == {n \in 0 .. N : Ahead(n)}
<1>1. N \in Nat
  OBVIOUS
<1>2. /\ \A i \in 0 .. N : w[i] \in Seq(Byte)
      /\ w[0] = <<>>
      /\ \A i \in 1 .. N : w[i] = w[i - 1] \o Record(records[i].type, records[i].id, values[i])
  <2>1. Piled(w, records, values)
    BY SerializedOK
  <2>2. QED BY <2>1 DEF Piled, PiledIn
<1> HIDE DEF Ahead
<1>3. 0 \in U
  <2> SUFFICES ASSUME NEW r, Harmless(r), lwm2m_tlv_parse[r] \in Seq(T)
               PROVE  lwm2m_tlv_parse[w[0] \o r] = First(0) \o lwm2m_tlv_parse[r]
    <3> HIDE DEF First, N
    <3>1. QED BY <1>1 DEF Ahead
  <2>1. w[0] \o r = r
    BY <1>2 DEF Harmless
  <2>2. First(0) = <<>> /\ <<>> \o lwm2m_tlv_parse[r] = lwm2m_tlv_parse[r]
    OBVIOUS
  <2> HIDE DEF First
  <2>3. QED BY <2>1, <2>2
<1>4. ASSUME NEW n \in U, n \in Nat, n < N PROVE n + 1 \in U
  <2> SUFFICES ASSUME NEW r, Harmless(r), lwm2m_tlv_parse[r] \in Seq(T)
               PROVE  lwm2m_tlv_parse[w[n + 1] \o r] = First(n + 1) \o lwm2m_tlv_parse[r]
    <3>1. n + 1 \in 0 .. N
      BY <1>1, <1>4
    <3> HIDE DEF First, N
    <3>2. QED BY <3>1 DEF Ahead
  <2> DEFINE record == records[n + 1]
             R == Record(record.type, record.id, values[n + 1])
             p == lwm2m_tlv_parse[r]
             b == R \o r
  <2>1. n \in 0 .. N /\ n + 1 \in 1 .. N /\ (n + 1) - 1 = n /\ Ahead(n)
    <3> HIDE DEF N, First
    <3>1. n \in 0 .. N /\ Ahead(n)
      BY <1>4
    <3>2. QED BY <1>1, <1>4, <3>1
  <2>2. ReadFrom(record, values[n + 1]) /\ record \in T
    <3>1. record \in T
      BY <2>1, ElementOfSeq
    <3>2. QED BY <2>1, <3>1 DEF AllReadFrom
  <2>3. w[n + 1] = w[n] \o R /\ w[n] \in Seq(Byte)
    BY <1>2, <2>1
  <2> HIDE DEF record, U, N
  <2>4. R \in Seq(Byte) /\ r \in Seq(Byte)
    BY <2>2, RecordBytes DEF Harmless
  <2>5. b \in Seq(Byte) /\ lwm2m_tlv_parse[b] = <<record>> \o p
    BY <2>2, ParseRecord, SMTT(30)
  <2> HIDE DEF p, R, b
  <2>6. p \in Seq(T) /\ <<record>> \in Seq(T) /\ <<record>> \o p \in Seq(T) /\ <<record>> \o p # <<>>
    <3>1. p \in Seq(T) /\ <<record>> \in Seq(T)
      BY <2>2 DEF p
    <3>2. <<record>> \o p \in Seq(T) /\ Len(<<record>> \o p) > 0
      BY <3>1
    <3>3. QED BY <3>1, <3>2
  <2>7. Harmless(b) /\ lwm2m_tlv_parse[b] \in Seq(T)
    BY <2>5, <2>6 DEF Harmless
  <2>8. lwm2m_tlv_parse[w[n] \o b] = First(n) \o (<<record>> \o p)
    BY <2>1, <2>5, <2>7 DEF Ahead
  <2>9. w[n + 1] \o r = w[n] \o b
    <3>1. (w[n] \o R) \o r = w[n] \o (R \o r)
      <4> DEFINE x == w[n]
      <4>1. x \in Seq(Byte)
        BY <2>3
      <4> HIDE DEF x
      <4>2. (x \o R) \o r = x \o (R \o r)
        BY <2>4, <4>1, Associative, SMTT(30)
      <4>3. QED BY <4>2 DEF x
    <3>2. QED BY <2>3, <3>1, Zenon DEF b
  <2>10. First(n) \in Seq(T) /\ First(n + 1) = First(n) \o <<record>>
    BY <1>4, OneMore DEF record, N
  <2> HIDE DEF First
  <2>11. First(n) \o (<<record>> \o p) = First(n + 1) \o p
    <3>1. (First(n) \o <<record>>) \o p = First(n) \o (<<record>> \o p)
      <4> DEFINE x == First(n)
                 y == <<record>>
      <4>1. x \in Seq(T) /\ y \in Seq(T) /\ p \in Seq(T)
        BY <2>6, <2>10
      <4> HIDE DEF x, y
      <4>2. (x \o y) \o p = x \o (y \o p)
        BY <4>1, Associative, SMTT(30)
      <4>3. QED BY <4>2 DEF x, y
    <3>2. QED BY <2>10, <3>1, Zenon
  <2>12. QED BY <2>8, <2>9, <2>11 DEF p
<1>5. j \in U
  <2> HIDE DEF U
  <2>1. \A n \in 0 .. N : n \in U
    BY <1>1, <1>3, <1>4, Upwards
  <2>2. QED BY <2>1
<1>6. lwm2m_tlv_parse[rest] = <<>> /\ Harmless(rest)
  <2>1. lwm2m_tlv_parse[rest] = Round(lwm2m_tlv_parse, rest)
    BY ParseRounds
  <2>2. QED BY <2>1 DEF Round, Harmless
<1>7. lwm2m_tlv_parse[w[j] \o rest] = First(j) \o <<>>
  <2>1. <<>> \in Seq(T)
    OBVIOUS
  <2> HIDE DEF First
  <2>2. Ahead(j)
    BY <1>5
  <2>3. lwm2m_tlv_parse[rest] \in Seq(T)
    BY <1>6, <2>1
  <2>4. lwm2m_tlv_parse[w[j] \o rest] = First(j) \o lwm2m_tlv_parse[rest]
    BY <1>6, <2>2, <2>3 DEF Ahead
  <2>5. QED BY <1>6, <2>4
<1>8. First(j) \in Seq(T)
  <2>1. 1 \in 1 .. N + 1 /\ j \in 1 - 1 .. N
    BY <1>1
  <2>2. QED BY <2>1, SubSeqProperties
<1>9. First(j) \o <<>> = First(j)
  <2> HIDE DEF First
  <2>1. QED BY <1>8
<1>10. QED BY <1>7, <1>9

\* Records one behind the other are read as they were written, those that hold records
\* with them, whose own were read back: any number of records, at any depth level by level.
THEOREM ListReadsBack ==
  \A T, values : \A records \in Seq(T) :
    AllReadFrom(records, values) =>
      lwm2m_tlv_parse[Serialized(records, values)[Len(records)]] = records
<1> SUFFICES ASSUME NEW T, NEW values, NEW records \in Seq(T), AllReadFrom(records, values),
                    NEW w, w = Serialized(records, values)
             PROVE  lwm2m_tlv_parse[w[Len(records)]] = records
  BY Zenon
<1> DEFINE N == Len(records)
<1>1. N \in 0 .. N /\ w[N] \in Seq(Byte)
  <2>1. N \in 0 .. N
    OBVIOUS
  <2>2. \A i \in 0 .. N : w[i] \in Seq(Byte)
    BY SerializedOK DEF Piled, PiledIn
  <2>3. QED BY <2>1, <2>2
<1>2. <<>> \in Seq(Byte) /\ lwm2m_decodeTLV(<<>>).size = 0
  BY DEF lwm2m_decodeTLV, Nothing
<1>3. lwm2m_tlv_parse[w[N] \o <<>>] = SubSeq(records, 1, N)
  <2> DEFINE rest == <<>>
  <2>1. rest \in Seq(Byte) /\ lwm2m_decodeTLV(rest).size = 0
    BY <1>2
  <2> HIDE DEF rest
  <2>2. \A j \in 0 .. N : lwm2m_tlv_parse[w[j] \o rest] = SubSeq(records, 1, j)
    BY <2>1, ParseAhead
  <2>3. QED BY <1>1, <2>2 DEF rest
<1>4. w[N] \o <<>> = w[N] /\ SubSeq(records, 1, N) = records
  <2>1. w[N] \o <<>> = w[N]
    BY <1>1
  <2>2. SubSeq(records, 1, N) = records
    OBVIOUS
  <2>3. QED BY <2>1, <2>2
<1>5. QED BY <1>3, <1>4

\* What is written begins with what was written before.
LEMMA BeginsWith ==
  ASSUME NEW T, NEW records \in Seq(T), NEW values, AllReadFrom(records, values),
         NEW w, w = Serialized(records, values), NEW m \in 0 .. Len(records)
  PROVE  \E z \in Seq(Byte) : w[Len(records)] = w[m] \o z
<1> DEFINE N == Len(records)
           R(i) == Record(records[i].type, records[i].id, values[i])
           U == {d \in 0 .. N - m : \E z \in Seq(Byte) : w[m + d] = w[m] \o z}
<1>1. N \in Nat /\ m \in Nat /\ N - m \in Nat /\ m + (N - m) = N
  OBVIOUS
<1>2. Piled(w, records, values)
  BY SerializedOK
<1>3. \A i \in 1 .. N : R(i) \in Seq(Byte) /\ w[i] = w[i - 1] \o R(i)
  BY <1>2, RecordBytes DEF Piled, PiledIn, AllReadFrom
<1>4. w[m] \in Seq(Byte)
  BY <1>2 DEF Piled, PiledIn
<1> HIDE DEF N, R
<1>5. 0 \in U
  <2> DEFINE e == <<>>
  <2>1. w[m + 0] = w[m] \o e /\ e \in Seq(Byte)
    BY <1>1, <1>4
  <2> HIDE DEF e
  <2>2. \E z \in Seq(Byte) : w[m + 0] = w[m] \o z
    BY <2>1
  <2>3. 0 \in 0 .. N - m
    BY <1>1
  <2>4. QED BY <2>2, <2>3
<1>6. ASSUME NEW d \in U, d \in Nat, d < N - m PROVE d + 1 \in U
  <2>1. PICK z \in Seq(Byte) : w[m + d] = w[m] \o z
    BY <1>6
  <2>2. m + (d + 1) \in 1 .. N /\ (m + (d + 1)) - 1 = m + d /\ d + 1 \in 0 .. N - m
    BY <1>1, <1>6
  <2> DEFINE x == w[m]
             r == R(m + (d + 1))
  <2>3. w[m + (d + 1)] = (x \o z) \o r /\ x \in Seq(Byte) /\ r \in Seq(Byte)
    BY <1>3, <1>4, <2>1, <2>2
  <2> HIDE DEF x, r, U
  <2>4. (x \o z) \o r = x \o (z \o r) /\ z \o r \in Seq(Byte)
    <3>1. (x \o z) \o r = x \o (z \o r)
      BY <2>3, Associative
    <3>2. QED BY <2>3, <3>1
  <2> DEFINE y == z \o r
  <2>5. y \in Seq(Byte) /\ w[m + (d + 1)] = x \o y
    BY <2>3, <2>4
  <2> HIDE DEF y
  <2>6. QED BY <2>2, <2>5 DEF x, U
<1>7. N - m \in U
  <2> HIDE DEF U
  <2>1. \A d \in 0 .. N - m : d \in U
    BY <1>1, <1>5, <1>6, Upwards
  <2>2. QED BY <1>1, <2>1
<1>8. QED BY <1>1, <1>7 DEF N

\* A cut within the second of three sequences.
LEMMA CutWithin ==
  ASSUME NEW S, NEW a \in Seq(S), NEW b \in Seq(S), NEW c \in Seq(S),
         NEW k \in Nat, Len(a) <= k, k <= Len(a) + Len(b)
  PROVE  /\ SubSeq(b, 1, k - Len(a)) \in Seq(S)
         /\ SubSeq((a \o b) \o c, 1, k) = a \o SubSeq(b, 1, k - Len(a))
<1> DEFINE n == k - Len(a)
           abc == (a \o b) \o c
           d == SubSeq(b, 1, n)
           x == SubSeq(abc, 1, k)
           y == a \o d
<1>1. n \in 0 .. Len(b) /\ k = Len(a) + n /\ Len(a) \in Nat /\ Len(b) \in Nat
  OBVIOUS
<1> HIDE DEF n
<1>2. /\ abc \in Seq(S) /\ k <= Len(abc) /\ Len(abc) \in Nat
      /\ \A i \in 1 .. k : abc[i] = IF i <= Len(a) THEN a[i] ELSE b[i - Len(a)]
  BY <1>1
<1>3. d \in Seq(S) /\ Len(d) = n /\ \A i \in 1 .. n : d[i] = b[1 + i - 1]
  <2>1. 1 \in 1 .. Len(b) + 1 /\ n \in 1 - 1 .. Len(b)
    BY <1>1
  <2>2. QED BY <2>1, SubSeqProperties
<1> HIDE DEF abc, d
<1>4. x \in Seq(S) /\ Len(x) = k /\ \A i \in 1 .. k : x[i] = abc[1 + i - 1]
  <2>1. 1 \in 1 .. Len(abc) + 1 /\ k \in 1 - 1 .. Len(abc)
    BY <1>2
  <2>2. QED BY <1>2, <2>1, SubSeqProperties
<1>5. /\ y \in Seq(S) /\ Len(y) = k
      /\ \A i \in 1 .. k : y[i] = IF i <= Len(a) THEN a[i] ELSE d[i - Len(a)]
  BY <1>1, <1>3
<1> HIDE DEF x, y
<1>6. \A i \in 1 .. k : x[i] = y[i]
  <2> SUFFICES ASSUME NEW i \in 1 .. k PROVE x[i] = y[i]
    OBVIOUS
  <2>1. x[i] = abc[i] /\ 1 + i - 1 = i
    BY <1>4
  <2>2. CASE i <= Len(a)
    BY <1>2, <1>5, <2>1, <2>2
  <2>3. CASE ~(i <= Len(a))
    <3>1. i - Len(a) \in 1 .. n /\ 1 + (i - Len(a)) - 1 = i - Len(a)
      BY <1>1, <2>3
    <3>2. d[i - Len(a)] = b[i - Len(a)]
      BY <1>3, <3>1
    <3>3. QED BY <1>2, <1>5, <2>1, <2>3, <3>2
  <2>4. QED BY <2>2, <2>3
<1>7. x = y
  BY <1>4, <1>5, <1>6, SeqEqual
<1>8. QED BY <1>3, <1>7 DEF x, y, abc, d, n

\* The records that end before the first k bytes do are what is read of these.
BeginningRead(records, w, k) ==
  \E j \in 0 .. Len(records) :
    /\ Len(w[j]) <= k /\ (j < Len(records) => k < Len(w[j + 1]))
    /\ lwm2m_tlv_parse[SubSeq(w[Len(records)], 1, k)] = SubSeq(records, 1, j)

\* Of records that were cut short the ones before the cut are read, and nothing else.
THEOREM CutListKeepsBeginning ==
  \A T, values, w : \A records \in Seq(T) :
    AllReadFrom(records, values) /\ w = Serialized(records, values) =>
      \A k \in 0 .. Len(w[Len(records)]) : BeginningRead(records, w, k)
<1> SUFFICES ASSUME NEW T, NEW values, NEW w, NEW records \in Seq(T),
                    AllReadFrom(records, values), w = Serialized(records, values),
                    NEW k \in 0 .. Len(w[Len(records)])
             PROVE  BeginningRead(records, w, k)
  BY Zenon
<1> DEFINE N == Len(records)
           Beyond == {i \in 0 .. N : k < Len(w[i])}
<1>1. Piled(w, records, values)
  BY SerializedOK
<1>2. N \in Nat /\ N \in 0 .. N /\ \A i \in 0 .. N : w[i] \in Seq(Byte)
  BY <1>1 DEF Piled, PiledIn
<1>3. k \in Nat /\ k <= Len(w[N])
  BY <1>2
<1>4. CASE Beyond = {}
  <2>1. k = Len(w[N])
    <3>1. ~(k < Len(w[N])) /\ Len(w[N]) \in Nat
      BY <1>2, <1>4
    <3>2. QED BY <1>3, <3>1
  <2>2. SubSeq(w[N], 1, k) = w[N] /\ SubSeq(records, 1, N) = records
    <3>1. \A x \in Seq(Byte) : SubSeq(x, 1, Len(x)) = x
      OBVIOUS
    <3>2. SubSeq(records, 1, N) = records
      OBVIOUS
    <3>3. QED BY <1>2, <2>1, <3>1, <3>2
  <2>3. lwm2m_tlv_parse[w[N]] = records
    BY ListReadsBack
  <2> HIDE DEF N
  <2>4. Len(w[N]) <= k /\ ~(N < N)
    BY <1>2, <2>1
  <2>5. QED BY <1>2, <2>2, <2>3, <2>4 DEF N, BeginningRead
<1>5. CASE Beyond # {}
  <2>1. PICK x \in Beyond : \A y \in Beyond : x <= y
    <3>1. Beyond \subseteq Nat
      OBVIOUS
    <3> HIDE DEF Beyond
    <3>2. QED BY <1>5, <3>1, Smallest
  <2>2. x \in 0 .. N /\ k < Len(w[x]) /\ x # 0
    <3>1. Len(w[0]) = 0
      BY <1>1 DEF Piled, PiledIn
    <3>2. x \in 0 .. N /\ k < Len(w[x])
      BY <2>1
    <3>3. QED BY <1>3, <3>1, <3>2
  <2> DEFINE j == x - 1
             record == records[x]
             R == Record(record.type, record.id, values[x])
             a == w[j]
             n == k - Len(a)
  <2>3. j \in 0 .. N /\ x = j + 1 /\ j < N /\ x \in 1 .. N
    BY <1>2, <2>2
  <2>4. a \in Seq(Byte) /\ Len(a) \in Nat /\ ~(k < Len(a))
    <3>1. a \in Seq(Byte) /\ Len(a) \in Nat
      BY <1>2, <2>3
    <3>2. ~(x <= j)
      BY <2>3
    <3>3. j \notin Beyond
      BY <2>1, <3>2
    <3>4. QED BY <2>3, <3>1, <3>3
  <2>5. ReadFrom(record, values[x]) /\ w[x] = a \o R /\ R \in Seq(Byte)
    <3>1. ReadFrom(record, values[x])
      BY <2>3 DEF AllReadFrom
    <3>2. w[x] = w[x - 1] \o R
      BY <1>1, <2>3 DEF Piled, PiledIn
    <3> HIDE DEF record
    <3>3. R \in Seq(Byte)
      BY <3>1, RecordBytes
    <3>4. QED BY <3>1, <3>2, <3>3
  <2>6. PICK z \in Seq(Byte) : w[N] = w[x] \o z
    <3> HIDE DEF Beyond
    <3>1. QED BY <2>2, BeginsWith, ZenonT(30)
  <2> HIDE DEF R, a, Beyond, record, j
  <2>7. n \in 0 .. Len(R) - 1 /\ k = Len(a) + n
    <3>1. Len(w[x]) = Len(a) + Len(R) /\ Len(R) \in Nat
      BY <2>4, <2>5
    <3>2. QED BY <1>3, <2>2, <2>4, <3>1
  <2>8. /\ SubSeq(R, 1, n) \in Seq(Byte)
        /\ SubSeq(w[N], 1, k) = a \o SubSeq(R, 1, n)
    <3>1. Len(a) <= k /\ k <= Len(a) + Len(R) /\ k \in Nat
      BY <1>3, <2>4, <2>5, <2>7
    <3>2. w[N] = (a \o R) \o z
      BY <2>5, <2>6
    <3>3. QED BY <2>4, <2>5, <3>1, <3>2, CutWithin
  <2>9. lwm2m_decodeTLV(SubSeq(R, 1, n)).size = 0
    <3>1. lwm2m_decodeTLV(SubSeq(R, 1, n)) = Nothing
      <4> HIDE DEF n
      <4>1. QED BY <2>5, <2>7, CutRecordIsNothing DEF ReadFrom, R
    <3>2. QED BY <3>1 DEF Nothing
  <2> DEFINE rest == SubSeq(R, 1, n)
  <2>10. rest \in Seq(Byte) /\ lwm2m_decodeTLV(rest).size = 0 /\ j \in 0 .. Len(records)
    BY <2>3, <2>8, <2>9
  <2> HIDE DEF rest, n
  <2>11. lwm2m_tlv_parse[w[j] \o rest] = SubSeq(records, 1, j)
    BY <2>10, ParseAhead
  <2>12. lwm2m_tlv_parse[SubSeq(w[N], 1, k)] = SubSeq(records, 1, j)
    BY <2>8, <2>11 DEF rest, a
  <2>13. Len(w[j]) <= k /\ k < Len(w[j + 1])
    BY <1>3, <2>2, <2>3, <2>4 DEF a
  <2>14. QED BY <2>3, <2>12, <2>13 DEF BeginningRead
<1>6. QED BY <1>4, <1>5

-----------------------------------------------------------------------------
(* Tlv: records in records. *)

Leaves == [type : {Resource, ResourceInstance}, id : 0 .. 65535, value : Seq(Byte)]
Branches(V) == [type : Nested, id : 0 .. 65535, value : Seq(V)]
Level(f, d) == Leaves \cup IF d = 0 THEN {} ELSE Branches(f[d - 1])

\* The recursion of lwm2m_tlv_t has a solution.
LEMMA LevelsOK ==
  \A d \in 0 .. Depth : lwm2m_tlv_t[d] = Level(lwm2m_tlv_t, d)
<1> DEFINE Goes(f, n) == f = [d \in 0 .. n |-> Level(f, d)]
           T == {n \in 0 .. Depth : \E f : Goes(f, n)}
<1>1. Depth \in Nat
  BY TlvAssumption
<1>2. ASSUME NEW f, NEW g, NEW d \in Nat, d # 0 => f[d - 1] = g[d - 1]
      PROVE  Level(f, d) = Level(g, d)
  BY <1>2 DEF Level
<1>3. 0 \in T
  <2> DEFINE g == [d \in 0 .. 0 |-> Leaves]
  <2>1. g = [d \in 0 .. 0 |-> Level(g, d)]
    BY DEF Level
  <2> HIDE DEF g
  <2>2. QED BY <1>1, <2>1
<1>4. ASSUME NEW n \in T, n \in Nat, n < Depth PROVE n + 1 \in T
  <2>1. PICK f : Goes(f, n)
    BY <1>4
  <2> DEFINE g == [d \in 0 .. n + 1 |-> Level(f, d)]
  <2>2. \A d \in 0 .. n : f[d] = g[d]
    <3>1. \A d \in 0 .. n : f[d] = Level(f, d)
      BY <2>1
    <3>2. \A d \in 0 .. n : d \in 0 .. n + 1
      BY <1>4
    <3>3. QED BY <3>1, <3>2
  <2>3. \A d \in 0 .. n + 1 : Level(f, d) = Level(g, d)
    <3> SUFFICES ASSUME NEW d \in 0 .. n + 1 PROVE Level(f, d) = Level(g, d)
      OBVIOUS
    <3>1. d \in Nat /\ (d # 0 => d - 1 \in 0 .. n)
      BY <1>4
    <3> HIDE DEF g
    <3>2. d # 0 => f[d - 1] = g[d - 1]
      BY <2>2, <3>1
    <3>3. QED BY <1>2, <3>1, <3>2
  <2>4. g = [d \in 0 .. n + 1 |-> Level(g, d)]
    BY <2>3, Zenon
  <2> HIDE DEF g
  <2>5. QED BY <1>1, <1>4, <2>4
<1>5. Depth \in T
  <2>1. \A n \in 0 .. Depth : n \in T
    <3> HIDE DEF T
    <3>1. QED BY <1>1, <1>3, <1>4, Upwards
  <2>2. QED BY <1>1, <2>1
<1>6. PICK f : Goes(f, Depth)
  BY <1>5
<1> DEFINE Step(f_1) == [d \in 0 .. Depth |-> Level(f_1, d)]
<1>7. lwm2m_tlv_t = CHOOSE v : v = Step(v)
  BY DEF lwm2m_tlv_t, Level, Leaves, Branches
<1>8. f = Step(f)
  BY <1>6
<1> HIDE DEF lwm2m_tlv_t, Step
<1>9. lwm2m_tlv_t = Step(lwm2m_tlv_t)
  BY <1>7, <1>8
<1>10. QED BY <1>9 DEF Step

\* What a record may be.
LEMMA RecordIs ==
  ASSUME NEW d \in 0 .. Depth, NEW r \in lwm2m_tlv_t[d]
  PROVE  /\ r = [type |-> r.type, id |-> r.id, value |-> r.value]
         /\ r.type \in RecordTypes /\ IsId(r.id)
         /\ r.type \notin Nested => r.value \in Seq(Byte)
         /\ r.type \in Nested => d # 0 /\ r.value \in Seq(lwm2m_tlv_t[d - 1])
<1> DEFINE Ids == 0 .. 65535
<1>1. \A id \in Ids : IsId(id)
  BY SMTT(30) DEF IsId
<1>2. r \in Level(lwm2m_tlv_t, d)
  BY LevelsOK
<1>3. Leaves = [type : {Resource, ResourceInstance}, id : Ids, value : Seq(Byte)]
  BY DEF Leaves
<1>4. \A V : Branches(V) = [type : Nested, id : Ids, value : Seq(V)]
  BY DEF Branches
<1> HIDE DEF Ids
<1>5. /\ \A t \in {Resource, ResourceInstance} : t \notin Nested /\ t \in RecordTypes
      /\ \A t \in Nested : t \in RecordTypes
  BY DEF Nested, RecordTypes, Resource, MultipleResource, ResourceInstance, ObjectInstance
<1>6. CASE r \in Leaves
  BY <1>1, <1>3, <1>5, <1>6
<1>7. CASE d # 0 /\ r \in Branches(lwm2m_tlv_t[d - 1])
  BY <1>1, <1>4, <1>5, <1>7
<1>8. QED BY <1>2, <1>6, <1>7 DEF Level

Inside(f, d, r) == IF r.type \in Nested THEN f[d - 1][r.value] ELSE r.value
Insides(f, d, records) == [k \in DOMAIN records |-> Inside(f, d, records[k])]
Whole(records, values) ==
  IF \E k \in DOMAIN records : records[k].type \in Nested /\ values[k] = <<>> THEN <<>>
  ELSE Serialized(records, values)[Len(records)]
Made(f, d) == [records \in Seq(lwm2m_tlv_t[d]) |-> Whole(records, Insides(f, d, records))]

\* What is written of records depends on the levels below only.
LEMMA WrittenLocal ==
  ASSUME NEW f, NEW g, NEW d \in 0 .. Depth, d # 0 => f[d - 1] = g[d - 1]
  PROVE  Made(f, d) = Made(g, d)
<1> SUFFICES ASSUME NEW records \in Seq(lwm2m_tlv_t[d])
             PROVE  Insides(f, d, records) = Insides(g, d, records)
  BY Zenon DEF Made
<1> SUFFICES ASSUME NEW k \in DOMAIN records
             PROVE  Inside(f, d, records[k]) = Inside(g, d, records[k])
  BY Zenon DEF Insides
<1>1. records[k] \in lwm2m_tlv_t[d]
  BY ElementOfSeq
<1> DEFINE r == records[k]
<1>2. r.type \in Nested => d # 0
  BY <1>1, RecordIs
<1> HIDE DEF r
<1>3. QED BY <1>2, Zenon DEF Inside, r

\* The recursion of lwm2m_tlv_serialize has a solution.
LEMMA SerializeLevels ==
  \A d \in 0 .. Depth : lwm2m_tlv_serialize[d] = Made(lwm2m_tlv_serialize, d)
<1> DEFINE Goes(f, n) == f = [d \in 0 .. n |-> Made(f, d)]
           T == {n \in 0 .. Depth : \E f : Goes(f, n)}
<1>1. Depth \in Nat
  BY TlvAssumption
<1>2. ASSUME NEW f, NEW n \in 0 .. Depth, \A d \in 0 .. n : d # 0 => f[d - 1] = Made(f, d - 1)
      PROVE  \E g : Goes(g, n)
  <2> DEFINE g == [d \in 0 .. n |-> Made(f, d)]
  <2>1. \A d \in 0 .. n : Made(f, d) = Made(g, d)
    <3> SUFFICES ASSUME NEW d \in 0 .. n PROVE Made(f, d) = Made(g, d)
      OBVIOUS
    <3>1. d \in 0 .. Depth /\ (d # 0 => d - 1 \in 0 .. n)
      BY <1>1
    <3>2. d # 0 => f[d - 1] = g[d - 1]
      BY <1>2, <3>1
    <3> HIDE DEF g
    <3>3. QED BY <3>1, <3>2, WrittenLocal
  <2>2. g = [d \in 0 .. n |-> Made(g, d)]
    BY <2>1, Zenon
  <2> HIDE DEF g
  <2>3. QED BY <2>2
<1>3. 0 \in T
  <2> DEFINE z == 0
  <2>1. z \in 0 .. Depth /\ \A d \in 0 .. z : d # 0 => z[d - 1] = Made(z, d - 1)
    BY <1>1
  <2> HIDE DEF z, Goes
  <2>2. \E g : Goes(g, z)
    BY <1>2, <2>1
  <2>3. QED BY <1>1, <2>2 DEF z
<1>4. ASSUME NEW n \in T, n \in Nat, n < Depth PROVE n + 1 \in T
  <2>1. PICK f : Goes(f, n)
    BY <1>4
  <2>2. \A d \in 0 .. n : f[d] = Made(f, d)
    BY <2>1
  <2>3. n + 1 \in 0 .. Depth /\ \A d \in 0 .. n + 1 : d # 0 => d - 1 \in 0 .. n
    BY <1>1, <1>4
  <2>4. \A d \in 0 .. n + 1 : d # 0 => f[d - 1] = Made(f, d - 1)
    BY <2>2, <2>3
  <2> HIDE DEF Goes
  <2>5. QED BY <1>2, <2>3, <2>4
<1>5. Depth \in T
  <2>1. \A n \in 0 .. Depth : n \in T
    <3> HIDE DEF T
    <3>1. QED BY <1>1, <1>3, <1>4, Upwards
  <2>2. QED BY <1>1, <2>1
<1>6. PICK f : Goes(f, Depth)
  BY <1>5
<1> DEFINE Step(v) == [d \in 0 .. Depth |-> Made(v, d)]
<1>7. lwm2m_tlv_serialize = CHOOSE v : v = Step(v)
  BY DEF lwm2m_tlv_serialize, Made, Insides, Inside, Whole
<1>8. f = Step(f)
  BY <1>6
<1> HIDE DEF lwm2m_tlv_serialize, Step
<1>9. lwm2m_tlv_serialize = Step(lwm2m_tlv_serialize)
  BY <1>7, <1>8
<1>10. QED BY <1>9 DEF Step

\* A record holds its value, whatever its length is, and is made of numbers.
LEMMA RecordHolds ==
  ASSUME NEW type \in RecordTypes, NEW id, IsId(id), NEW value \in Seq(Nat),
         NEW r, r = Record(type, id, value)
  PROVE  r \in Seq(Nat) /\ Len(value) <= Len(r)
<1> DEFINE h == prv_create_header(type, id, Len(value))
           k == LengthBytes(Len(value))
           flags == type + (IF id > 255 THEN 32 ELSE 0) + 8 * k + (IF k = 0 THEN Len(value) ELSE 0)
           ids == Bytes(id, IdBytes(id))
           lengths == IF k = 0 THEN <<>> ELSE Bytes(Len(value), k)
<1>1. h = <<flags>> \o ids \o lengths
  BY Zenon DEF prv_create_header
<1>2. \A n \in Nat : \A j \in 1 .. 3 : Bytes(n, j) \in Seq(Nat)
  <2> SUFFICES ASSUME NEW n \in Nat, NEW j \in 1 .. 3 PROVE Bytes(n, j) \in Seq(Nat)
    OBVIOUS
  <2>1. CASE j = 1
    BY <2>1 DEF Bytes
  <2>2. CASE j = 2
    <3>1. n \div 256 \in Nat /\ n % 256 \in Nat
      BY SMT
    <3>2. Bytes(n, j) = <<n \div 256, n % 256>>
      BY <2>2 DEF Bytes
    <3>3. QED BY <3>1, <3>2
  <2>3. CASE j = 3
    <3>1. n \div 65536 \in Nat /\ n \div 256 % 256 \in Nat /\ n % 256 \in Nat
      BY SMT
    <3>2. Bytes(n, j) = <<n \div 65536, n \div 256 % 256, n % 256>>
      BY <2>3 DEF Bytes
    <3>3. QED BY <3>1, <3>2
  <2>4. QED BY <2>1, <2>2, <2>3
<1>3. Len(value) \in Nat /\ id \in Nat /\ IdBytes(id) \in 1 .. 3 /\ k \in 0 .. 3
  BY DEF IsId, IdBytes, LengthBytes
<1>4. flags \in Nat
  <2>1. type \in Nat
    BY DEF RecordTypes, Resource, MultipleResource, ResourceInstance, ObjectInstance
  <2> DEFINE second == IF id > 255 THEN 32 ELSE 0
             low == IF k = 0 THEN Len(value) ELSE 0
  <2>2. second \in Nat /\ low \in Nat /\ k \in Nat
    BY <1>3
  <2> HIDE DEF k, second, low
  <2>3. type + second + 8 * k + low \in Nat
    BY <2>1, <2>2
  <2>4. QED BY <2>3 DEF second, low
<1> HIDE DEF flags, k
<1>5. ids \in Seq(Nat) /\ lengths \in Seq(Nat) /\ <<flags>> \in Seq(Nat)
  <2>1. ids \in Seq(Nat)
    BY <1>2, <1>3
  <2>2. CASE k = 0
    BY <1>4, <2>1, <2>2
  <2>3. CASE k # 0
    <3>1. k \in 1 .. 3
      BY <1>3, <2>3
    <3>2. Bytes(Len(value), k) \in Seq(Nat)
      BY <1>2, <1>3, <3>1
    <3>3. QED BY <1>4, <2>1, <2>3, <3>2
  <2>4. QED BY <2>2, <2>3
<1> HIDE DEF ids, lengths
<1>6. h \in Seq(Nat)
  BY <1>1, <1>5
<1>7. r = h \o value
  BY DEF Record
<1> HIDE DEF h
<1>8. Len(r) = Len(h) + Len(value) /\ Len(h) \in Nat
  BY <1>6, <1>7
<1>9. QED BY <1>3, <1>6, <1>7, <1>8

\* What is written of all records is at least as long as the value of each.
LEMMA ValuesFit ==
  ASSUME NEW T, NEW records \in Seq(T), NEW values, NEW w, PiledIn(Nat, w, records, values),
         NEW k \in 1 .. Len(records),
         Len(values[k]) \in Nat,
         Len(values[k]) <= Len(Record(records[k].type, records[k].id, values[k])),
         RecordsIn(Nat, records, values)
  PROVE  Len(values[k]) <= Len(w[Len(records)])
<1> DEFINE N == Len(records)
           R(i) == Record(records[i].type, records[i].id, values[i])
           m == N - k
           U == {d \in 0 .. m : Len(values[k]) <= Len(w[k + d])}
<1>1. N \in Nat /\ k \in Nat /\ m \in Nat /\ k + m = N /\ k - 1 \in 0 .. N /\ k \in 1 .. N
  OBVIOUS
<1>2. /\ \A i \in 0 .. N : w[i] \in Seq(Nat)
      /\ \A i \in 1 .. N : R(i) \in Seq(Nat) /\ w[i] = w[i - 1] \o R(i)
  BY DEF PiledIn, RecordsIn
<1>3. Len(values[k]) <= Len(R(k))
  OBVIOUS
<1> HIDE DEF R, N, m
<1>4. \A i \in 1 .. N : /\ i - 1 \in 0 .. N /\ Len(w[i]) = Len(w[i - 1]) + Len(R(i))
                        /\ Len(w[i - 1]) \in Nat /\ Len(R(i)) \in Nat
  <2> SUFFICES ASSUME NEW i \in 1 .. N
               PROVE  /\ i - 1 \in 0 .. N /\ Len(w[i]) = Len(w[i - 1]) + Len(R(i))
                      /\ Len(w[i - 1]) \in Nat /\ Len(R(i)) \in Nat
    OBVIOUS
  <2>1. i - 1 \in 0 .. N
    BY <1>1
  <2>2. w[i - 1] \in Seq(Nat) /\ R(i) \in Seq(Nat) /\ w[i] = w[i - 1] \o R(i)
    BY <1>2, <2>1
  <2>3. QED BY <2>1, <2>2
<1>5. 0 \in U
  <2>1. k + 0 = k
    BY <1>1
  <2>2. Len(values[k]) <= Len(w[k])
    <3> DEFINE x == Len(values[k])
               y == Len(R(k))
               z == Len(w[k])
    <3>1. x <= y /\ x \in Nat /\ y \in Nat
      BY <1>1, <1>3, <1>4
    <3>2. z = Len(w[k - 1]) + y /\ Len(w[k - 1]) \in Nat
      BY <1>1, <1>4
    <3> HIDE DEF x, y, z
    <3>3. x <= z
      BY <3>1, <3>2
    <3>4. QED BY <3>3 DEF x, z
  <2>3. QED BY <1>1, <2>1, <2>2
<1>6. ASSUME NEW d \in U, d \in Nat, d < m PROVE d + 1 \in U
  <2>1. k + (d + 1) \in 1 .. N /\ (k + (d + 1)) - 1 = k + d /\ d + 1 \in 0 .. m
    BY <1>1, <1>6
  <2>2. Len(w[k + (d + 1)]) = Len(w[k + d]) + Len(R(k + (d + 1)))
        /\ Len(w[k + d]) \in Nat /\ Len(R(k + (d + 1))) \in Nat
    BY <1>4, <2>1
  <2>3. Len(values[k]) <= Len(w[k + d])
    BY <1>6
  <2>4. Len(values[k]) <= Len(w[k + (d + 1)])
    <3> DEFINE x == Len(values[k])
               y == Len(w[k + d])
               more == Len(R(k + (d + 1)))
               z == Len(w[k + (d + 1)])
    <3>1. x \in Nat /\ y \in Nat /\ more \in Nat /\ x <= y /\ z = y + more
      BY <2>2, <2>3
    <3> HIDE DEF x, y, z, more
    <3>2. x <= z
      BY <3>1
    <3>3. QED BY <3>2 DEF x, z
  <2>5. QED BY <2>1, <2>4
<1>7. \A d \in 0 .. m : d \in U
  <2> HIDE DEF U
  <2>1. QED BY <1>1, <1>5, <1>6, Upwards
<1>8. m \in U
  BY <1>1, <1>7
<1>9. QED BY <1>1, <1>8 DEF N

\* Numbers are written; if they can be sent, all the records are read back from them.
WrittenWell(records, b) ==
  /\ b \in Seq(Nat)
  /\ Sendable(b) => \E values : AllReadFrom(records, values)
                                  /\ b = Serialized(records, values)[Len(records)]
Fine(d) == \A records \in Seq(lwm2m_tlv_t[d]) :
             WrittenWell(records, lwm2m_tlv_serialize[d][records])

\* What the records in a record are written as, they are read from.
LEMMA ReadInside ==
  ASSUME NEW T, NEW records \in Seq(T), NEW b, WrittenWell(records, b), Sendable(b)
  PROVE  b \in Seq(Byte) /\ lwm2m_tlv_parse[b] = records /\ records # <<>>
<1>1. PICK values : AllReadFrom(records, values) /\ b = Serialized(records, values)[Len(records)]
  BY DEF WrittenWell
<1> DEFINE w == Serialized(records, values)
<1>2. Piled(w, records, values)
  BY <1>1, SerializedOK
<1>3. lwm2m_tlv_parse[b] = records
  BY <1>1, ListReadsBack
<1> HIDE DEF w
<1>4. Len(records) \in 0 .. Len(records)
  OBVIOUS
<1>5. b = w[Len(records)] /\ b \in Seq(Byte)
  BY <1>1, <1>2, <1>4 DEF Piled, PiledIn, w
<1>6. records # <<>>
  <2> SUFFICES ASSUME Len(records) = 0 PROVE FALSE
    OBVIOUS
  <2>1. b = w[0] /\ w[0] = <<>>
    BY <1>2, <1>5 DEF Piled, PiledIn
  <2>2. QED BY <2>1 DEF Sendable
<1>7. QED BY <1>3, <1>5, <1>6

\* Bytes are numbers: what the records of one level are may stand in another.
LEMMA BytesAreNumbers ==
  \A b : b \in Seq(Byte) => b \in Seq(Nat)
<1>1. Byte \subseteq Nat
  BY DEF Byte
<1>2. \A A, B : A \subseteq B => \A b : b \in Seq(A) => b \in Seq(B)
  OBVIOUS
<1>3. QED BY <1>1, <1>2, Zenon

\* A record that can be sent has a value that can be read, given the levels below.
LEMMA InsideOK ==
  ASSUME NEW d \in 0 .. Depth, d # 0 => Fine(d - 1), NEW r \in lwm2m_tlv_t[d],
         NEW v, v = Inside(lwm2m_tlv_serialize, d, r)
  PROVE  /\ r.type \in RecordTypes /\ IsId(r.id) /\ v \in Seq(Nat)
         /\ Len(v) < 16777216 /\ (r.type \in Nested => v # <<>>) => ReadFrom(r, v)
<1>1. /\ r = [type |-> r.type, id |-> r.id, value |-> r.value]
      /\ r.type \in RecordTypes /\ IsId(r.id)
      /\ r.type \notin Nested => r.value \in Seq(Byte)
      /\ r.type \in Nested => d # 0 /\ r.value \in Seq(lwm2m_tlv_t[d - 1])
  BY RecordIs
<1>2. CASE r.type \notin Nested
  <2>1. v = r.value /\ v \in Seq(Byte)
    BY <1>1, <1>2 DEF Inside
  <2>2. v \in Seq(Nat) /\ Len(v) \in Nat
    <3>1. v \in Seq(Nat)
      BY <2>1, BytesAreNumbers
    <3>2. QED BY <3>1
  <2>3. Len(v) < 16777216 => IsLength(Len(v))
    BY <2>2 DEF IsLength
  <2>4. QED BY <1>1, <1>2, <2>1, <2>2, <2>3 DEF ReadFrom
<1>3. CASE r.type \in Nested
  <2> DEFINE records == r.value
             T == lwm2m_tlv_t[d - 1]
  <2>1. records \in Seq(T) /\ v = lwm2m_tlv_serialize[d - 1][records]
    BY <1>1, <1>3 DEF Inside
  <2>2. WrittenWell(records, v)
    BY <1>1, <1>3, <2>1 DEF Fine
  <2>3. v \in Seq(Nat) /\ Len(v) \in Nat
    BY <2>2 DEF WrittenWell
  <2> HIDE DEF T, records
  <2>4. ASSUME Len(v) < 16777216, v # <<>>
        PROVE  v \in Seq(Byte) /\ lwm2m_tlv_parse[v] = records /\ records # <<>>
    <3>1. Sendable(v)
      BY <2>4 DEF Sendable
    <3>2. QED BY <2>1, <2>2, <3>1, ReadInside
  <2>5. Len(v) < 16777216 => IsLength(Len(v))
    BY <2>3 DEF IsLength
  <2>6. QED BY <1>1, <1>3, <2>3, <2>4, <2>5 DEF ReadFrom, records
<1>4. QED BY <1>2, <1>3

\* From one level of records in records to the next.
LEMMA FineAbove ==
  ASSUME NEW d \in 0 .. Depth, d # 0 => Fine(d - 1)
  PROVE  Fine(d)
<1> SUFFICES ASSUME NEW records \in Seq(lwm2m_tlv_t[d])
             PROVE  WrittenWell(records, lwm2m_tlv_serialize[d][records])
  BY DEF Fine
<1> DEFINE T == lwm2m_tlv_t[d]
           values == Insides(lwm2m_tlv_serialize, d, records)
           N == Len(records)
           w == Serialized(records, values)
           b == lwm2m_tlv_serialize[d][records]
           R(i) == Record(records[i].type, records[i].id, values[i])
<1>1. b = Whole(records, values)
  BY SerializeLevels DEF Made
<1>2. N \in Nat /\ DOMAIN records = 1 .. N
  OBVIOUS
<1>3. Len(values) = N /\ \A k \in 1 .. N : values[k] = Inside(lwm2m_tlv_serialize, d, records[k])
  BY <1>2 DEF Insides
<1>4. \A k \in 1 .. N : records[k] \in T
  BY ElementOfSeq
<1> HIDE DEF values, T, b
<1>5. ASSUME NEW k \in 1 .. N
      PROVE  /\ records[k].type \in RecordTypes /\ IsId(records[k].id) /\ values[k] \in Seq(Nat)
             /\ Len(values[k]) < 16777216 /\ (records[k].type \in Nested => values[k] # <<>>) =>
                  ReadFrom(records[k], values[k])
  <2> DEFINE r == records[k]
             v == values[k]
  <2>1. r \in lwm2m_tlv_t[d] /\ v = Inside(lwm2m_tlv_serialize, d, r)
    BY <1>3, <1>4 DEF T
  <2> HIDE DEF r, v
  <2>2. /\ r.type \in RecordTypes /\ IsId(r.id) /\ v \in Seq(Nat)
        /\ Len(v) < 16777216 /\ (r.type \in Nested => v # <<>>) => ReadFrom(r, v)
    BY <2>1, InsideOK
  <2>3. QED BY <2>2 DEF r, v
<1>6. ASSUME NEW k \in 1 .. N
      PROVE  R(k) \in Seq(Nat) /\ Len(values[k]) <= Len(R(k)) /\ Len(values[k]) \in Nat
  <2> DEFINE v == values[k]
             type == records[k].type
             id == records[k].id
  <2>1. type \in RecordTypes /\ IsId(id) /\ v \in Seq(Nat)
    BY <1>5
  <2> HIDE DEF v, type, id
  <2>2. Record(type, id, v) \in Seq(Nat) /\ Len(v) <= Len(Record(type, id, v)) /\ Len(v) \in Nat
    BY <2>1, RecordHolds
  <2>3. QED BY <2>2 DEF v, type, id
<1>7. CASE \E k \in DOMAIN records : records[k].type \in Nested /\ values[k] = <<>>
  <2>1. b = <<>>
    BY <1>1, <1>7 DEF Whole
  <2>2. b \in Seq(Nat) /\ ~Sendable(b)
    BY <2>1 DEF Sendable
  <2>3. QED BY <2>2 DEF WrittenWell, b
<1>8. CASE ~\E k \in DOMAIN records : records[k].type \in Nested /\ values[k] = <<>>
  <2>1. b = w[N]
    BY <1>1, <1>8, Zenon DEF Whole
  <2>2. \A k \in 1 .. N : records[k].type \in Nested => values[k] # <<>>
    BY <1>2, <1>8
  <2>3. RecordsIn(Nat, records, values)
    BY <1>6 DEF RecordsIn
  <2>4. PiledIn(Nat, w, records, values)
    BY <2>3, SerializedIs
  <2> HIDE DEF w
  <2>5. b \in Seq(Nat) /\ Len(b) \in Nat
    <3>1. N \in 0 .. N
      BY <1>2
    <3>2. b \in Seq(Nat)
      BY <2>1, <2>4, <3>1 DEF PiledIn
    <3>3. QED BY <3>2
  <2>6. ASSUME Sendable(b)
        PROVE  AllReadFrom(records, values)
    <3> SUFFICES ASSUME NEW k \in 1 .. N PROVE ReadFrom(records[k], values[k])
      BY <1>3 DEF AllReadFrom
    <3>1. Len(values[k]) <= Len(w[N])
      <4>1. Len(values[k]) \in Nat /\ Len(values[k]) <= Len(R(k))
        BY <1>6
      <4>2. QED BY <2>3, <2>4, <4>1, ValuesFit
    <3>2. Len(values[k]) < 16777216
      <4> DEFINE x == Len(values[k])
                 y == Len(b)
      <4>1. x \in Nat /\ y \in Nat /\ x <= y /\ y < 16777216
        BY <1>6, <2>1, <2>5, <2>6, <3>1 DEF Sendable
      <4> HIDE DEF x, y
      <4>2. x < 16777216
        BY <4>1
      <4>3. QED BY <4>2 DEF x
    <3>3. QED BY <1>5, <2>2, <3>2
  <2>7. Sendable(b) => \E v : AllReadFrom(records, v) /\ b = Serialized(records, v)[Len(records)]
    BY <2>1, <2>6, Zenon DEF w, N
  <2>8. QED BY <2>5, <2>7 DEF WrittenWell, b
<1>9. QED BY <1>7, <1>8

\* So it is on every level.
LEMMA AllFine ==
  \A d \in 0 .. Depth : Fine(d)
<1> DEFINE T == {d \in 0 .. Depth : Fine(d)}
<1>1. Depth \in Nat
  BY TlvAssumption
<1>2. 0 \in T
  BY <1>1, FineAbove
<1>3. ASSUME NEW n \in T, n \in Nat, n < Depth PROVE n + 1 \in T
  <2>1. n + 1 \in 0 .. Depth /\ (n + 1) - 1 = n /\ Fine(n)
    BY <1>1, <1>3
  <2> DEFINE m == n + 1
  <2>2. m \in 0 .. Depth /\ Fine(m - 1)
    BY <2>1
  <2> HIDE DEF m
  <2>3. Fine(m)
    BY <2>2, FineAbove
  <2>4. QED BY <2>2, <2>3 DEF m
<1>4. \A d \in 0 .. Depth : d \in T
  <2> HIDE DEF T
  <2>1. QED BY <1>1, <1>2, <1>3, Upwards
<1>5. QED BY <1>4

\* Records are read as they were sent, however deep they nest.
THEOREM TreesReadBack == RecordsReadBack
<1> SUFFICES ASSUME NEW t \in Trees, NEW b, b = lwm2m_tlv_serialize[Depth][t], Sendable(b)
             PROVE  lwm2m_tlv_parse[b] = t
  BY Zenon DEF RecordsReadBack
<1>1. t \in Seq(lwm2m_tlv_t[Depth]) /\ Depth \in 0 .. Depth
  BY TlvAssumption
<1>2. WrittenWell(t, b)
  BY <1>1, AllFine DEF Fine
<1>3. QED BY <1>1, <1>2, ReadInside

\* Cut anywhere, they are read up to the cut.
THEOREM CutTreesKeepBeginning == CutKeepsBeginning
<1> SUFFICES ASSUME NEW t \in CutTrees, NEW b, b = lwm2m_tlv_serialize[Depth][t], Sendable(b),
                    NEW k \in 0 .. Len(b)
             PROVE  IsPrefix(lwm2m_tlv_parse[SubSeq(b, 1, k)], t)
  BY Zenon DEF CutKeepsBeginning
<1>1. t \in Seq(lwm2m_tlv_t[Depth]) /\ Depth \in 0 .. Depth
  BY TlvAssumption
<1>2. WrittenWell(t, b)
  BY <1>1, AllFine DEF Fine
<1>3. PICK values : AllReadFrom(t, values) /\ b = Serialized(t, values)[Len(t)]
  BY <1>2 DEF WrittenWell
<1> DEFINE w == Serialized(t, values)
           got == lwm2m_tlv_parse[SubSeq(b, 1, k)]
<1>4. BeginningRead(t, w, k)
  BY <1>1, <1>3, CutListKeepsBeginning, Zenon
<1>5. PICK j \in 0 .. Len(t) : got = SubSeq(t, 1, j)
  BY <1>3, <1>4 DEF BeginningRead
<1> HIDE DEF got
<1> DEFINE s == SubSeq(t, 1, j)
<1>6. Len(s) = j /\ Len(s) <= Len(t) /\ SubSeq(t, 1, Len(s)) = s
  BY <1>1
<1>7. QED BY <1>5, <1>6 DEF IsPrefix, got

-----------------------------------------------------------------------------
(* PlainText: integers as text. *)

\* What lwm2m_PlainTextToInt64 holds after each character.
Results(body) ==
  LET result[i \in 0 .. Len(body)] == IF i = 0 THEN 0 ELSE MoreDigits(result[i - 1], body[i])
  IN  result
Result == 0 .. INT64_SPACE

\* Where the check before a digit stops: at a tenth of the largest number, which ends in 5.
LEMMA WidthOK ==
  \E q \in Nat : /\ INT64_SPACE = 10 * q + 6 /\ UINT64_MAX \div 10 = q /\ q > 0
BY TextAssumption, SMT DEF UINT64_MAX

\* The bounds of an int64_t in one number.
LEMMA LimitOK ==
  /\ INT64_MAX \in Nat /\ INT64_SPACE = 2 * INT64_MAX + 2 /\ INT64_MIN = -INT64_MAX - 1
  /\ INT64_MAX > 6 /\ NoNumber = INT64_SPACE
BY TextAssumption, SMT DEF INT64_MAX, INT64_MIN, NoNumber

\* What one more character makes of a result.
LEMMA MoreDigitsOK ==
  ASSUME NEW r \in Result, NEW c \in Character
  PROVE  /\ MoreDigits(r, c) \in Result
         /\ (r = NoNumber \/ c \notin Digit) => MoreDigits(r, c) = NoNumber
         /\ (r # NoNumber /\ c \in Digit) =>
               \/ 10 * r + c < INT64_SPACE /\ MoreDigits(r, c) = 10 * r + c
               \/ 10 * r + c >= INT64_SPACE /\ MoreDigits(r, c) = NoNumber
               \/ 10 * r + c \in INT64_SPACE .. INT64_SPACE + 3
<1>1. PICK q \in Nat : INT64_SPACE = 10 * q + 6 /\ UINT64_MAX \div 10 = q /\ q > 0
  BY WidthOK
<1>2. NoNumber \in Result /\ NoNumber = INT64_SPACE
  BY <1>1, SMT DEF Result, NoNumber
<1>3. CASE r = NoNumber \/ c \notin Digit
  <2>1. MoreDigits(r, c) = NoNumber
    BY <1>3 DEF MoreDigits
  <2>2. QED BY <1>2, <1>3, <2>1
<1>4. CASE r # NoNumber /\ c \in Digit /\ r > q
  <2>1. MoreDigits(r, c) = NoNumber
    BY <1>1, <1>4 DEF MoreDigits
  <2>2. 10 * r + c >= INT64_SPACE
    BY <1>1, <1>4, SMT DEF Result, Digit
  <2>3. QED BY <1>2, <1>4, <2>1, <2>2
<1>5. CASE r # NoNumber /\ c \in Digit /\ ~(r > q)
  <2>1. MoreDigits(r, c) = (r * 10 + c) % INT64_SPACE
    BY <1>1, <1>5 DEF MoreDigits
  <2>2. r \in Nat /\ c \in 0 .. 9 /\ r <= q
    BY <1>1, <1>5, SMT DEF Result, Digit
  <2>3. 10 * r + c < INT64_SPACE \/ 10 * r + c \in INT64_SPACE .. INT64_SPACE + 3
    BY <1>1, <2>2, SMT
  <2>4. MoreDigits(r, c) \in 0 .. INT64_SPACE - 1
    BY <1>1, <2>1, <2>2, SMT
  <2>5. 10 * r + c < INT64_SPACE => MoreDigits(r, c) = 10 * r + c
    BY <1>1, <2>1, <2>2, SMT
  <2>6. MoreDigits(r, c) \in Result
    BY <1>1, <2>4, SMT DEF Result
  <2>7. QED BY <1>5, <2>3, <2>5, <2>6
<1>6. QED BY <1>3, <1>4, <1>5

\* The loop of lwm2m_PlainTextToInt64, character by character.
LEMMA ResultsOK ==
  ASSUME NEW body \in Seq(Character)
  PROVE  /\ \A i \in 0 .. Len(body) : Results(body)[i] \in Result
         /\ Results(body)[0] = 0
         /\ \A i \in 1 .. Len(body) :
              Results(body)[i] = MoreDigits(Results(body)[i - 1], body[i])
<1> DEFINE Step(f) == [i \in 0 .. Len(body) |->
                         IF i = 0 THEN 0 ELSE MoreDigits(f[i - 1], body[i])]
           step == [i \in 1 .. Len(body) |-> [r \in Result |-> MoreDigits(r, body[i])]]
<1>1. Len(body) \in Nat /\ \A i \in 1 .. Len(body) : body[i] \in Character
  OBVIOUS
<1>2. step \in Rounds(Len(body), Result) /\ 0 \in Result
  <2>1. \A i \in 1 .. Len(body) : \A r \in Result : MoreDigits(r, body[i]) \in Result
    BY <1>1, MoreDigitsOK
  <2>2. 0 \in Result
    BY TextAssumption, SMT DEF Result
  <2>3. QED BY <2>1, <2>2 DEF Rounds
<1>3. PICK f \in [0 .. Len(body) -> Result] :
        f[0] = 0 /\ \A n \in 1 .. Len(body) : f[n] = step[n][f[n - 1]]
  <2> DEFINE zero == 0
  <2>1. zero \in Result
    BY TextAssumption, SMT DEF Result
  <2> HIDE DEF step, zero
  <2>2. \E f : Runs(f, Len(body), Result, zero, step)
    BY <1>1, <1>2, <2>1, Course
  <2>3. QED BY <2>2 DEF Runs, zero
<1>4. ASSUME NEW n \in 1 .. Len(body)
      PROVE  f[n - 1] \in Result /\ f[n] = MoreDigits(f[n - 1], body[n])
  <2>1. n - 1 \in 0 .. Len(body) /\ f[n - 1] \in Result
    BY <1>1
  <2>2. f[n] = step[n][f[n - 1]]
    BY <1>3
  <2>3. QED BY <2>1, <2>2
<1>5. f = Step(f)
  <2>1. \A i \in 0 .. Len(body) : f[i] = IF i = 0 THEN 0 ELSE MoreDigits(f[i - 1], body[i])
    BY <1>1, <1>3, <1>4
  <2>2. f = [i \in 0 .. Len(body) |-> f[i]]
    OBVIOUS
  <2>3. QED BY <2>1, <2>2
<1>6. Results(body) = CHOOSE v : v = Step(v)
  BY DEF Results
<1>7. Results(body) = Step(Results(body))
  <2> HIDE DEF Step
  <2>1. QED BY <1>5, <1>6
<1>8. \A i \in 0 .. Len(body) :
        Results(body)[i] = IF i = 0 THEN 0 ELSE MoreDigits(Results(body)[i - 1], body[i])
  <2> HIDE DEF Results
  <2>1. QED BY <1>7
<1>9. /\ Results(body)[0] = 0
      /\ \A i \in 1 .. Len(body) : Results(body)[i] = MoreDigits(Results(body)[i - 1], body[i])
  BY <1>1, <1>8
<1>10. \A i \in 0 .. Len(body) : Results(body)[i] \in Result
  <2> DEFINE T == {i \in 0 .. Len(body) : Results(body)[i] \in Result}
  <2>1. 0 \in T
    BY <1>1, <1>2, <1>9
  <2>2. ASSUME NEW n \in T, n \in Nat, n < Len(body) PROVE n + 1 \in T
    <3>1. n + 1 \in 1 .. Len(body) /\ (n + 1) - 1 = n /\ Results(body)[n] \in Result
      BY <1>1, <2>2
    <3>2. Results(body)[n + 1] = MoreDigits(Results(body)[n], body[n + 1])
      BY <1>9, <3>1
    <3>3. Results(body)[n + 1] \in Result
      BY <1>1, <3>1, <3>2, MoreDigitsOK
    <3>4. QED BY <1>1, <3>1, <3>3
  <2>3. \A n \in 0 .. Len(body) : n \in T
    <3> HIDE DEF T
    <3>1. QED BY <1>1, <2>1, <2>2, Upwards
  <2>4. QED BY <2>3
<1>11. QED BY <1>9, <1>10

\* What the first digits say, one after the other.
LEMMA SaidOK ==
  ASSUME NEW body \in Seq(Digit)
  PROVE  /\ \A i \in 0 .. Len(body) : Said(body)[i] \in Nat
         /\ Said(body)[0] = 0
         /\ \A i \in 1 .. Len(body) : Said(body)[i] = 10 * Said(body)[i - 1] + body[i]
<1> DEFINE Step(f) == [i \in 0 .. Len(body) |-> IF i = 0 THEN 0 ELSE 10 * f[i - 1] + body[i]]
           step == [i \in 1 .. Len(body) |-> [r \in Nat |-> 10 * r + body[i]]]
<1>1. Len(body) \in Nat /\ \A i \in 1 .. Len(body) : body[i] \in Nat
  BY DEF Digit
<1>2. step \in Rounds(Len(body), Nat)
  <2>1. \A i \in 1 .. Len(body) : \A r \in Nat : 10 * r + body[i] \in Nat
    BY <1>1
  <2>2. QED BY <2>1 DEF Rounds
<1>3. PICK f \in [0 .. Len(body) -> Nat] :
        f[0] = 0 /\ \A n \in 1 .. Len(body) : f[n] = step[n][f[n - 1]]
  <2> DEFINE S == Nat
             zero == 0
  <2>1. zero \in S /\ step \in Rounds(Len(body), S)
    BY <1>2
  <2> HIDE DEF step, S, zero
  <2>2. \E f : Runs(f, Len(body), S, zero, step)
    BY <1>1, <2>1, Course
  <2>3. QED BY <2>2 DEF S, zero, Runs
<1>4. ASSUME NEW n \in 1 .. Len(body)
      PROVE  f[n - 1] \in Nat /\ f[n] = 10 * f[n - 1] + body[n]
  <2>1. n - 1 \in 0 .. Len(body) /\ f[n - 1] \in Nat
    BY <1>1
  <2>2. f[n] = step[n][f[n - 1]]
    BY <1>3
  <2>3. QED BY <2>1, <2>2
<1>5. f = Step(f)
  <2>1. \A i \in 0 .. Len(body) : f[i] = IF i = 0 THEN 0 ELSE 10 * f[i - 1] + body[i]
    BY <1>1, <1>3, <1>4
  <2>2. f = [i \in 0 .. Len(body) |-> f[i]]
    OBVIOUS
  <2>3. QED BY <2>1, <2>2
<1>6. Said(body) = CHOOSE v : v = Step(v)
  BY DEF Said
<1>7. Said(body) = Step(Said(body))
  <2> HIDE DEF Step
  <2>1. QED BY <1>5, <1>6
<1>8. \A i \in 0 .. Len(body) :
        Said(body)[i] = IF i = 0 THEN 0 ELSE 10 * Said(body)[i - 1] + body[i]
  <2> HIDE DEF Said
  <2>1. QED BY <1>7
<1>9. /\ Said(body)[0] = 0
      /\ \A i \in 1 .. Len(body) : Said(body)[i] = 10 * Said(body)[i - 1] + body[i]
  BY <1>1, <1>8
<1>10. \A i \in 0 .. Len(body) : Said(body)[i] \in Nat
  <2> DEFINE T == {i \in 0 .. Len(body) : Said(body)[i] \in Nat}
  <2>1. 0 \in T
    BY <1>1, <1>9
  <2>2. ASSUME NEW n \in T, n \in Nat, n < Len(body) PROVE n + 1 \in T
    <3>1. n + 1 \in 1 .. Len(body) /\ (n + 1) - 1 = n /\ Said(body)[n] \in Nat
      BY <1>1, <2>2
    <3>2. Said(body)[n + 1] = 10 * Said(body)[n] + body[n + 1] /\ body[n + 1] \in Nat
      BY <1>1, <1>9, <3>1
    <3>3. QED BY <1>1, <3>1, <3>2
  <2>3. \A n \in 0 .. Len(body) : n \in T
    <3> HIDE DEF T
    <3>1. QED BY <1>1, <2>1, <2>2, Upwards
  <2>4. QED BY <2>3
<1>11. QED BY <1>9, <1>10

\* Digits are characters.
LEMMA DigitsAreCharacters ==
  \A body : body \in Seq(Digit) => body \in Seq(Character)
<1> SUFFICES ASSUME NEW body, body \in Seq(Digit) PROVE body \in Seq(Character)
  OBVIOUS
<1>1. Digit \subseteq Character
  BY DEF Character
<1>2. QED BY <1>1

\* The largest number that is read, and the number of a text that is not one.
LEMMA BoundsOK ==
  /\ INT64_MAX \in Nat /\ INT64_SPACE \in Nat /\ INT64_MAX < INT64_SPACE
  /\ NoNumber = INT64_SPACE
BY LimitOK, TextAssumption, SMT

\* A character that is not a digit spoils the whole text.
LEMMA JunkOK ==
  ASSUME NEW body \in Seq(Character), NEW k \in 1 .. Len(body), body[k] \notin Digit
  PROVE  Results(body)[Len(body)] = NoNumber
<1> DEFINE N == Len(body) - k
           T == {n \in 0 .. N : Results(body)[k + n] = NoNumber}
<1>1. N \in Nat /\ Len(body) \in Nat /\ k + N = Len(body)
  OBVIOUS
<1>2. ASSUME NEW i \in 1 .. Len(body), body[i] \notin Digit \/ Results(body)[i - 1] = NoNumber
      PROVE  Results(body)[i] = NoNumber
  <2>1. i - 1 \in 0 .. Len(body) /\ body[i] \in Character
    BY <1>1
  <2>2. Results(body)[i - 1] \in Result
    BY <2>1, ResultsOK
  <2>3. Results(body)[i] = MoreDigits(Results(body)[i - 1], body[i])
    BY ResultsOK
  <2>4. QED BY <1>2, <2>1, <2>2, <2>3, MoreDigitsOK
<1>3. 0 \in T
  <2>1. Results(body)[k] = NoNumber
    BY <1>2
  <2>2. k + 0 = k
    OBVIOUS
  <2>3. QED BY <1>1, <2>1, <2>2
<1>4. ASSUME NEW n \in T, n \in Nat, n < N PROVE n + 1 \in T
  <2>1. k + (n + 1) \in 1 .. Len(body) /\ (k + (n + 1)) - 1 = k + n /\ n + 1 \in 0 .. N
    BY <1>1, <1>4
  <2>2. Results(body)[k + n] = NoNumber
    BY <1>4
  <2>3. Results(body)[k + (n + 1)] = NoNumber
    BY <1>2, <2>1, <2>2
  <2>4. QED BY <2>1, <2>3
<1>5. N \in T
  <2> HIDE DEF T
  <2>1. \A n \in 0 .. N : n \in T
    BY <1>1, <1>3, <1>4, Upwards
  <2>2. QED BY <1>1, <2>1
<1>6. QED BY <1>1, <1>5

\* The loop holds what the digits up to there say, or has given up because that is
\* too much, as long as it has not wrapped around.
LEMMA ReadOK ==
  ASSUME NEW body \in Seq(Digit),
         \A k \in 1 .. Len(body) : Said(body)[k] \notin INT64_SPACE .. INT64_SPACE + 3
  PROVE  \A i \in 0 .. Len(body) :
           Results(body)[i] = IF Said(body)[i] < INT64_SPACE THEN Said(body)[i] ELSE NoNumber
<1> DEFINE Right(i) == Results(body)[i] = IF Said(body)[i] < INT64_SPACE THEN Said(body)[i]
                                                                       ELSE NoNumber
           T == {i \in 0 .. Len(body) : Right(i)}
<1>1. body \in Seq(Character) /\ Len(body) \in Nat
  BY DigitsAreCharacters
<1>2. 0 \in T
  <2>1. Results(body)[0] = 0 /\ Said(body)[0] = 0
    BY <1>1, ResultsOK, SaidOK
  <2>2. QED BY <1>1, <2>1, BoundsOK, LimitOK
<1>3. ASSUME NEW n \in T, n \in Nat, n < Len(body) PROVE n + 1 \in T
  <2> DEFINE r == Results(body)[n]
             s == Said(body)[n]
             c == body[n + 1]
  <2>1. n \in 0 .. Len(body) /\ n + 1 \in 1 .. Len(body) /\ n + 1 \in 0 .. Len(body)
        /\ (n + 1) - 1 = n
    BY <1>1, <1>3
  <2>2. Results(body)[n + 1] = MoreDigits(r, c) /\ r \in Result
    BY <1>1, <2>1, ResultsOK
  <2>3. Said(body)[n + 1] = 10 * s + c /\ s \in Nat
    BY <2>1, SaidOK
  <2>4. c \in Digit /\ c \in Character /\ c \in Nat
    BY <1>1, <2>1 DEF Digit
  <2>5. r = IF s < INT64_SPACE THEN s ELSE NoNumber
    BY <1>3
  <2>6. Said(body)[n + 1] \notin INT64_SPACE .. INT64_SPACE + 3
    BY <2>1
  <2> HIDE DEF r, s, c
  <2>7. CASE s < INT64_SPACE
    <3>1. r = s /\ r # NoNumber
      BY <2>3, <2>5, <2>7, BoundsOK
    <3>2. \/ 10 * r + c < INT64_SPACE /\ MoreDigits(r, c) = 10 * r + c
          \/ 10 * r + c >= INT64_SPACE /\ MoreDigits(r, c) = NoNumber
          \/ 10 * r + c \in INT64_SPACE .. INT64_SPACE + 3
      BY <2>2, <2>4, <3>1, MoreDigitsOK
    <3>3. Right(n + 1)
      BY <2>2, <2>3, <2>4, <2>6, <3>1, <3>2, BoundsOK
    <3>4. QED BY <2>1, <3>3
  <2>8. CASE ~(s < INT64_SPACE)
    <3>1. r = NoNumber /\ MoreDigits(r, c) = NoNumber
      BY <2>2, <2>4, <2>5, <2>8, MoreDigitsOK
    <3>2. ~(10 * s + c < INT64_SPACE)
      BY <2>3, <2>4, <2>8, BoundsOK
    <3>3. Right(n + 1)
      BY <2>2, <2>3, <3>1, <3>2
    <3>4. QED BY <2>1, <3>3
  <2>9. QED BY <2>7, <2>8
<1>4. \A i \in 0 .. Len(body) : i \in T
  <2> HIDE DEF T
  <2>1. QED BY <1>1, <1>2, <1>3, Upwards
<1>5. QED BY <1>4

\* What comes out of the loop.
LEMMA ParseOK ==
  ASSUME NEW text, NEW n, n = Results(Unsigned(text))[Len(Unsigned(text))]
  PROVE  lwm2m_PlainTextToInt64(text) =
           IF text = <<>> \/ n = NoNumber \/ n > INT64_MAX THEN NoNumber ELSE WithSign(text, n)
BY DEF lwm2m_PlainTextToInt64, Results

\* A text without its sign is a text.
LEMMA UnsignedOK ==
  ASSUME NEW text \in Seq(Character)
  PROVE  /\ Unsigned(text) \in Seq(Character)
         /\ Negative(text) \in BOOLEAN
BY DEF Unsigned, Negative

\* Every text is read for what it says, however long it is.
THEOREM TextsReadForWhatTheySay == \A text \in Seq(Character) : ReadForWhatItSays(text)
<1> SUFFICES ASSUME NEW text \in Seq(Character) PROVE ReadForWhatItSays(text)
  OBVIOUS
<1> DEFINE body == Unsigned(text)
           n == Results(body)[Len(body)]
           read == lwm2m_PlainTextToInt64(text)
<1>1. body \in Seq(Character) /\ Len(body) \in Nat
  BY UnsignedOK
<1>2. read = IF text = <<>> \/ n = NoNumber \/ n > INT64_MAX THEN NoNumber ELSE WithSign(text, n)
  BY ParseOK
<1>3. CASE text = <<>>
  BY <1>2, <1>3 DEF ReadForWhatItSays
<1>4. CASE text # <<>> /\ ~OnlyDigits(body)
  <2>1. PICK k \in 1 .. Len(body) : body[k] \notin Digit
    BY <1>1, <1>4 DEF OnlyDigits
  <2>2. n = NoNumber
    BY <1>1, <2>1, JunkOK
  <2>3. read = NoNumber
    BY <1>2, <2>2
  <2>4. QED BY <1>4, <2>3 DEF ReadForWhatItSays
<1>5. CASE text # <<>> /\ OnlyDigits(body) /\ WrapsAround(text)
  BY <1>5 DEF ReadForWhatItSays
<1>6. CASE text # <<>> /\ OnlyDigits(body) /\ ~WrapsAround(text)
  <2> DEFINE s == Said(body)[Len(body)]
  <2>1. body \in Seq(Digit)
    <3>1. \A k \in 1 .. Len(body) : body[k] \in Digit
      BY <1>1, <1>6 DEF OnlyDigits
    <3>2. QED BY <1>1, <3>1
  <2>2. \A k \in 1 .. Len(body) : Said(body)[k] \notin INT64_SPACE .. INT64_SPACE + 3
    BY <1>1, <1>6 DEF WrapsAround
  <2>3. n = IF s < INT64_SPACE THEN s ELSE NoNumber
    BY <1>1, <2>1, <2>2, ReadOK
  <2>4. s \in Nat
    BY <1>1, <2>1, SaidOK
  <2>5. Says(text) = WithSign(text, s)
    BY DEF Says
  <2> HIDE DEF s, n, body, read
  <2>6. (Says(text) \in Int64 \ {INT64_MIN}) <=> s <= INT64_MAX
    BY <2>4, <2>5, LimitOK, SMT DEF WithSign, Int64
  <2>7. read = IF Says(text) \in Int64 \ {INT64_MIN} THEN Says(text) ELSE NoNumber
    <3>1. CASE s <= INT64_MAX
      <4>1. n = s /\ n # NoNumber /\ ~(n > INT64_MAX)
        BY <2>3, <2>4, <3>1, BoundsOK
      <4>2. QED BY <1>2, <1>6, <2>5, <2>6, <3>1, <4>1
    <3>2. CASE ~(s <= INT64_MAX)
      <4>1. n = NoNumber \/ n > INT64_MAX
        BY <2>3, <2>4, <3>2, BoundsOK
      <4>2. QED BY <1>2, <2>6, <3>2, <4>1
    <3>3. QED BY <3>1, <3>2
  <2>8. QED BY <1>6, <2>7 DEF ReadForWhatItSays, read, body
<1>7. QED BY <1>3, <1>4, <1>5, <1>6

\* The digits of n, from those of shorter numbers.
Spelling(f, n) == IF n < 10 THEN <<n>> ELSE Append(f[n \div 10], n % 10)

\* The recursion of digits has a solution: each number is longer than what is left of it.
LEMMA DigitsOK ==
  /\ \A n \in 0 .. INT64_MAX : digits[n] = Spelling(digits, n)
  /\ \A n \in 0 .. INT64_MAX : n >= 10 => n \div 10 \in 0 .. n - 1 /\ n % 10 \in Digit
<1> DEFINE Goes(m, f) == \A n \in 0 .. m : f[n] = Spelling(f, n)
           Far == {m \in 0 .. INT64_MAX : \E f \in [0 .. m -> Seq(Digit)] : Goes(m, f)}
           Step(f) == [n \in 0 .. INT64_MAX |->
                         IF n < 10 THEN <<n>> ELSE Append(f[n \div 10], n % 10)]
<1>1. INT64_MAX \in Nat
  BY BoundsOK
<1>2. ASSUME NEW n \in Nat, n >= 10
      PROVE  n \div 10 \in 0 .. n - 1 /\ n % 10 \in Digit
  BY <1>2, SMT DEF Digit
<1>3. ASSUME NEW n \in Nat, n < 10 PROVE <<n>> \in Seq(Digit)
  BY <1>3 DEF Digit
<1>4. 0 \in Far
  <2> DEFINE g == [n \in 0 .. 0 |-> <<0>>]
  <2>1. <<0>> \in Seq(Digit)
    BY <1>3
  <2>2. g \in [0 .. 0 -> Seq(Digit)] /\ Goes(0, g)
    BY <2>1 DEF Spelling
  <2> HIDE DEF g, Goes
  <2>3. QED BY <1>1, <2>2
<1>5. ASSUME NEW m \in Far, m \in Nat, m < INT64_MAX PROVE m + 1 \in Far
  <2>1. PICK f \in [0 .. m -> Seq(Digit)] : Goes(m, f)
    OBVIOUS
  <2> DEFINE g == [n \in 0 .. m + 1 |-> IF n <= m THEN f[n] ELSE Spelling(f, m + 1)]
  <2>2. Spelling(f, m + 1) \in Seq(Digit)
    <3>1. CASE m + 1 < 10
      BY <1>3, <1>5, <3>1 DEF Spelling
    <3>2. CASE ~(m + 1 < 10)
      <4>1. (m + 1) \div 10 \in 0 .. m /\ (m + 1) % 10 \in Digit
        BY <1>2, <1>5, <3>2
      <4>2. QED BY <3>2, <4>1 DEF Spelling
    <3>3. QED BY <3>1, <3>2
  <2>3. g \in [0 .. m + 1 -> Seq(Digit)]
    BY <1>5, <2>2
  <2>4. ASSUME NEW n \in 0 .. m + 1 PROVE g[n] = Spelling(g, n)
    <3>1. g[n] = Spelling(f, n)
      BY <1>5, <2>1
    <3>2. CASE n < 10
      BY <3>1, <3>2 DEF Spelling
    <3>3. CASE ~(n < 10)
      <4>1. n \div 10 \in 0 .. m
        BY <1>2, <1>5, <3>3
      <4>2. g[n \div 10] = f[n \div 10]
        BY <1>5, <4>1
      <4> HIDE DEF g
      <4>3. QED BY <3>1, <3>3, <4>2 DEF Spelling
    <3>4. QED BY <3>2, <3>3
  <2>5. Goes(m + 1, g)
    BY <2>4
  <2> HIDE DEF g, Goes
  <2>6. QED BY <1>1, <1>5, <2>3, <2>5
<1>6. PICK f \in [0 .. INT64_MAX -> Seq(Digit)] : Goes(INT64_MAX, f)
  <2>1. INT64_MAX \in Far
    <3> HIDE DEF Far
    <3>1. \A n \in 0 .. INT64_MAX : n \in Far
      BY <1>1, <1>4, <1>5, Upwards
    <3>2. QED BY <1>1, <3>1
  <2>2. QED BY <2>1
<1>7. f = Step(f)
  <2>1. \A n \in 0 .. INT64_MAX : f[n] = IF n < 10 THEN <<n>> ELSE Append(f[n \div 10], n % 10)
    BY <1>6 DEF Spelling
  <2>2. f = [n \in 0 .. INT64_MAX |-> f[n]]
    OBVIOUS
  <2>3. QED BY <2>1, <2>2
<1>8. digits = CHOOSE v : v = Step(v)
  BY DEF digits
<1>9. digits = Step(digits)
  <2> HIDE DEF Step
  <2>1. QED BY <1>7, <1>8
<1>10. \A n \in 0 .. INT64_MAX : digits[n] = Spelling(digits, n)
  <2> HIDE DEF digits
  <2>1. QED BY <1>9 DEF Spelling
<1>11. QED BY <1>2, <1>10, <1>1

\* What one more digit adds to what a text says.
LEMMA SaidMore ==
  ASSUME NEW b \in Seq(Digit), NEW c \in Digit
  PROVE  /\ Append(b, c) \in Seq(Digit) /\ Len(Append(b, c)) = Len(b) + 1
         /\ \A i \in 0 .. Len(b) : Said(Append(b, c))[i] = Said(b)[i]
         /\ Said(Append(b, c))[Len(b) + 1] = 10 * Said(b)[Len(b)] + c
<1> DEFINE a == Append(b, c)
           T == {i \in 0 .. Len(b) : Said(a)[i] = Said(b)[i]}
<1>1. /\ a \in Seq(Digit) /\ Len(a) = Len(b) + 1 /\ Len(b) \in Nat
      /\ \A i \in 1 .. Len(b) : a[i] = b[i]
      /\ a[Len(b) + 1] = c
  OBVIOUS
<1> HIDE DEF a
<1>2. 0 \in T
  <2>1. Said(a)[0] = 0 /\ Said(b)[0] = 0
    BY <1>1, SaidOK
  <2>2. QED BY <1>1, <2>1
<1>3. ASSUME NEW n \in T, n \in Nat, n < Len(b) PROVE n + 1 \in T
  <2>1. n + 1 \in 1 .. Len(b) /\ n + 1 \in 1 .. Len(a) /\ (n + 1) - 1 = n
    BY <1>1, <1>3
  <2>2. Said(a)[n + 1] = 10 * Said(a)[n] + a[n + 1]
    BY <1>1, <2>1, SaidOK
  <2>3. Said(b)[n + 1] = 10 * Said(b)[n] + b[n + 1]
    BY <2>1, SaidOK
  <2>4. Said(a)[n + 1] = Said(b)[n + 1]
    BY <1>1, <1>3, <2>1, <2>2, <2>3
  <2>5. QED BY <1>1, <2>1, <2>4
<1>4. \A i \in 0 .. Len(b) : i \in T
  <2> HIDE DEF T
  <2>1. QED BY <1>1, <1>2, <1>3, Upwards
<1>5. Said(a)[Len(b) + 1] = 10 * Said(b)[Len(b)] + c
  <2>1. Len(b) + 1 \in 1 .. Len(a) /\ (Len(b) + 1) - 1 = Len(b) /\ Len(b) \in 0 .. Len(b)
    BY <1>1
  <2>2. Said(a)[Len(b) + 1] = 10 * Said(a)[Len(b)] + a[Len(b) + 1]
    BY <1>1, <2>1, SaidOK
  <2>3. Said(a)[Len(b)] = Said(b)[Len(b)]
    BY <1>4, <2>1
  <2>4. QED BY <1>1, <2>2, <2>3
<1>6. QED BY <1>1, <1>4, <1>5 DEF a

\* b is a way to write n, and no beginning of it says more than n.
Spells(b, n) ==
  /\ b \in Seq(Digit) /\ Len(b) > 0
  /\ Said(b)[Len(b)] = n
  /\ \A k \in 0 .. Len(b) : Said(b)[k] <= n

\* The digits of a number say that number.
LEMMA DigitsSay ==
  \A n \in 0 .. INT64_MAX : Spells(digits[n], n)
<1> DEFINE T == {n \in 0 .. INT64_MAX : ~Spells(digits[n], n)}
<1> SUFFICES ASSUME T # {} PROVE FALSE
  OBVIOUS
<1>1. INT64_MAX \in Nat
  BY BoundsOK
<1>2. PICK n \in T : \A y \in T : n <= y
  <2>1. T \subseteq Nat
    OBVIOUS
  <2> HIDE DEF T
  <2>2. QED BY <2>1, Smallest
<1>3. n \in 0 .. INT64_MAX /\ ~Spells(digits[n], n)
  BY <1>2
<1>4. CASE n < 10
  <2> DEFINE b == <<n>>
  <2>1. b \in Seq(Digit) /\ Len(b) = 1 /\ b[1] = n
    BY <1>3, <1>4 DEF Digit
  <2>2. digits[n] = b
    BY <1>3, <1>4, DigitsOK DEF Spelling
  <2> HIDE DEF b
  <2>3. Said(b)[0] = 0 /\ Said(b)[1] = 10 * Said(b)[1 - 1] + b[1]
    <3>1. 1 \in 1 .. Len(b)
      BY <2>1
    <3>2. QED BY <2>1, <3>1, SaidOK
  <2>4. Said(b)[0] = 0 /\ Said(b)[1] = n
    BY <1>3, <2>1, <2>3
  <2>5. \A k \in 0 .. Len(b) : Said(b)[k] <= n
    BY <1>3, <2>1, <2>4
  <2>6. Spells(b, n)
    BY <2>1, <2>4, <2>5 DEF Spells
  <2>7. QED BY <1>3, <2>2, <2>6
<1>5. CASE ~(n < 10)
  <2> DEFINE m == n \div 10
             c == n % 10
             b == digits[m]
             a == digits[n]
  <2>1. m \in 0 .. n - 1 /\ c \in Digit /\ n = 10 * m + c
    <3>1. m \in 0 .. n - 1 /\ c \in Digit
      BY <1>3, <1>5, DigitsOK
    <3>2. QED BY <1>3, <3>1, SMT
  <2>2. a = Append(b, c)
    BY <1>3, <1>5, DigitsOK DEF Spelling
  <2>3. Spells(b, m)
    <3>1. m \in 0 .. INT64_MAX /\ m \notin T
      <4> HIDE DEF T, m
      <4>1. m \in 0 .. INT64_MAX /\ ~(n <= m)
        BY <1>1, <1>3, <2>1
      <4>2. QED BY <1>2, <4>1
    <3>2. QED BY <3>1
  <2> HIDE DEF a, b, c, m
  <2>4. b \in Seq(Digit) /\ Len(b) \in Nat /\ Said(b)[Len(b)] = m
        /\ \A k \in 0 .. Len(b) : Said(b)[k] <= m /\ Said(b)[k] \in Nat
    BY <2>3, SaidOK DEF Spells
  <2>5. a \in Seq(Digit) /\ Len(a) = Len(b) + 1
    BY <2>1, <2>2, <2>4, SaidMore
  <2>6. \A k \in 0 .. Len(b) : Said(a)[k] = Said(b)[k]
    BY <2>1, <2>2, <2>4, SaidMore
  <2>7. Said(a)[Len(a)] = n
    BY <2>1, <2>2, <2>4, <2>5, SaidMore
  <2>8. ASSUME NEW k \in 0 .. Len(a) PROVE Said(a)[k] <= n
    <3>1. CASE k <= Len(b)
      <4>1. Said(a)[k] <= m /\ Said(a)[k] \in Nat
        BY <2>4, <2>6, <3>1
      <4>2. QED BY <1>1, <1>3, <2>1, <4>1
    <3>2. CASE ~(k <= Len(b))
      BY <1>1, <1>3, <2>4, <2>5, <2>7, <3>2
    <3>3. QED BY <3>1, <3>2
  <2>9. Spells(a, n)
    BY <2>4, <2>5, <2>7, <2>8 DEF Spells
  <2>10. QED BY <1>3, <2>9 DEF a
<1>6. QED BY <1>4, <1>5

\* The digits of a number are read as that number.
LEMMA DigitsRead ==
  ASSUME NEW n \in 0 .. INT64_MAX
  PROVE  /\ digits[n] \in Seq(Digit) /\ Len(digits[n]) > 0
         /\ Results(digits[n])[Len(digits[n])] = n
<1> DEFINE b == digits[n]
<1>1. Spells(b, n)
  BY DigitsSay
<1> HIDE DEF b
<1>2. b \in Seq(Digit) /\ Len(b) > 0 /\ Len(b) \in 0 .. Len(b) /\ Said(b)[Len(b)] = n
  BY <1>1 DEF Spells
<1>3. n < INT64_SPACE /\ n \in Nat /\ INT64_SPACE \in Nat
  BY BoundsOK
<1>4. \A k \in 1 .. Len(b) : Said(b)[k] \notin INT64_SPACE .. INT64_SPACE + 3
  <2>1. \A k \in 1 .. Len(b) : k \in 0 .. Len(b)
    OBVIOUS
  <2>2. \A k \in 0 .. Len(b) : Said(b)[k] <= n /\ Said(b)[k] \in Nat
    BY <1>1, <1>2, SaidOK DEF Spells
  <2>3. QED BY <1>3, <2>1, <2>2
<1>5. Results(b)[Len(b)] = n
  BY <1>2, <1>3, <1>4, ReadOK
<1>6. QED BY <1>2, <1>5 DEF b

\* Every integer is read back from its text, the lowest one as no number.
THEOREM IntegersReadBack == IntegerReadsBack
<1> SUFFICES ASSUME NEW data \in Int64
             PROVE  lwm2m_PlainTextToInt64(prv_intToText(data)) =
                      IF data = INT64_MIN THEN NoNumber ELSE data
  BY DEF IntegerReadsBack
<1> DEFINE text == prv_intToText(data)
           read == lwm2m_PlainTextToInt64(text)
<1>1. /\ INT64_MAX \in Nat /\ INT64_MIN = -INT64_MAX - 1 /\ INT64_SPACE = 2 * INT64_MAX + 2
      /\ NoNumber = INT64_SPACE /\ data \in INT64_MIN .. INT64_MAX
  BY LimitOK DEF Int64
<1>2. CASE data >= 0
  <2>1. text = digits[data] /\ data \in 0 .. INT64_MAX
    BY <1>1, <1>2 DEF prv_intToText
  <2>2. text \in Seq(Digit) /\ Len(text) > 0 /\ Results(text)[Len(text)] = data
    BY <2>1, DigitsRead
  <2> HIDE DEF text
  <2>3. text # <<>> /\ text[1] \in Digit
    BY <2>2
  <2>4. ~Negative(text)
    BY <2>3 DEF Negative, Minus, Digit
  <2>5. Unsigned(text) = text
    BY <2>4 DEF Unsigned
  <2>6. read = IF text = <<>> \/ data = NoNumber \/ data > INT64_MAX THEN NoNumber
               ELSE WithSign(text, data)
    BY <2>2, <2>5, ParseOK
  <2>7. read = data
    BY <1>1, <2>1, <2>3, <2>4, <2>6 DEF WithSign
  <2>8. QED BY <1>1, <1>2, <2>7 DEF text
<1>3. CASE data = INT64_MIN
  <2>1. ToInt64(0 - data) = -INT64_MAX - 1
    <3>1. 0 - data = INT64_MAX + 1
      BY <1>1, <1>3
    <3>2. (INT64_MAX + 1) % INT64_SPACE = INT64_MAX + 1
      BY <1>1, SMT
    <3>3. QED BY <1>1, <3>1, <3>2, SMT DEF ToInt64
  <2>2. text = <<Minus, Junk>>
    BY <1>1, <1>3, <2>1, SMT DEF prv_intToText
  <2> DEFINE b == <<Junk>>
  <2>3. Unsigned(text) = b /\ text # <<>>
    BY <2>2 DEF Unsigned, Negative
  <2>4. b \in Seq(Character) /\ Len(b) = 1 /\ 1 \in 1 .. Len(b) /\ b[1] \notin Digit
    BY DEF Character, Junk, Digit
  <2> HIDE DEF b
  <2>5. Results(b)[Len(b)] = NoNumber
    BY <2>4, JunkOK
  <2>6. read = NoNumber
    BY <2>3, <2>4, <2>5, ParseOK
  <2>7. QED BY <1>3, <2>6
<1>4. CASE data < 0 /\ data # INT64_MIN
  <2> DEFINE n == -data
  <2>1. n \in 1 .. INT64_MAX /\ -n = data
    BY <1>1, <1>4
  <2>2. ToInt64(0 - data) = n
    <3>1. 0 - data = n
      BY <1>1
    <3>2. n % INT64_SPACE = n
      BY <1>1, <2>1, SMT
    <3>3. QED BY <1>1, <2>1, <3>1, <3>2, SMT DEF ToInt64
  <2> DEFINE b == digits[n]
  <2>3. text = <<Minus>> \o b
    BY <1>1, <1>4, <2>1, <2>2 DEF prv_intToText
  <2>4. b \in Seq(Digit) /\ Len(b) > 0 /\ Results(b)[Len(b)] = n
    <3>1. n \in 0 .. INT64_MAX
      BY <1>1, <2>1
    <3>2. QED BY <3>1, DigitsRead
  <2> HIDE DEF text, b, n
  <2>5. text # <<>> /\ text[1] = Minus /\ Tail(text) = b
    <3>1. b \in Seq(Int) /\ <<Minus>> \in Seq(Int) /\ Minus \in Int
      BY <2>4 DEF Digit, Minus
    <3>2. text \in Seq(Int) /\ Len(text) = Len(b) + 1 /\ text[1] = Minus
          /\ \A i \in 1 .. Len(b) : text[i + 1] = b[i]
      BY <2>3, <3>1
    <3>3. Tail(text) \in Seq(Int) /\ Len(Tail(text)) = Len(b)
          /\ \A i \in 1 .. Len(b) : Tail(text)[i] = b[i]
      BY <3>1, <3>2
    <3>4. Tail(text) = b
      BY <3>1, <3>3, SeqEqual
    <3>5. QED BY <3>2, <3>4
  <2>6. Negative(text) /\ Unsigned(text) = b
    BY <2>5 DEF Negative, Unsigned
  <2>7. read = IF text = <<>> \/ n = NoNumber \/ n > INT64_MAX THEN NoNumber
               ELSE WithSign(text, n)
    BY <2>4, <2>6, ParseOK
  <2>8. read = -n
    BY <1>1, <2>1, <2>5, <2>6, <2>7 DEF WithSign
  <2>9. QED BY <1>1, <1>4, <2>1, <2>8 DEF text
<1>5. QED BY <1>1, <1>2, <1>3, <1>4

-----------------------------------------------------------------------------
(* Text: temperatures as text. *)

\* What an integer other than the lowest is written as.
LEMMA IntText ==
  ASSUME NEW n \in Int64 \ {INT64_MIN}
  PROVE  /\ n >= 0 => prv_intToText(n) = digits[n] /\ n \in 0 .. INT64_MAX
         /\ n < 0 => prv_intToText(n) = <<Minus>> \o digits[-n] /\ -n \in 1 .. INT64_MAX
         /\ n \in Int
<1>1. /\ INT64_MAX \in Nat /\ INT64_MIN = -INT64_MAX - 1 /\ INT64_SPACE = 2 * INT64_MAX + 2
      /\ n \in INT64_MIN .. INT64_MAX /\ n # INT64_MIN
  BY LimitOK DEF Int64
<1>2. n \in Int /\ (n >= 0 => n \in 0 .. INT64_MAX) /\ (n < 0 => -n \in 1 .. INT64_MAX)
  BY <1>1
<1>3. ASSUME n >= 0 PROVE prv_intToText(n) = digits[n]
  BY <1>2, <1>3 DEF prv_intToText
<1>4. ASSUME n < 0 PROVE prv_intToText(n) = <<Minus>> \o digits[-n]
  <2>1. ToInt64(0 - n) = -n
    <3>1. 0 - n = -n
      BY <1>2
    <3>2. (-n) % INT64_SPACE = -n
      BY <1>1, <1>2, <1>4, SMT
    <3>3. QED BY <1>1, <1>2, <1>4, <3>1, <3>2, SMT DEF ToInt64
  <2>2. ~(n >= 0) /\ ~(-n < 0)
    BY <1>2, <1>4
  <2>3. QED BY <2>1, <2>2 DEF prv_intToText
<1>5. QED BY <1>2, <1>3, <1>4

\* A minus is taken off.
LEMMA MinusFirst ==
  ASSUME NEW b \in Seq(Int), NEW text, text = <<Minus>> \o b
  PROVE  text # <<>> /\ Negative(text) /\ Unsigned(text) = b
<1>1. <<Minus>> \in Seq(Int) /\ Len(<<Minus>>) = 1 /\ <<Minus>>[1] = Minus
  BY DEF Minus
<1>2. text \in Seq(Int) /\ Len(text) = Len(b) + 1 /\ text[1] = Minus
      /\ \A i \in 1 .. Len(b) : text[i + 1] = b[i]
  BY <1>1
<1>3. Tail(text) \in Seq(Int) /\ Len(Tail(text)) = Len(b)
      /\ \A i \in 1 .. Len(b) : Tail(text)[i] = b[i]
  BY <1>2
<1>4. Tail(text) = b
  BY <1>3, SeqEqual
<1>5. text # <<>>
  BY <1>2
<1>6. QED BY <1>2, <1>4, <1>5 DEF Negative, Unsigned

\* Digits have no minus in front.
LEMMA DigitFirst ==
  ASSUME NEW text \in Seq(Int), Len(text) > 0, text[1] \in Digit
  PROVE  text # <<>> /\ ~Negative(text) /\ Unsigned(text) = text
<1>1. text # <<>> /\ text[1] # Minus
  BY DEF Digit, Minus
<1>2. QED BY <1>1 DEF Negative, Unsigned

\* Where the dot is.
Dots(body) == {k \in DOMAIN body : body[k] = Dot}

\* Digits have no dot among them.
LEMMA NoDot ==
  ASSUME NEW b \in Seq(Digit)
  PROVE  Dots(b) = {}
<1>1. \A k \in DOMAIN b : b[k] \in Digit
  OBVIOUS
<1>2. QED BY <1>1 DEF Dots, Digit, Dot

\* Digits, a dot, digits.
Dotted(body, b, d) == body = b \o (<<Dot>> \o d)

\* The first dot of digits, a dot and digits is the one between them.
LEMMA DotBetween ==
  ASSUME NEW b \in Seq(Digit), NEW d \in Seq(Digit), NEW body, Dotted(body, b, d)
  PROVE  /\ Dots(body) # {} /\ Min(Dots(body)) = Len(b) + 1
         /\ SubSeq(body, 1, Min(Dots(body)) - 1) = b
         /\ SubSeq(body, Min(Dots(body)) + 1, Len(body)) = d
<1> DEFINE dot == <<Dot>>
           y == dot \o d
           z == b \o dot
<1>1. Len(dot) = 1 /\ dot[1] = Dot
  OBVIOUS
<1>2. dot \in Seq(Int)
  BY DEF Dot
<1>3. b \in Seq(Int) /\ d \in Seq(Int)
  BY DEF Digit
<1> HIDE DEF dot
<1>4. z \o d = b \o y
  <2>1. (b \o dot) \o d = b \o (dot \o d)
    BY <1>2, <1>3, Grouped, Zenon
  <2>2. QED BY <2>1, Zenon
<1>5. /\ y \in Seq(Int) /\ Len(y) = 1 + Len(d) /\ y[1] = Dot
      /\ \A i \in 1 .. Len(d) : y[1 + i] = d[i]
  <2>1. /\ y \in Seq(Int) /\ Len(y) = Len(dot) + Len(d)
        /\ \A i \in 1 .. Len(dot) : y[i] = dot[i]
        /\ \A i \in 1 .. Len(d) : y[Len(dot) + i] = d[i]
    BY <1>2, <1>3, Joined
  <2> HIDE DEF y
  <2>2. QED BY <1>1, <1>3, <2>1
<1>6. z \in Seq(Int) /\ Len(z) = Len(b) + 1
  <2>1. z \in Seq(Int) /\ Len(z) = Len(b) + Len(dot)
    BY <1>2, <1>3, Joined
  <2> HIDE DEF z
  <2>2. QED BY <1>1, <1>3, <2>1
<1>7. y \in Seq(Int)
  BY <1>5
<1>8. body = b \o y
  BY DEF Dotted, dot
<1> HIDE DEF y, z
<1>9. /\ body \in Seq(Int) /\ Len(body) = Len(b) + 1 + Len(d)
      /\ \A i \in 1 .. Len(b) : body[i] = b[i]
      /\ \A i \in 1 .. Len(y) : body[Len(b) + i] = y[i]
  <2>1. /\ body \in Seq(Int) /\ Len(body) = Len(b) + Len(y)
        /\ \A i \in 1 .. Len(b) : body[i] = b[i]
        /\ \A i \in 1 .. Len(y) : body[Len(b) + i] = y[i]
    BY <1>3, <1>7, <1>8, Joined
  <2>2. QED BY <1>3, <1>5, <2>1
<1>10. Len(b) \in Nat /\ Len(d) \in Nat /\ Len(y) = 1 + Len(d) /\ Len(body) = Len(b) + 1 + Len(d)
  BY <1>3, <1>5, <1>9
<1>11. Dots(body) = {Len(b) + 1}
  <2>1. Len(b) + 1 \in DOMAIN body /\ body[Len(b) + 1] = Dot
    BY <1>3, <1>5, <1>9
  <2>2. ASSUME NEW k \in DOMAIN body, k # Len(b) + 1 PROVE body[k] # Dot
    <3>1. k \in 1 .. Len(body)
      BY <1>9
    <3>2. CASE k <= Len(b)
      <4>1. body[k] = b[k] /\ b[k] \in Digit
        BY <1>3, <1>9, <3>1, <3>2
      <4>2. QED BY <4>1 DEF Digit, Dot
    <3>3. CASE ~(k <= Len(b))
      <4> DEFINE i == k - Len(b) - 1
      <4>1. i \in 1 .. Len(d) /\ 1 + i \in 1 .. Len(y) /\ Len(b) + (1 + i) = k
        BY <1>10, <2>2, <3>1, <3>3
      <4> HIDE DEF i
      <4>2. body[Len(b) + (1 + i)] = y[1 + i]
        BY <1>9, <4>1
      <4>3. body[k] = y[1 + i] /\ y[1 + i] = d[i] /\ d[i] \in Digit
        BY <1>5, <4>1, <4>2
      <4>4. QED BY <4>3 DEF Digit, Dot
    <3>4. QED BY <3>2, <3>3
  <2>3. QED BY <2>1, <2>2 DEF Dots
<1>12. Min(Dots(body)) = Len(b) + 1
  <2>1. Dots(body) \subseteq Nat /\ Dots(body) # {}
    BY <1>3, <1>11
  <2>2. QED BY <1>11, <2>1, MinOK
<1>13. SubSeq(body, 1, Len(b)) = b
  <2> DEFINE s == SubSeq(body, 1, Len(b))
  <2>1. 1 \in 1 .. Len(body) + 1 /\ Len(b) \in 1 - 1 .. Len(body)
    BY <1>3, <1>9
  <2>2. s \in Seq(Int) /\ Len(s) = Len(b) /\ \A i \in 1 .. Len(b) : s[i] = body[1 + i - 1]
    BY <1>3, <1>9, <2>1, SubSeqProperties
  <2> HIDE DEF s
  <2>3. \A i \in 1 .. Len(b) : s[i] = b[i]
    BY <1>3, <1>9, <2>2
  <2>4. s = b
    BY <1>3, <2>2, <2>3, SeqEqual
  <2>5. QED BY <2>4 DEF s
<1>14. SubSeq(body, (Len(b) + 1) + 1, Len(body)) = d
  BY <1>3, <1>4, <1>6, <1>8, Behind, ZenonT(30)
<1>15. (Len(b) + 1) - 1 = Len(b) /\ Dots(body) # {}
  BY <1>3, <1>11
<1>16. QED BY <1>12, <1>13, <1>14, <1>15

\* What is read of digits, with more of them behind a dot or without.
Fraction(body, b, d) == IF d = <<>> THEN body = b ELSE Dotted(body, b, d)

\* Such a text is read as the whole part and the thousandths it says.
LEMMA FloatRead ==
  ASSUME NEW b \in Seq(Digit), Len(b) > 0, NEW d \in Seq(Digit), NEW text, text # <<>>,
         Fraction(Unsigned(text), b, d)
  PROVE  lwm2m_PlainTextToFloat64(text) = WithSign(text, 1000 * Said(b)[Len(b)] + Thousandths(d))
<1> DEFINE body == Unsigned(text)
           dots == Dots(body)
           whole == IF dots = {} THEN body ELSE SubSeq(body, 1, Min(dots) - 1)
           rest == IF dots = {} THEN <<>> ELSE SubSeq(body, Min(dots) + 1, Len(body))
           refused == \/ text = <<>> \/ (dots # {} /\ rest = <<>>)
                      \/ \E k \in DOMAIN whole : whole[k] \notin Digit
                      \/ \E k \in DOMAIN rest : rest[k] \notin Digit
           value == WithSign(text, 1000 * Said(whole)[Len(whole)] + Thousandths(rest))
<1>1. lwm2m_PlainTextToFloat64(text) = IF refused THEN NoNumber * 1000 ELSE value
  BY Zenon DEF lwm2m_PlainTextToFloat64, Dots
<1>2. whole = b /\ rest = d /\ (dots # {} => d # <<>>)
  <2> HIDE DEF body
  <2>1. CASE d = <<>>
    <3>1. body = b
      BY <2>1 DEF Fraction, body
    <3>2. dots = {}
      BY <3>1, NoDot
    <3>3. QED BY <2>1, <3>1, <3>2, Zenon
  <2>2. CASE d # <<>>
    <3>1. Dotted(body, b, d)
      BY <2>2 DEF Fraction, body
    <3>2. /\ dots # {}
          /\ SubSeq(body, 1, Min(dots) - 1) = b
          /\ SubSeq(body, Min(dots) + 1, Len(body)) = d
      BY <3>1, DotBetween
    <3>3. QED BY <2>2, <3>2, Zenon
  <2>3. QED BY <2>1, <2>2
<1>3. /\ ~\E k \in DOMAIN b : b[k] \notin Digit
      /\ ~\E k \in DOMAIN d : d[k] \notin Digit
  OBVIOUS
<1> HIDE DEF dots, whole, rest, body
<1>4. value = WithSign(text, 1000 * Said(b)[Len(b)] + Thousandths(d))
  BY <1>2
<1>5. ~(dots # {} /\ rest = <<>>)
  BY <1>2
<1>6. /\ ~\E k \in DOMAIN whole : whole[k] \notin Digit
      /\ ~\E k \in DOMAIN rest : rest[k] \notin Digit
  BY <1>2, <1>3
<1>7. ~refused
  BY <1>5, <1>6, Zenon
<1> HIDE DEF refused, value
<1>8. QED BY <1>1, <1>4, <1>7, Zenon

\* The digits behind the dot, and what they say in thousandths.
LEMMA DecimalsRead ==
  ASSUME NEW k \in 1 .. 7
  PROVE  decimals[k] \in Seq(Digit) /\ decimals[k] # <<>> /\ Thousandths(decimals[k]) = 125 * k
<1>1. CASE k = 1
  <2>1. decimals[1] = <<1, 2, 5>>
    BY SMT DEF decimals
  <2>2. <<1, 2, 5>> \in Seq(Digit) /\ <<1, 2, 5>> # <<>> /\ Thousandths(<<1, 2, 5>>) = 125
    BY SMT DEF Thousandths, Digit
  <2>3. QED BY <1>1, <2>1, <2>2
<1>2. CASE k = 2
  <2>1. decimals[2] = <<2, 5>>
    BY SMT DEF decimals
  <2>2. <<2, 5>> \in Seq(Digit) /\ <<2, 5>> # <<>> /\ Thousandths(<<2, 5>>) = 250
    BY SMT DEF Thousandths, Digit
  <2>3. QED BY <1>2, <2>1, <2>2
<1>3. CASE k = 3
  <2>1. decimals[3] = <<3, 7, 5>>
    BY SMT DEF decimals
  <2>2. <<3, 7, 5>> \in Seq(Digit) /\ <<3, 7, 5>> # <<>> /\ Thousandths(<<3, 7, 5>>) = 375
    BY SMT DEF Thousandths, Digit
  <2>3. QED BY <1>3, <2>1, <2>2
<1>4. CASE k = 4
  <2>1. decimals[4] = <<5>>
    BY SMT DEF decimals
  <2>2. <<5>> \in Seq(Digit) /\ <<5>> # <<>> /\ Thousandths(<<5>>) = 500
    BY SMT DEF Thousandths, Digit
  <2>3. QED BY <1>4, <2>1, <2>2
<1>5. CASE k = 5
  <2>1. decimals[5] = <<6, 2, 5>>
    BY SMT DEF decimals
  <2>2. <<6, 2, 5>> \in Seq(Digit) /\ <<6, 2, 5>> # <<>> /\ Thousandths(<<6, 2, 5>>) = 625
    BY SMT DEF Thousandths, Digit
  <2>3. QED BY <1>5, <2>1, <2>2
<1>6. CASE k = 6
  <2>1. decimals[6] = <<7, 5>>
    BY SMT DEF decimals
  <2>2. <<7, 5>> \in Seq(Digit) /\ <<7, 5>> # <<>> /\ Thousandths(<<7, 5>>) = 750
    BY SMT DEF Thousandths, Digit
  <2>3. QED BY <1>6, <2>1, <2>2
<1>7. CASE k = 7
  <2>1. decimals[7] = <<8, 7, 5>>
    BY SMT DEF decimals
  <2>2. <<8, 7, 5>> \in Seq(Digit) /\ <<8, 7, 5>> # <<>> /\ Thousandths(<<8, 7, 5>>) = 875
    BY SMT DEF Thousandths, Digit
  <2>3. QED BY <1>7, <2>1, <2>2
<1>8. QED BY <1>1, <1>2, <1>3, <1>4, <1>5, <1>6, <1>7

\* The whole part of a number of eighths, and the rest.
LEMMA EighthsOK ==
  ASSUME NEW n \in Int
  PROVE  /\ n >= 0 => /\ Truncated(n, 8) >= 0
                      /\ n % 8 \in 0 .. 7
                      /\ 1000 * Truncated(n, 8) + 125 * (n % 8) = 125 * n
         /\ n < 0 => /\ Truncated(n, 8) <= 0
                     /\ (-n) % 8 \in 0 .. 7
                     /\ 1000 * (-Truncated(n, 8)) + 125 * ((-n) % 8) = 125 * (-n)
                     /\ Truncated(n, 8) = 0 <=> n \in -7 .. -1
         /\ Truncated(n, 8) \in Int
BY SMT DEF Truncated

\* The text of a whole part m and f eighths, with or without a minus.
Floats(text, m, f, minus) ==
  text = (IF minus THEN <<Minus>> \o digits[m] ELSE digits[m])
           \o (IF f = 0 THEN <<>> ELSE <<Dot>> \o decimals[f])

\* What is read of it.
LEMMA FloatText ==
  ASSUME NEW m \in 0 .. INT64_MAX, NEW f \in 0 .. 7, NEW minus \in BOOLEAN, NEW text,
         Floats(text, m, f, minus)
  PROVE  lwm2m_PlainTextToFloat64(text) = IF minus THEN -(1000 * m + 125 * f) ELSE 1000 * m + 125 * f
<1> DEFINE b == digits[m]
           d == IF f = 0 THEN <<>> ELSE decimals[f]
           dot == <<Dot>>
           tail == IF f = 0 THEN <<>> ELSE dot \o d
           body == b \o tail
           sign == <<Minus>>
<1>1. b \in Seq(Digit) /\ Len(b) > 0 /\ Said(b)[Len(b)] = m
  BY DigitsSay DEF Spells
<1>2. d \in Seq(Digit) /\ Thousandths(d) = 125 * f /\ (d = <<>> <=> f = 0)
  <2>1. CASE f = 0
    <3>1. <<>> \in Seq(Digit) /\ Thousandths(<<>>) = 0
      BY SMT DEF Thousandths
    <3>2. QED BY <2>1, <3>1
  <2>2. CASE f # 0
    <3>1. f \in 1 .. 7 /\ d = decimals[f]
      BY <2>2
    <3> HIDE DEF d
    <3>2. QED BY <2>2, <3>1, DecimalsRead
  <2>3. QED BY <2>1, <2>2
<1>3. text = (IF minus THEN sign \o b ELSE b) \o tail
  BY Zenon DEF Floats
<1> HIDE DEF b, d
<1>4. tail \in Seq(Int) /\ b \in Seq(Int) /\ sign \in Seq(Int)
  <2>1. d \in Seq(Int) /\ b \in Seq(Int)
    BY <1>1, <1>2 DEF Digit
  <2>2. dot \in Seq(Int) /\ sign \in Seq(Int) /\ <<>> \in Seq(Int)
    BY DEF Dot, Minus
  <2> HIDE DEF dot, sign
  <2>3. dot \o d \in Seq(Int)
    BY <2>1, <2>2
  <2>4. QED BY <2>1, <2>2, <2>3
<1>5. Fraction(body, b, d)
  <2>1. CASE f = 0
    <3>1. tail = <<>> /\ d = <<>>
      BY <1>2, <2>1
    <3>2. b \o <<>> = b
      BY <1>1
    <3>3. QED BY <3>1, <3>2 DEF Fraction
  <2>2. CASE f # 0
    <3>1. tail = <<Dot>> \o d /\ d # <<>>
      BY <1>2, <2>2
    <3>2. QED BY <3>1 DEF Fraction, Dotted
  <2>3. QED BY <2>1, <2>2
<1> HIDE DEF tail, sign
<1>6. body \in Seq(Int) /\ Len(body) > 0 /\ body[1] \in Digit
  <2>1. b[1] \in Digit /\ 1 \in 1 .. Len(b)
    BY <1>1
  <2>2. /\ body \in Seq(Int) /\ Len(body) = Len(b) + Len(tail)
        /\ \A i \in 1 .. Len(b) : body[i] = b[i]
    BY <1>4, Joined
  <2> HIDE DEF body
  <2>3. Len(b) \in Nat /\ Len(tail) \in Nat
    BY <1>4
  <2>4. QED BY <1>1, <2>1, <2>2, <2>3
<1>7. text # <<>> /\ Unsigned(text) = body /\ (Negative(text) <=> minus)
  <2>1. CASE minus
    <3>1. text = sign \o body
      <4>1. (sign \o b) \o tail = sign \o (b \o tail)
        BY <1>4, Grouped, Zenon
      <4>2. QED BY <1>3, <2>1, <4>1, Zenon
    <3> HIDE DEF body
    <3>2. text = <<Minus>> \o body
      BY <3>1 DEF sign
    <3>3. text # <<>> /\ Negative(text) /\ Unsigned(text) = body
      BY <1>6, <3>2, MinusFirst
    <3>4. QED BY <2>1, <3>3
  <2>2. CASE ~minus
    <3>1. text = body
      BY <1>3, <2>2, Zenon
    <3> HIDE DEF body
    <3>2. body # <<>> /\ ~Negative(body) /\ Unsigned(body) = body
      BY <1>6, DigitFirst
    <3>3. QED BY <2>2, <3>1, <3>2
  <2>3. QED BY <2>1, <2>2
<1> HIDE DEF body
<1>8. lwm2m_PlainTextToFloat64(text) = WithSign(text, 1000 * Said(b)[Len(b)] + Thousandths(d))
  <2>1. text # <<>> /\ Fraction(Unsigned(text), b, d)
    BY <1>5, <1>7
  <2>2. QED BY <1>1, <1>2, <2>1, FloatRead
<1>9. 1000 * Said(b)[Len(b)] + Thousandths(d) = 1000 * m + 125 * f
  BY <1>1, <1>2
<1> DEFINE n == 1000 * m + 125 * f
<1>10. lwm2m_PlainTextToFloat64(text) = WithSign(text, n)
  BY <1>8, <1>9
<1> HIDE DEF n
<1>11. lwm2m_PlainTextToFloat64(text) = IF minus THEN -n ELSE n
  BY <1>7, <1>10, Zenon DEF WithSign
<1>12. QED BY <1>11 DEF n

\* Every temperature is read back, but for a lost sign.
THEOREM TemperaturesReadBack == TemperatureReadsBack
<1> SUFFICES ASSUME NEW n \in Temperatures
             PROVE  lwm2m_PlainTextToFloat64(lwm2m_float64ToPlainText(n)) =
                      125 * IF n \in -7 .. -1 THEN -n ELSE n
  BY DEF TemperatureReadsBack
<1> DEFINE w == Truncated(n, 8)
           f == IF n >= 0 THEN n % 8 ELSE (-n) % 8
           text == lwm2m_float64ToPlainText(n)
           read == lwm2m_PlainTextToFloat64(text)
<1>1. n \in Int /\ w \in Int64 \ {INT64_MIN}
  BY FloatAssumption
<1>2. text = prv_intToText(w) \o (IF f = 0 THEN <<>> ELSE <<Dot>> \o decimals[f])
  BY Zenon DEF lwm2m_float64ToPlainText
<1>3. /\ w >= 0 => prv_intToText(w) = digits[w] /\ w \in 0 .. INT64_MAX
      /\ w < 0 => prv_intToText(w) = <<Minus>> \o digits[-w] /\ -w \in 1 .. INT64_MAX
      /\ w \in Int /\ INT64_MAX \in Nat
  <2> HIDE DEF w
  <2>1. QED BY <1>1, IntText, BoundsOK
<1>4. /\ n >= 0 => w >= 0 /\ f \in 0 .. 7 /\ 1000 * w + 125 * f = 125 * n
      /\ n < 0 => /\ w <= 0 /\ f \in 0 .. 7 /\ 1000 * (-w) + 125 * f = 125 * (-n)
                  /\ w = 0 <=> n \in -7 .. -1
  <2>1. n >= 0 => f = n % 8
    OBVIOUS
  <2>2. n < 0 => f = (-n) % 8
    BY <1>1
  <2> HIDE DEF f, w
  <2>3. CASE n >= 0
    <3>1. w >= 0 /\ n % 8 \in 0 .. 7 /\ 1000 * w + 125 * (n % 8) = 125 * n
      BY <1>1, <2>3, EighthsOK DEF w
    <3>2. QED BY <1>1, <2>1, <2>3, <3>1
  <2>4. CASE n < 0
    <3>1. /\ w <= 0 /\ (-n) % 8 \in 0 .. 7 /\ 1000 * (-w) + 125 * ((-n) % 8) = 125 * (-n)
          /\ w = 0 <=> n \in -7 .. -1
      BY <1>1, <2>4, EighthsOK DEF w
    <3>2. QED BY <1>1, <2>2, <2>4, <3>1
  <2>5. QED BY <1>1, <2>3, <2>4
<1> HIDE DEF w, f, text
<1>5. f \in 0 .. 7
  BY <1>1, <1>4
<1>6. CASE w >= 0
  <2>1. Floats(text, w, f, FALSE)
    BY <1>2, <1>3, <1>6, Zenon DEF Floats
  <2>2. read = 1000 * w + 125 * f
    <3> DEFINE minus == FALSE
    <3>1. minus \in BOOLEAN /\ ~minus /\ Floats(text, w, f, minus) /\ w \in 0 .. INT64_MAX
      BY <1>3, <1>6, <2>1
    <3> HIDE DEF minus
    <3>2. read = IF minus THEN -(1000 * w + 125 * f) ELSE 1000 * w + 125 * f
      BY <1>5, <3>1, FloatText
    <3>3. QED BY <3>1, <3>2
  <2>3. QED BY <1>1, <1>3, <1>4, <1>5, <1>6, <2>2 DEF text
<1>7. CASE w < 0
  <2> DEFINE m == -w
  <2>1. m \in 0 .. INT64_MAX
    BY <1>3, <1>7
  <2>2. Floats(text, m, f, TRUE)
    BY <1>2, <1>3, <1>7, Zenon DEF Floats
  <2>3. n < 0 /\ ~(n \in -7 .. -1) /\ 1000 * m + 125 * f = 125 * (-n)
    BY <1>1, <1>3, <1>4, <1>7
  <2> HIDE DEF m
  <2>4. read = -(1000 * m + 125 * f)
    <3> DEFINE minus == TRUE
    <3>1. minus \in BOOLEAN /\ minus /\ Floats(text, m, f, minus)
      BY <2>2
    <3> HIDE DEF minus
    <3>2. minus \in BOOLEAN /\ Floats(text, m, f, minus)
      BY <3>1
    <3>3. lwm2m_PlainTextToFloat64(text) = IF minus THEN -(1000 * m + 125 * f) ELSE 1000 * m + 125 * f
      BY <1>5, <2>1, <3>2, FloatText
    <3>4. read = IF minus THEN -(1000 * m + 125 * f) ELSE 1000 * m + 125 * f
      BY <3>3
    <3>5. QED BY <3>1, <3>4
  <2>5. QED BY <1>1, <2>3, <2>4 DEF text
<1>8. QED BY <1>3, <1>6, <1>7

-----------------------------------------------------------------------------
(* Tlv: integers. *)

\* Division by p, whatever p is.
LEMMA DivisionIs ==
  ASSUME NEW v \in Nat, NEW p \in Nat, p > 0
  PROVE  /\ v \div p \in Nat /\ v % p \in Nat /\ v % p < p
         /\ v = p * (v \div p) + (v % p)
  BY SMT

\* The larger factor makes the larger product.
LEMMA TimesMore ==
  ASSUME NEW p \in Nat, NEW x \in Nat, NEW y \in Nat, x <= y
  PROVE  p * x \in Nat /\ p * y \in Nat /\ p * x <= p * y
<1>1. PICK z \in Nat : y = x + z
  <2>1. y - x \in Nat /\ y = x + (y - x)
    OBVIOUS
  <2>2. QED BY <2>1
<1>2. p * y = p * x + p * z /\ p * z \in Nat /\ p * x \in Nat
  BY <1>1, SMT
<1>3. QED BY <1>2

\* The quotient is the one that leaves a rest below the divisor.
LEMMA QuotientIs ==
  ASSUME NEW v \in Nat, NEW p \in Nat, p > 0, NEW q \in Nat, NEW r \in Nat, r < p, v = p * q + r
  PROVE  v \div p = q
<1> DEFINE a == v \div p
           b == v % p
<1>1. a \in Nat /\ b \in Nat /\ b < p /\ v = p * a + b
  BY DivisionIs
<1> HIDE DEF a, b
<1>2. p * a \in Nat /\ p * q \in Nat
  BY <1>1, TimesMore
<1>3. CASE a < q
  <2>1. p * (a + 1) <= p * q
    BY <1>1, <1>3, TimesMore
  <2>2. p * (a + 1) = p * a + p
    BY <1>1, SMT
  <2>3. QED BY <1>1, <1>2, <2>1, <2>2
<1>4. CASE q < a
  <2>1. p * (q + 1) <= p * a
    BY <1>1, <1>4, TimesMore
  <2>2. p * (q + 1) = p * q + p
    BY <1>1, SMT
  <2>3. QED BY <1>1, <1>2, <2>1, <2>2
<1>5. QED BY <1>1, <1>3, <1>4 DEF a

\* A number in bytes of base p * b: the next byte.
LEMMA NextByte ==
  ASSUME NEW v \in Nat, NEW p \in Nat, p > 0, NEW b \in Nat, b > 0
  PROVE  /\ b * p \in Nat /\ b * p > 0
         /\ v \div p = b * (v \div (b * p)) + ((v \div p) % b)
<1> DEFINE q == v \div p
           r == v % p
           x == q \div b
           y == q % b
<1>1. q \in Nat /\ r \in Nat /\ r < p /\ v = p * q + r
  BY DivisionIs
<1> HIDE DEF q, r
<1>2. x \in Nat /\ y \in Nat /\ y < b /\ q = b * x + y
  BY <1>1, DivisionIs
<1> HIDE DEF x, y
<1>3. b * p \in Nat /\ b * p >= p
  <2>1. p * 1 <= p * b /\ p * b \in Nat
    BY TimesMore
  <2>2. QED BY <2>1, SMT
<1>4. v = (b * p) * x + (p * y + r)
  BY <1>1, <1>2, SMT
<1>5. p * y + r \in Nat /\ p * y + r < b * p
  <2>1. p * (y + 1) <= p * b /\ p * y \in Nat /\ p * b = b * p
    <3>1. p * (y + 1) <= p * b /\ p * y <= p * b /\ p * y \in Nat
      BY <1>2, TimesMore
    <3>2. QED BY <3>1, SMT
  <2>2. p * (y + 1) = p * y + p
    BY <1>2, SMT
  <2>3. QED BY <1>1, <1>3, <2>1, <2>2
<1>6. v \div (b * p) = x
  <2> DEFINE d == b * p
             e == p * y + r
  <2>1. d \in Nat /\ d > 0 /\ e \in Nat /\ e < d /\ v = d * x + e
    BY <1>3, <1>4, <1>5
  <2> HIDE DEF d, e
  <2>2. v \div d = x
    BY <1>2, <2>1, QuotientIs
  <2>3. QED BY <2>2 DEF d
<1>7. QED BY <1>2, <1>3, <1>6 DEF q, y

\* The powers of BASE, and half of them.
LEMMA PowersOK ==
  /\ \A k \in 0 .. 8 : Power[k] \in Nat /\ Power[k] > 0
  /\ Power[0] = 1
  /\ \A k \in 1 .. 8 : Power[k] = BASE * Power[k - 1]
<1> DEFINE S == Nat \ {0}
           Step(f) == [k \in 0 .. 8 |-> IF k = 0 THEN 1 ELSE BASE * f[k - 1]]
           step == [k \in 1 .. 8 |-> [r \in S |-> BASE * r]]
<1>1. BASE \in Nat /\ BASE > 0
  BY TlvAssumption
<1>2. \A r \in S : BASE * r \in S
  <2> SUFFICES ASSUME NEW r \in Nat, r > 0 PROVE BASE * r \in Nat /\ BASE * r > 0
    BY SMT
  <2>1. QED BY <1>1, NextByte
<1>3. PICK f \in [0 .. 8 -> S] : f[0] = 1 /\ \A n \in 1 .. 8 : f[n] = step[n][f[n - 1]]
  <2> DEFINE N == 8
             start == 1
  <2>1. N \in Nat /\ start \in S
    OBVIOUS
  <2>2. step \in Rounds(N, S)
    BY <1>2, Zenon DEF Rounds
  <2> HIDE DEF step, S, N, start
  <2>3. \E f : Runs(f, N, S, start, step)
    BY <2>1, <2>2, Course
  <2>4. QED BY <2>3 DEF N, start, Runs
<1>4. \A n \in 1 .. 8 : f[n] = BASE * f[n - 1]
  <2> SUFFICES ASSUME NEW n \in 1 .. 8 PROVE f[n] = BASE * f[n - 1]
    OBVIOUS
  <2>1. n - 1 \in 0 .. 8 /\ f[n - 1] \in S
    OBVIOUS
  <2>2. f[n] = step[n][f[n - 1]]
    BY <1>3
  <2> HIDE DEF S
  <2>3. QED BY <2>1, <2>2
<1>5. f = Step(f)
  <2>1. \A k \in 0 .. 8 : f[k] = IF k = 0 THEN 1 ELSE BASE * f[k - 1]
    BY <1>3, <1>4
  <2>2. f = [k \in 0 .. 8 |-> f[k]]
    OBVIOUS
  <2>3. QED BY <2>1, <2>2
<1>6. Power = CHOOSE p : p = Step(p)
  BY DEF Power
<1> HIDE DEF Power
<1>7. Power = Step(Power)
  <2> HIDE DEF Step
  <2>1. QED BY <1>5, <1>6
<1>8. \A k \in 0 .. 8 : Power[k] = IF k = 0 THEN 1 ELSE BASE * Power[k - 1]
  BY <1>7
<1>9. Power[0] = 1 /\ \A k \in 1 .. 8 : Power[k] = BASE * Power[k - 1]
  BY <1>8
<1>10. \A k \in 0 .. 8 : Power[k] \in Nat /\ Power[k] > 0
  <2> DEFINE T == {k \in 0 .. 8 : Power[k] \in Nat /\ Power[k] > 0}
             N == 8
  <2>1. 0 \in T
    BY <1>9
  <2>2. ASSUME NEW n \in T, n \in Nat, n < N PROVE n + 1 \in T
    <3>1. n + 1 \in 1 .. 8 /\ (n + 1) - 1 = n /\ Power[n] \in Nat /\ Power[n] > 0
      BY <2>2
    <3>2. Power[n + 1] = BASE * Power[n]
      BY <1>9, <3>1
    <3>3. BASE * Power[n] \in Nat /\ BASE * Power[n] > 0
      BY <1>1, <3>1, NextByte
    <3>4. QED BY <3>1, <3>2, <3>3
  <2>3. \A n \in 0 .. N : n \in T
    <3>1. N \in Nat
      OBVIOUS
    <3> HIDE DEF T, N
    <3>2. QED BY <2>1, <2>2, <3>1, Upwards
  <2>4. QED BY <2>3
<1>11. QED BY <1>9, <1>10

\* What k bytes leave room for: half of the powers of the base, one larger than the other.
LEMMA MagnitudesOK ==
  /\ BASE \in Nat /\ BASE > 0 /\ BASE \div 2 \in Nat /\ 2 * (BASE \div 2) = BASE /\ BASE \div 2 > 0
  /\ \A k \in 1 .. 8 : Magnitude(k) \in Nat /\ Magnitude(k) = (BASE \div 2) * Power[k - 1]
  /\ \A k, l \in 1 .. 8 : k <= l => Magnitude(k) <= Magnitude(l)
<1> DEFINE h == BASE \div 2
<1>1. BASE \in Nat /\ BASE > 0 /\ h \in Nat /\ BASE = 2 * h /\ h > 0
  BY TlvAssumption, SMT
<1> HIDE DEF h
<1>2. ASSUME NEW k \in 1 .. 8
      PROVE  Magnitude(k) \in Nat /\ Magnitude(k) = h * Power[k - 1]
  <2> DEFINE p == Power[k - 1]
  <2>1. k - 1 \in 0 .. 8 /\ p \in Nat /\ Power[k] = BASE * p
    BY PowersOK
  <2> HIDE DEF p
  <2>2. h * p \in Nat /\ BASE * p = 2 * (h * p)
    BY <1>1, <2>1, SMT
  <2>3. Magnitude(k) = (2 * (h * p)) \div 2
    BY <2>1, <2>2 DEF Magnitude
  <2>4. QED BY <2>2, <2>3, SMT DEF p
<1>3. \A k \in 1 .. 8 : k + 1 \in 1 .. 8 => Magnitude(k) <= Magnitude(k + 1)
  <2> SUFFICES ASSUME NEW k \in 1 .. 8, k + 1 \in 1 .. 8
               PROVE  Magnitude(k) <= Magnitude(k + 1)
    OBVIOUS
  <2> DEFINE p == Power[k - 1]
             q == Power[k]
  <2>1. k - 1 \in 0 .. 8 /\ p \in Nat /\ q = BASE * p /\ (k + 1) - 1 = k
    BY PowersOK
  <2>2. Magnitude(k) = h * p /\ Magnitude(k + 1) = h * q
    BY <1>2, <2>1
  <2> HIDE DEF p, q
  <2>3. p <= q /\ q \in Nat
    <3>1. p * 1 <= p * BASE /\ p * BASE \in Nat
      BY <1>1, <2>1, TimesMore
    <3>2. QED BY <1>1, <2>1, <3>1, SMT
  <2>4. h * p <= h * q
    BY <1>1, <2>1, <2>3, TimesMore
  <2>5. QED BY <2>2, <2>4
<1>4. ASSUME NEW k \in 1 .. 8, NEW l \in 1 .. 8, k <= l
      PROVE  Magnitude(k) <= Magnitude(l)
  <2> DEFINE N == 8 - k
             T == {d \in 0 .. N : Magnitude(k) <= Magnitude(k + d)}
  <2>1. 0 \in T
    BY <1>2
  <2>2. ASSUME NEW n \in T, n \in Nat, n < N PROVE n + 1 \in T
    <3>1. k + n \in 1 .. 8 /\ (k + n) + 1 \in 1 .. 8 /\ k + (n + 1) = (k + n) + 1
      BY <2>2
    <3>2. Magnitude(k + n) <= Magnitude((k + n) + 1) /\ Magnitude(k) <= Magnitude(k + n)
      BY <1>3, <2>2, <3>1
    <3>3. Magnitude(k) \in Nat /\ Magnitude(k + n) \in Nat /\ Magnitude((k + n) + 1) \in Nat
      BY <1>2, <3>1
    <3>4. n + 1 \in 0 .. N
      BY <2>2
    <3> HIDE DEF N
    <3>5. QED BY <3>1, <3>2, <3>3, <3>4
  <2>3. \A n \in 0 .. N : n \in T
    <3>1. N \in Nat
      OBVIOUS
    <3> HIDE DEF T, N
    <3>2. QED BY <2>1, <2>2, <3>1, Upwards
  <2>4. l - k \in 0 .. N /\ k + (l - k) = l
    BY <1>4
  <2>5. QED BY <2>3, <2>4
<1>5. QED BY <1>1, <1>2, <1>4 DEF h

\* The bytes of v behind its sign, the highest first; there is room for the sign.
EncodedIs(buffer, v, length, negative) ==
  /\ length \in {1, 2, 4, 8} /\ v \in Nat /\ v < Magnitude(length)
  /\ buffer = [i \in 1 .. length |->
                 IF i = 1 /\ negative THEN ((v \div Power[length - i]) % BASE) + (BASE \div 2)
                                      ELSE (v \div Power[length - i]) % BASE]

\* prv_encodeInt writes a sign and a magnitude, in a length that has room for both, but
\* for the lowest number.
LEMMA EncodedOK ==
  ASSUME NEW n \in Int, NEW v \in Nat, v = IF n < 0 THEN -n ELSE n
  PROVE  /\ v = Magnitude(8) => prv_encodeInt(n) = Overrun
         /\ v < Magnitude(8) => \E length : EncodedIs(prv_encodeInt(n), v, length, n < 0)
<1> DEFINE value == IF n < 0 THEN -n ELSE n
           X == {m \in 1 .. 8 : value < Magnitude(m)} \cup {9}
           k == Min(X)
           length == CASE k = 3 -> 4 [] k \in 5 .. 7 -> 8 [] OTHER -> k
           negative == n < 0
           byte(i) == (value \div Power[length - i]) % BASE
           high(i) == IF i = 1 /\ negative THEN byte(1) + (BASE \div 2) ELSE byte(i)
           b == [i \in 1 .. length |-> high(i)]
<1>1. prv_encodeInt(n) = IF k = 9 THEN Overrun ELSE b
  BY Zenon DEF prv_encodeInt
<1>2. value = v
  OBVIOUS
<1> HIDE DEF value
<1>3. k \in X /\ \A y \in X : k <= y
  <2>1. X \subseteq Nat /\ X # {}
    OBVIOUS
  <2> HIDE DEF X
  <2>2. QED BY <2>1, MinOK
<1> HIDE DEF k
<1>4. CASE v = Magnitude(8)
  <2>1. \A m \in 1 .. 8 : Magnitude(m) <= v /\ Magnitude(m) \in Nat
    BY <1>4, MagnitudesOK
  <2>2. k = 9
    BY <1>3, <1>2, <2>1
  <2>3. prv_encodeInt(n) = Overrun /\ ~(v < Magnitude(8))
    BY <1>1, <1>4, <2>2, MagnitudesOK
  <2>4. QED BY <2>3
<1>5. CASE v < Magnitude(8)
  <2>1. 8 \in X
    BY <1>5, <1>2
  <2>2. k \in 1 .. 8 /\ v < Magnitude(k)
    BY <1>3, <1>2, <2>1
  <2>3. length \in {1, 2, 4, 8} /\ k <= length /\ length \in 1 .. 8
    BY <2>2
  <2> HIDE DEF length
  <2>4. v < Magnitude(length)
    <3>1. Magnitude(k) <= Magnitude(length) /\ Magnitude(k) \in Nat /\ Magnitude(length) \in Nat
      BY <2>2, <2>3, MagnitudesOK
    <3>2. QED BY <2>2, <3>1
  <2>5. prv_encodeInt(n) = b
    BY <1>1, <2>2
  <2>6. \A i \in 1 .. length :
          high(i) = IF i = 1 /\ negative THEN ((v \div Power[length - i]) % BASE) + (BASE \div 2)
                                         ELSE (v \div Power[length - i]) % BASE
    BY <1>2, Zenon
  <2>7. EncodedIs(b, v, length, negative)
    <3> HIDE DEF high, negative
    <3>1. QED BY <2>3, <2>4, <2>6 DEF EncodedIs
  <2>8. v # Magnitude(8)
    BY <1>5, MagnitudesOK
  <2>9. \E l : EncodedIs(prv_encodeInt(n), v, l, negative)
    <3> HIDE DEF b, negative
    <3>1. QED BY <2>5, <2>7
  <2>10. QED BY <2>8, <2>9, Zenon
<1>6. QED BY <1>4, <1>5, Zenon

\* Such bytes are read as v with its sign.
LEMMA OpaqueRead ==
  ASSUME NEW buffer, NEW v, NEW length, NEW negative \in BOOLEAN,
         EncodedIs(buffer, v, length, negative)
  PROVE  lwm2m_opaqueToInt(buffer) = IF negative THEN -v ELSE v
<1> DEFINE h == BASE \div 2
           top == v \div Power[length - 1]
           Step(d) == [i \in 0 .. Len(buffer) - 1 |->
                         IF i = 0 THEN buffer[1] % h ELSE BASE * d[i - 1] + buffer[i + 1]]
           data == CHOOSE d : d = Step(d)
           f == [i \in 0 .. Len(buffer) - 1 |-> v \div Power[(length - 1) - i]]
<1>1. length \in {1, 2, 4, 8} /\ length \in 1 .. 8 /\ v \in Nat /\ v < Magnitude(length)
  BY DEF EncodedIs
<1>2. Len(buffer) = length
  BY <1>1 DEF EncodedIs
<1>3. /\ buffer[1] = IF negative THEN (top % BASE) + h ELSE top % BASE
      /\ \A i \in 2 .. length : buffer[i] = (v \div Power[length - i]) % BASE
  BY <1>1 DEF EncodedIs
<1>4. h \in Nat /\ h > 0 /\ BASE = 2 * h /\ BASE \in Nat
  BY MagnitudesOK
<1>5. top \in Nat /\ top < h
  <2> DEFINE p == Power[length - 1]
             r == v % p
  <2>1. length - 1 \in 0 .. 8 /\ p \in Nat /\ p > 0 /\ Magnitude(length) = h * p
    BY <1>1, PowersOK, MagnitudesOK, SMTT(30)
  <2> HIDE DEF p
  <2>2. v \div p \in Nat /\ r \in Nat /\ v = p * (v \div p) + r
    BY <1>1, <2>1, DivisionIs
  <2> HIDE DEF r
  <2> DEFINE q == v \div p
  <2>3. CASE h <= q
    <3>1. p * h <= p * q /\ p * q \in Nat
      BY <1>4, <2>1, <2>2, <2>3, TimesMore
    <3>2. p * h = h * p /\ h * p \in Nat
      BY <1>4, <2>1, SMT
    <3>3. FALSE
      <4> HIDE DEF q, h
      <4>1. v = p * q + r
        BY <2>2 DEF q
      <4>2. QED BY <1>1, <2>1, <2>2, <3>1, <3>2, <4>1
    <3>4. QED BY <3>3
  <2>4. QED BY <1>4, <2>2, <2>3 DEF p
<1> HIDE DEF top, h
<1>6. /\ buffer[1] % h = top
      /\ buffer[1] >= h <=> negative
  <2>1. top % BASE = top
    BY <1>4, <1>5, SMT
  <2>2. CASE negative
    <3>1. buffer[1] = top + h
      BY <1>3, <2>1, <2>2
    <3>2. (top + h) % h = top
      <4>1. /\ (top + h) \div h \in Nat /\ (top + h) % h \in Nat
            /\ top + h = h * ((top + h) \div h) + ((top + h) % h)
        BY <1>4, <1>5, DivisionIs
      <4>2. (top + h) \div h = 1
        <5> DEFINE w == top + h
                   one == 1
        <5>1. w \in Nat /\ one \in Nat /\ w = h * one + top
          BY <1>4, <1>5
        <5> HIDE DEF w, one
        <5>2. w \div h = one
          BY <1>4, <1>5, <5>1, QuotientIs
        <5>3. QED BY <5>2 DEF w, one
      <4>3. QED BY <1>4, <1>5, <4>1, <4>2
    <3>3. QED BY <1>4, <1>5, <2>2, <3>1, <3>2
  <2>3. CASE ~negative
    <3>1. buffer[1] = top /\ top % h = top
      BY <1>3, <1>4, <1>5, <2>1, <2>3, SMT
    <3>2. QED BY <1>4, <1>5, <2>3, <3>1
  <2>4. QED BY <2>2, <2>3
<1>7. \A i \in 1 .. Len(buffer) - 1 :
        v \div Power[(length - 1) - i] = BASE * (v \div Power[(length - 1) - (i - 1)]) + buffer[i + 1]
  <2> SUFFICES ASSUME NEW i \in 1 .. length - 1
               PROVE  v \div Power[(length - 1) - i]
                        = BASE * (v \div Power[(length - 1) - (i - 1)]) + buffer[i + 1]
    BY <1>2
  <2> DEFINE m == (length - 1) - i
             p == Power[m]
  <2>1. /\ m \in 0 .. 8 /\ m + 1 \in 1 .. 8 /\ (m + 1) - 1 = m
        /\ (length - 1) - (i - 1) = m + 1 /\ length - (i + 1) = m /\ i + 1 \in 2 .. length
    BY <1>1
  <2>2. p \in Nat /\ p > 0 /\ Power[m + 1] = BASE * p
    BY <2>1, PowersOK
  <2>3. buffer[i + 1] = (v \div p) % BASE
    <3>1. buffer[i + 1] = (v \div Power[length - (i + 1)]) % BASE
      BY <1>3, <2>1
    <3> HIDE DEF m
    <3>2. QED BY <2>1, <3>1
  <2> HIDE DEF p
  <2>4. v \div p = BASE * (v \div (BASE * p)) + ((v \div p) % BASE)
    BY <1>1, <2>2, NextByte, MagnitudesOK
  <2> HIDE DEF m
  <2>5. Power[(length - 1) - (i - 1)] = BASE * p
    BY <2>1, <2>2
  <2>6. QED BY <2>3, <2>4, <2>5 DEF p, m
<1>8. f = Step(f)
  <2>1. \A i \in 0 .. Len(buffer) - 1 :
          f[i] = IF i = 0 THEN buffer[1] % h ELSE BASE * f[i - 1] + buffer[i + 1]
    <3> SUFFICES ASSUME NEW i \in 0 .. Len(buffer) - 1
                 PROVE  f[i] = IF i = 0 THEN buffer[1] % h ELSE BASE * f[i - 1] + buffer[i + 1]
      OBVIOUS
    <3>1. CASE i = 0
      <4>1. f[0] = v \div Power[(length - 1) - 0] /\ (length - 1) - 0 = length - 1
        BY <1>1, <1>2
      <4>2. QED BY <1>6, <3>1, <4>1 DEF top
    <3>2. CASE i # 0
      <4>1. i \in 1 .. Len(buffer) - 1 /\ i - 1 \in 0 .. Len(buffer) - 1
        BY <1>1, <1>2, <3>2
      <4>2. f[i - 1] = v \div Power[(length - 1) - (i - 1)] /\ f[i] = v \div Power[(length - 1) - i]
        BY <4>1
      <4>3. QED BY <1>7, <3>2, <4>1, <4>2
    <3>3. QED BY <3>1, <3>2
  <2>2. f = [i \in 0 .. Len(buffer) - 1 |-> f[i]]
    OBVIOUS
  <2> HIDE DEF f
  <2>3. QED BY <2>1, <2>2
<1>9. data = Step(data)
  <2> HIDE DEF Step, f
  <2>1. QED BY <1>8
<1> HIDE DEF data
<1>10. /\ data[0] = top
       /\ \A i \in 1 .. Len(buffer) - 1 : data[i] = BASE * data[i - 1] + buffer[i + 1]
  <2>1. \A i \in 0 .. Len(buffer) - 1 :
          data[i] = IF i = 0 THEN buffer[1] % h ELSE BASE * data[i - 1] + buffer[i + 1]
    BY <1>9
  <2>2. QED BY <1>1, <1>2, <1>6, <2>1
<1>11. data[length - 1] = v
  <2> DEFINE N == length - 1
             T == {i \in 0 .. N : data[i] = v \div Power[N - i]}
  <2>1. N \in Nat /\ N \in 0 .. N
    BY <1>1
  <2>2. 0 \in T
    <3>1. N - 0 = N
      BY <2>1
    <3>2. QED BY <1>10, <2>1, <3>1 DEF top
  <2>3. ASSUME NEW n \in T, n \in Nat, n < N PROVE n + 1 \in T
    <3>1. n + 1 \in 1 .. Len(buffer) - 1 /\ (n + 1) - 1 = n
      BY <1>2, <2>1, <2>3
    <3>2. data[n + 1] = BASE * data[n] + buffer[(n + 1) + 1]
      BY <1>10, <3>1
    <3>3. v \div Power[N - (n + 1)] = BASE * (v \div Power[N - n]) + buffer[(n + 1) + 1]
      BY <1>7, <3>1
    <3>4. n + 1 \in 0 .. N /\ data[n] = v \div Power[N - n]
      BY <2>1, <2>3
    <3> HIDE DEF N
    <3>5. data[n + 1] = v \div Power[N - (n + 1)]
      BY <3>2, <3>3, <3>4
    <3>6. QED BY <3>4, <3>5
  <2>4. \A n \in 0 .. N : n \in T
    <3> HIDE DEF T, N
    <3>1. QED BY <2>1, <2>2, <2>3, Upwards
  <2>5. data[N] = v \div Power[N - N] /\ N - N = 0
    BY <2>1, <2>4
  <2>6. v \div 1 = v
    BY <1>1, SMT
  <2>7. QED BY <2>5, <2>6, PowersOK
<1>12. lwm2m_opaqueToInt(buffer) =
         IF Len(buffer) \notin {1, 2, 4, 8} THEN NoInt
         ELSE IF buffer[1] >= h THEN -data[Len(buffer) - 1] ELSE data[Len(buffer) - 1]
  BY Zenon DEF lwm2m_opaqueToInt, data, h
<1>13. QED BY <1>1, <1>2, <1>6, <1>11, <1>12

\* Every integer is read from its bytes as it was written, whatever the bytes are and
\* however few suffice; the lowest one is not written.
THEOREM OpaquesReadBack == OpaqueReadsBack
<1> DEFINE M == Magnitude(8)
<1>1. M \in Nat
  BY MagnitudesOK
<1> SUFFICES ASSUME NEW n \in -M .. M - 1
             PROVE  IF n = -M THEN prv_encodeInt(n) = Overrun
                              ELSE lwm2m_opaqueToInt(prv_encodeInt(n)) = n
  BY DEF OpaqueReadsBack
<1> DEFINE v == IF n < 0 THEN -n ELSE n
           negative == n < 0
<1> HIDE DEF M
<1>2. n \in Int /\ v \in Nat /\ negative \in BOOLEAN
  BY <1>1
<1>3. /\ n = -M => v = M
      /\ n # -M => v < M
      /\ n = IF negative THEN -v ELSE v
  BY <1>1
<1>4. /\ v = M => prv_encodeInt(n) = Overrun
      /\ v < M => \E length : EncodedIs(prv_encodeInt(n), v, length, negative)
  BY <1>2, EncodedOK DEF M
<1>5. CASE n = -M
  BY <1>3, <1>4, <1>5
<1>6. CASE n # -M
  <2>1. PICK length : EncodedIs(prv_encodeInt(n), v, length, negative)
    BY <1>3, <1>4, <1>6
  <2> HIDE DEF negative, v
  <2>2. lwm2m_opaqueToInt(prv_encodeInt(n)) = IF negative THEN -v ELSE v
    BY <1>2, <2>1, OpaqueRead
  <2>3. QED BY <1>3, <1>6, <2>2
<1>7. QED BY <1>5, <1>6

-----------------------------------------------------------------------------
(* Payloads. *)

\* Every text a server may write is read for what it says.
LEMMA TextsRead == TextReadAsWritten
BY TextsReadForWhatTheySay, FloatAssumption DEF TextReadAsWritten

\* A payload means the same at both ends: whatever text is written, whatever the
\* integer and the temperature, whatever records are nested how deep and wherever
\* they are cut.
THEOREM PayloadsAreRead == Spec => []PayloadsMeanTheSame
<1>1. PayloadsMeanTheSame
  BY TextsRead, IntegersReadBack, TemperaturesReadBack, TreesReadBack, CutTreesKeepBeginning,
     OpaquesReadBack, Zenon DEF PayloadsMeanTheSame
<1>2. QED BY <1>1, PTL
=============================================================================
