---------------------------------- MODULE Uri ----------------------------------
(***************************************************************************)
(* The names of things (wakaama/uri.c): how the segments of a Uri-Path, or *)
(* the text main.cpp fires, become an object, an instance and a resource,  *)
(* and how transaction_new (transaction.c) writes them as segments.        *)
(*                                                                         *)
(* A segment is the number its digits say, or one of the texts below.      *)
(* Numbers are read into an int of INT_SPACE values that wraps around.     *)
(***************************************************************************)
EXTENDS Integers, Sequences

CONSTANTS
  LWM2M_MAX_ID,  \* 0xFFFF
  INT_SPACE      \* 2^32: how many values an int has

ASSUME UriAssumption ==
  /\ LWM2M_MAX_ID \in Nat \ {0} /\ INT_SPACE \in Nat
  /\ INT_SPACE % 2 = 0 /\ 20 * (LWM2M_MAX_ID + 1) < INT_SPACE

Empty == -1   \* a segment of no characters
Rd == -2      \* "rd"
Bs == -3      \* "bs"
Other == -4   \* any other text that does not begin with a number and a slash
Unset == -5   \* an ID whose flag is not set; as an altPath, NULL
Slashed(n) == -10 - n   \* the number n, a slash and whatever follows it
Segments == {s \in Int : s >= 0 \/ s <= Slashed(0)} \cup {Empty, Rd, Bs, Other}

\* lwm2m_uri_t, with "NULL" for the type of no URI at all.
DM(o, i, r) == [type |-> "DM", objectId |-> o, instanceId |-> i, resourceId |-> r]
Flagged(type, o) == [DM(o, Unset, Unset) EXCEPT !.type = type]
Null == Flagged("NULL", Unset)

\* prv_get_number: each digit up to the end or a slash is added and the whole
\* multiplied by ten, and the extra factor is taken off by a division, which truncates
\* towards zero.
Digits(seg) == IF seg >= 0 THEN seg ELSE -10 - seg
Wrapped(n) == LET low == n % INT_SPACE
              IN  IF low < INT_SPACE \div 2 THEN low ELSE low - INT_SPACE
prv_get_number(seg) ==
  IF seg = Empty THEN 0
  ELSE IF seg \in {Rd, Bs, Other} THEN -1
  ELSE LET result == Wrapped(10 * Digits(seg))
       IN  IF result >= 0 THEN result \div 10 ELSE -((-result) \div 10)

Object(seg) == LET n == prv_get_number(seg) IN IF n \in 0 .. LWM2M_MAX_ID THEN n ELSE Unset
Instance(seg) == LET n == prv_get_number(seg) IN IF n \in 0 .. LWM2M_MAX_ID - 1 THEN n ELSE Unset

\* The object, instance and resource of lwm2m_decode_uri; an empty instance
\* segment leaves the instance unset, and then there must be no resource.
decode_ids(path) ==
  LET o == Object(path[1])
      i == IF Len(path) < 2 \/ path[2] = Empty THEN Unset ELSE Instance(path[2])
      r == IF Len(path) < 3 \/ path[3] = Empty THEN Unset ELSE Object(path[3])
  IN  IF \/ Len(path) > 3 \/ o = Unset
         \/ Len(path) >= 2 /\ path[2] # Empty /\ i = Unset
         \/ Len(path) = 3 /\ path[3] # Empty /\ Unset \in {i, r}
        THEN Null ELSE DM(o, i, r)

\* lwm2m_decode_uri.  altPath is compared letter by letter of the segment, so
\* that an empty segment passes for it.
lwm2m_decode_uri(altPath, path) ==
  LET rest == IF altPath # Unset /\ path # <<>> THEN Tail(path) ELSE path
  IN  IF path # <<>> /\ path[1] = Rd
        THEN IF Len(path) = 1 THEN Flagged("REGISTRATION", Unset)
             ELSE IF Len(path) = 2 /\ Object(path[2]) # Unset
                    THEN Flagged("REGISTRATION", Object(path[2])) ELSE Null
      ELSE IF path # <<>> /\ path[1] = Bs
        THEN IF Len(path) = 1 THEN Flagged("BOOTSTRAP", Unset) ELSE Null
      ELSE IF altPath # Unset /\ (path = <<>> \/ path[1] \notin {altPath, Empty}) THEN Null
      ELSE IF rest = <<>> \/ rest[1] = Empty THEN Flagged("DELETE_ALL", Unset)
      ELSE decode_ids(rest)

\* transaction_new: the segments of a URI behind the altPath.
uri_segments_ZeroIsUnset(altPath, u) ==
  (IF altPath = Unset THEN <<>> ELSE <<altPath>>) \o <<u.objectId>>
    \o (IF u.instanceId > 0 THEN <<u.instanceId>>
        ELSE IF u.resourceId # Unset THEN <<Empty>> ELSE <<>>)
    \o (IF u.resourceId # Unset THEN <<u.resourceId>> ELSE <<>>)
uri_segments(altPath, u) ==
  (IF altPath = Unset THEN <<>> ELSE <<altPath>>) \o <<u.objectId>>
    \o (IF u.instanceId # Unset THEN <<u.instanceId>>
        ELSE IF u.resourceId # Unset THEN <<Empty>> ELSE <<>>)
    \o (IF u.resourceId # Unset THEN <<u.resourceId>> ELSE <<>>)

\* lwm2m_stringToUri on the text with a slash before each segment: numbers alone,
\* no empty one but a trailing slash, and not the highest resource.
lwm2m_stringToUri(path) ==
  LET ids == IF Len(path) \in {2, 3} /\ path[Len(path)] = Empty
               THEN SubSeq(path, 1, Len(path) - 1) ELSE path
      o == Object(ids[1])
      i == IF Len(ids) < 2 THEN Unset ELSE Instance(ids[2])
      r == IF Len(ids) < 3 THEN Unset ELSE Instance(ids[3])
  IN  IF \/ Len(ids) \notin 1 .. 3 \/ Empty \in {ids[k] : k \in DOMAIN ids}
         \/ o = Unset \/ (Len(ids) >= 2 /\ i = Unset) \/ (Len(ids) = 3 /\ r = Unset)
        THEN Null ELSE DM(o, i, r)

-----------------------------------------------------------------------------
(* Properties. *)

\* The URIs a program may hold: a resource only within an instance.
Ids == 0 .. LWM2M_MAX_ID
ValidUris == {DM(o, Unset, Unset) : o \in Ids}
               \cup {DM(o, i, Unset) : o \in Ids, i \in Ids \ {LWM2M_MAX_ID}}
               \cup {DM(o, i, r) : o \in Ids, i \in Ids \ {LWM2M_MAX_ID}, r \in Ids}

\* What one end writes as the path of a request, the other end reads back, with
\* an alternative path and without.
DecodesWhatItEncodes ==
  \A u \in ValidUris : \A altPath \in {Unset, Other} :
    lwm2m_decode_uri(altPath, uri_segments(altPath, u)) = u

\* A number is read as itself if it is an ID.  A larger one is refused, as the tests
\* in lwm2m_decode_uri mean it to be, unless its tenfold wraps around the int to no
\* less than nine below zero and no more than nine beyond the tenfold of an ID: then it
\* is taken for that ID, or for 0.  429496730 is the first one where an int has 32 bits.
ReadAsId(n) ==
  IF n \in Ids THEN Object(n) = n
  ELSE Object(n) = Unset <=> (10 * n + 9) % INT_SPACE > 10 * LWM2M_MAX_ID + 18

\* All numbers of a range in which the tenfold wraps around ten times.
NumbersRead == \A n \in 0 .. INT_SPACE : ReadAsId(n)

\* What the application fires by a text is what a server observes by its segments.
FiredIsObserved ==
  \A n \in 1 .. 3 : \A path \in [1 .. n -> 0 .. LWM2M_MAX_ID + 1 \cup {Empty, Other}] :
    lwm2m_stringToUri(path) \in {Null, lwm2m_decode_uri(Unset, path)}
=============================================================================
