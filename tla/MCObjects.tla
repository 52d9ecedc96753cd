------------------------------ MODULE MCObjects ------------------------------
(* Payloads for TLC.                                                           *)
EXTENDS Payloads

\* The longest mode, one that leaves a rest of it behind, and no mode.
MCBindings == {<<"U", "Q", "S">>, <<"S">>, <<"Q">>}
MCNumbers == {-1, 1, 2}

\* Texts of at most five characters; -8 to 8 degrees.
MCTexts == UNION {[1 .. k -> Character] : k \in 0 .. 5}
MCTemperatures == -64 .. 64

\* Records at the sizes where a header changes, alone, side by side and nested.
Leaf(type, id, length) == [type |-> type, id |-> id, value |-> [k \in 1 .. length |-> k % 256]]
Leaves(type) == {Leaf(type, id, length) : id \in {0, 255, 256, 65535}, length \in {0, 1, 7, 8, 255, 256}}
Small(type) == {Leaf(type, id, length) : id \in {0, 256}, length \in {0, 3, 8}}
Around(type, records) == {[type |-> type, id |-> 7, value |-> r] : r \in records}
Pairs(type) == {<<a, b>> : a \in Small(type), b \in Small(type)}
Multiple == Around(MultipleResource, Pairs(ResourceInstance))
MCTrees ==
  {<<l>> : l \in Leaves(Resource) \cup {Leaf(Resource, 1, 65536)}}
    \cup Pairs(Resource)
    \cup {<<l, m>> : l \in Small(Resource), m \in Multiple}
    \cup {<<i>> : i \in Around(ObjectInstance, {<<m, l>> : m \in Multiple, l \in Small(Resource)})}

\* Records to cut: two, the second of which may hold two.
Inner == <<Leaf(ResourceInstance, 1, 2), Leaf(ResourceInstance, 2, 9)>>
MCCutTrees == Pairs(Resource)
                \cup {<<l, m>> : l \in Small(Resource), m \in Around(MultipleResource, {Inner})}
=============================================================================
