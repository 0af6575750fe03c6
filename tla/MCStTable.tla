---------------------------- MODULE MCStTable ----------------------------
(* Small tables. *)
EXTENDS StTable, TLC

CONSTANTS k1, k2, k3

\* All keys collide; the path of k3 is another one, as perterb is 2^11, 1 and then 0.
Colliding == [k \in Key |-> IF k = k3 THEN 2 ^ 11 ELSE 0]
Symmetry == Permutations({k1, k2})

\* Only k3 is given a new value.
OneEach == {<<k1, 1>>, <<k2, 1>>, <<k3, 1>>}
NewValue == {<<k3, 2>>}

\* Numbers as keys that do not collide, and nothing for UpdatePair.
Ident == [k \in Key |-> k]
AllPairs == Key \X Value
NoPair == {}
=============================================================================
