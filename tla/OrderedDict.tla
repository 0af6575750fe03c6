---------------------------- MODULE OrderedDict ----------------------------
(***************************************************************************)
(* What Hash and the tables of the interpreter expect of st.c: a finite    *)
(* map that remembers in which order its keys came, and can be traversed   *)
(* in that order while it is being changed.                                *)
(***************************************************************************)
EXTENDS Sequences, SequencesExt, Integers

CONSTANTS Key, Value, NoKey

VARIABLES
    dict,      \* the pairs, in the order of insertion
    passed,    \* how many of them the traversal has passed, its current one included
    visiting,  \* the key of its current pair
    traversal  \* "running", or how the last one ended

dictVars == <<dict, passed, visiting, traversal>>

\* The place of a traversal is lost.
Lost == -1

Keys == {e.key : e \in ToSet(dict)}
IndexOf(k) == CHOOSE i \in DOMAIN dict : dict[i].key = k

Init ==
    /\ dict = <<>>
    /\ passed = 0 /\ visiting = NoKey /\ traversal = "none"

\* A traversal may be lost only if its current pair is not there any more.
MayLose(k) ==
    traversal = "running" /\ (k = visiting \/ visiting \notin Keys) /\ passed' = Lost

\* A new key goes to the end, a known one keeps its place.
Put(k, v) ==
    /\ UNCHANGED <<visiting, traversal>>
    /\ dict' = IF k \in Keys THEN [dict EXCEPT ![IndexOf(k)].record = v]
               ELSE Append(dict, [key |-> k, record |-> v])
    /\ \/ UNCHANGED passed
       \/ visiting \notin Keys /\ MayLose(k)

Delete(k) ==
    /\ UNCHANGED <<visiting, traversal>>
    /\ k \in Keys
    /\ dict' = RemoveAt(dict, IndexOf(k))
    /\ \/ passed' = IF IndexOf(k) <= passed THEN passed - 1 ELSE passed
       \/ MayLose(k)

Shift ==
    /\ traversal # "running"
    /\ dict # <<>>
    /\ dict' = Tail(dict)
    /\ UNCHANGED <<passed, visiting, traversal>>

Clear ==
    /\ traversal # "running"
    /\ dict' = <<>>
    /\ UNCHANGED <<passed, visiting, traversal>>

\* The rest of a traversal of d, of which n pairs are passed: the next pair, or the end.
GoOn(d, n) ==
    /\ dict' = d
    /\ IF n < Len(d)
       THEN passed' = n + 1 /\ visiting' = d[n + 1].key /\ traversal' = "running"
       ELSE passed' = 0 /\ visiting' = NoKey /\ traversal' = "complete"

End(how) ==
    /\ passed' = 0 /\ visiting' = NoKey /\ traversal' = how
    /\ UNCHANGED dict

Begin == traversal # "running" /\ GoOn(dict, 0)

Advance == traversal = "running" /\ passed # Lost /\ GoOn(dict, passed)

\* The callback wants its current pair deleted.
DeleteAndAdvance ==
    /\ traversal = "running" /\ passed # Lost
    /\ visiting \in Keys
    /\ GoOn(RemoveAt(dict, IndexOf(visiting)), passed - 1)

Stop == traversal = "running" /\ passed # Lost /\ End("none")

Abort == traversal = "running" /\ passed = Lost /\ End("error")

Next ==
    \/ \E k \in Key, v \in Value : Put(k, v)
    \/ \E k \in Key : Delete(k)
    \/ Shift \/ Clear \/ Begin \/ Advance \/ DeleteAndAdvance \/ Stop \/ Abort

Spec == Init /\ [][Next]_dictVars
=============================================================================
