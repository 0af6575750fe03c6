------------------------------ MODULE StTable ------------------------------
(***************************************************************************)
(* The hash tables of the interpreter (st.c): an array of entries in the   *)
(* order of insertion, and, unless the table is small, an array of bins    *)
(* with open addressing that finds them.  Entries and bins are marked      *)
(* deleted; when the array of entries is full the table is rebuilt.  A     *)
(* traversal calls back into the program, which changes the table.         *)
(*                                                                         *)
(* Entry indices count from 1 here and from 0 in st.c.                     *)
(***************************************************************************)
EXTENDS Integers, Sequences, SequencesExt, FiniteSets, FiniteSetsExt

CONSTANTS
    Key, NoKey, Value, NoValue,
    Hash,         \* do_hash of each key
    InsertPair,   \* the pairs <<key, value>> that st_insert puts into the table
    UpdatePair,   \* and those that st_update does
    MINIMAL_POWER2,  \* st.c insists on 2 or more; with 1, three keys suffice to make a
    MAX_POWER2,      \*   table grow, shrink and be compacted
    MAX_POWER2_FOR_TABLES_WITHOUT_BINS,
    InitialSize,  \* the sizes a table is created with
    Calls         \* the other operations that the program uses

ASSUME StAssumption ==
    /\ NoKey \notin Key /\ NoValue \notin Value
    /\ Hash \in [Key -> Nat] /\ InsertPair \cup UpdatePair \subseteq Key \X Value
    /\ MINIMAL_POWER2 \in Nat \ {0} /\ MAX_POWER2 \in Nat /\ MINIMAL_POWER2 <= MAX_POWER2
    /\ MAX_POWER2_FOR_TABLES_WITHOUT_BINS \in Nat
    /\ InitialSize \subseteq Nat /\ InitialSize # {}

VARIABLES
    tab,   \* struct st_table; entries goes up to entries_bound
    iter,  \* st_general_foreach: i and key of the current entry, and whether
           \*   rebuilds_num has changed since
    traversal  \* "running" in st_general_foreach, and how it returned before

vars == <<tab, iter, traversal>>

NoBins == <<>>
EMPTY_BIN == 0
DELETED_BIN == 1
ENTRY_BASE == 2
REBUILD_THRESHOLD == 4

DeletedEntry == [key |-> NoKey, record |-> NoValue]
NoIter == [i |-> 0, key |-> NoKey, rebuilt |-> FALSE]

\* 1 << n.
Pow2[n \in 0..(MAX_POWER2 + 1)] == IF n = 0 THEN 1 ELSE 2 * Pow2[n - 1]

\* Beyond MAX_POWER2 st.c raises "st_table too big", which is left out: no table gets there.
ASSUME SizeAssumption ==
    /\ IsFiniteSet(Key) /\ 2 * Cardinality(Key) <= Pow2[MAX_POWER2]
    /\ \A size \in InitialSize : size < Pow2[MAX_POWER2]

get_allocated_entries(t) == Pow2[t.entry_power]

\* The smallest n >= MINIMAL_POWER2 with 2^n > size.
get_power2(size) == CHOOSE n \in MINIMAL_POWER2..MAX_POWER2 :
                        Pow2[n] > size /\ \A m \in MINIMAL_POWER2..(n - 1) : Pow2[m] <= size

EmptyBins(power) ==
    IF power <= MAX_POWER2_FOR_TABLES_WITHOUT_BINS THEN NoBins
    ELSE [b \in 0..(Pow2[power + 1] - 1) |-> EMPTY_BIN]

st_init_table_with_size(size) ==
    LET power == get_power2(size)
    IN  [entry_power |-> power, entries |-> <<>>, entries_start |-> 0, num_entries |-> 0,
         bins |-> EmptyBins(power)]

Init ==
    /\ \E size \in InitialSize : tab = st_init_table_with_size(size)
    /\ iter = NoIter /\ traversal = "none"
-----------------------------------------------------------------------------
(* Searching. *)

Live(t) == {i \in DOMAIN t.entries : i > t.entries_start /\ t.entries[i].key # NoKey}

secondary_hash(ind, perterb, n) == (5 * ind + perterb + 1) % n
shift_perterb(perterb) == perterb \div (2 ^ 11)

\* An st_hash_t has 64 bits.
ASSUME HashAssumption ==
    \A k \in Key : LET S(p) == shift_perterb(p) IN S(S(S(S(S(S(Hash[k])))))) = 0

\* The bins that a search for k visits in an array of n.  After a few steps perterb is 0
\* and the path goes round in a cycle: a search that has not ended by then never does.
Probes(k, n) ==
    LET p[j \in 0..(n + 6)] ==
            IF j = 0 THEN [ind |-> Hash[k] % n, perterb |-> Hash[k]]
            ELSE LET prev == p[j - 1]
                     perterb == shift_perterb(prev.perterb)
                 IN  [ind |-> secondary_hash(prev.ind, perterb, n), perterb |-> perterb]
    IN  [j \in DOMAIN p |-> p[j].ind]

Paths == [k \in Key |-> [power \in MINIMAL_POWER2..MAX_POWER2 |-> Probes(k, Pow2[power + 1])]]

Path(t, k) == Paths[k][t.entry_power]

IsHit(t, b, k) == b >= ENTRY_BASE /\ t.entries[b - ENTRY_BASE + 1].key = k

\* The steps at which a search for k stops, and those at which an insertion does.
Stops(t, k) == {j \in DOMAIN Path(t, k) : LET b == t.bins[Path(t, k)[j]]
                                          IN  b = EMPTY_BIN \/ IsHit(t, b, k)}
Places(t, k) == {j \in DOMAIN Path(t, k) : t.bins[Path(t, k)[j]] \in {EMPTY_BIN, DELETED_BIN}}

SearchEnds(t, k) == t.bins # NoBins => Stops(t, k) # {}

\* find_table_bin_ind: the bin of k, or none.
find_table_bin_ind(t, k) ==
    LET ind == Path(t, k)[Min(Stops(t, k))]
    IN  IF t.bins[ind] = EMPTY_BIN THEN {} ELSE {ind}

\* find_entry: the entry of k by a linear search, or none.
find_entry(t, k) ==
    LET same == {i \in Live(t) : t.entries[i].key = k} IN IF same = {} THEN {} ELSE {Min(same)}

\* The entry that a search for k finds, or none.
Found(t, k) ==
    IF t.bins = NoBins THEN find_entry(t, k)
    ELSE {t.bins[b] - ENTRY_BASE + 1 : b \in find_table_bin_ind(t, k)}

\* find_table_bin_ind_direct, and find_table_bin_ptr_and_reserve for a key that is not in
\* the table: the first bin on its path that is empty or deleted.
find_table_bin_ind_direct(t, k) == Path(t, k)[Min(Places(t, k))]
-----------------------------------------------------------------------------
(* Changing the table. *)

\* Enters the i-th entry of t into the bins.
Enter(t, i, bin) == [t EXCEPT !.bins[bin] = i + ENTRY_BASE - 1]

\* A table of the given size with the entries es.
Filled(es, power) ==
    LET empty == [entry_power |-> power, entries |-> es, entries_start |-> 0,
                  num_entries |-> Len(es), bins |-> EmptyBins(power)]
        filled[i \in 0..Len(es)] ==
            IF i = 0 THEN empty
            ELSE LET t == filled[i - 1]
                 IN  IF t.bins = NoBins THEN t
                     ELSE Enter(t, i, find_table_bin_ind_direct(t, es[i].key))
    IN  filled[Len(es)]

\* How many entries there are up to the i-th one.
Rank(t, i) == Cardinality({j \in Live(t) : j <= i})

\* The entries that are not deleted, in their order (with \o <<>> TLC keeps a tuple, and
\* not a function that it evaluates later).
LiveEntries(t) ==
    [n \in 1..Cardinality(Live(t)) |-> t.entries[CHOOSE i \in Live(t) : Rank(t, i) = n]] \o <<>>

\* The array of entries is compacted, or a new one is made that is larger or smaller.
rebuild_table(t) ==
    LET compaction ==
            \/ /\ 2 * t.num_entries <= get_allocated_entries(t)
               /\ REBUILD_THRESHOLD * t.num_entries > get_allocated_entries(t)
            \/ t.num_entries < Pow2[MINIMAL_POWER2]
    IN  Filled(LiveEntries(t), IF compaction THEN t.entry_power
                               ELSE get_power2(2 * t.num_entries - 1))

IsFull(t) == Len(t.entries) = get_allocated_entries(t)

rebuild_table_if_necessary(t) == IF IsFull(t) THEN rebuild_table(t) ELSE t

\* st_add_direct_with_hash of a key that is not in the table.
st_add_direct(t, k, v) ==
    LET u == [t EXCEPT !.entries = Append(@, [key |-> k, record |-> v]), !.num_entries = @ + 1]
    IN  IF u.bins = NoBins THEN u ELSE Enter(u, Len(u.entries), find_table_bin_ind_direct(u, k))

\* The insertion of st_insert, which looks for the key first.
Inserted(t, k, v) ==
    IF Found(t, k) = {} THEN st_add_direct(t, k, v)
    ELSE [t EXCEPT !.entries[Max(Found(t, k))].record = v]

\* "Do not update entries_bound here."
update_range_for_deleted(t, i) ==
    IF t.entries_start = i - 1 THEN [t EXCEPT !.entries_start = i] ELSE t

Mut_Deleted(t, k) ==
    LET i == Max(Found(t, k))
        u == [t EXCEPT !.entries[i] = DeletedEntry, !.num_entries = @ - 1]
        w == IF t.bins = NoBins THEN u
             ELSE [u EXCEPT !.bins[Max(find_table_bin_ind(t, k))] = EMPTY_BIN]
    IN  update_range_for_deleted(w, i)

\* The entry of k and its bin are marked.
Deleted(t, k) ==
    LET i == Max(Found(t, k))
        u == [t EXCEPT !.entries[i] = DeletedEntry, !.num_entries = @ - 1]
        w == IF t.bins = NoBins THEN u
             ELSE [u EXCEPT !.bins[Max(find_table_bin_ind(t, k))] = DELETED_BIN]
    IN  update_range_for_deleted(w, i)
-----------------------------------------------------------------------------
(* The operations. *)

Running == traversal = "running"

\* rebuilds_num changes when the table is rebuilt.
NoteRebuild == iter' = IF Running /\ IsFull(tab) THEN [iter EXCEPT !.rebuilt = TRUE] ELSE iter

\* A callback that deletes its current pair does not put it back.
MayAdd(k) == Running /\ k = iter.key => Found(tab, k) # {}

st_insert(k, v) ==
    LET t == rebuild_table_if_necessary(tab)
    IN  /\ SearchEnds(tab, k) /\ MayAdd(k)
        /\ SearchEnds(t, k)
        /\ tab' = Inserted(t, k, v)
        /\ NoteRebuild
        /\ UNCHANGED traversal

\* st_update with a callback that returns ST_CONTINUE.
st_update(k, v) ==
    /\ SearchEnds(tab, k) /\ MayAdd(k)
    /\ IF Found(tab, k) # {}
       THEN /\ tab' = [tab EXCEPT !.entries[Max(Found(tab, k))].record = v]
            /\ UNCHANGED iter
       ELSE tab' = st_add_direct(rebuild_table_if_necessary(tab), k, v) /\ NoteRebuild
    /\ UNCHANGED traversal

\* st_general_delete, and st_update with a callback that returns ST_DELETE, of a key
\* that is in the table.
st_delete(k) ==
    /\ "delete" \in Calls
    /\ SearchEnds(tab, k) /\ Found(tab, k) # {}
    /\ tab' = Deleted(tab, k)
    /\ UNCHANGED <<iter, traversal>>

\* st_shift, which Hash#shift does not call during a traversal.
st_shift ==
    /\ "shift" \in Calls /\ ~Running
    /\ Live(tab) # {}
    /\ tab' = Deleted(tab, tab.entries[Min(Live(tab))].key)
    /\ UNCHANGED <<iter, traversal>>

\* st_shift of an empty table.
ShiftEmpty ==
    /\ "shift_empty" \in Calls /\ ~Running
    /\ Live(tab) = {}
    /\ tab' = [tab EXCEPT !.entries = <<>>, !.entries_start = 0]
    /\ UNCHANGED <<iter, traversal>>

\* st_clear, which Hash#clear does not call during a traversal.
st_clear ==
    /\ "clear" \in Calls /\ ~Running
    /\ tab' = [tab EXCEPT !.entries = <<>>, !.entries_start = 0, !.num_entries = 0,
                          !.bins = EmptyBins(tab.entry_power)]
    /\ UNCHANGED <<iter, traversal>>
-----------------------------------------------------------------------------
(* st_general_foreach, for st_foreach_check. *)

\* The loop, from the entry after the i-th one of t to the next call of the callback.
GoOn(t, i) ==
    LET rest == {j \in Live(t) : j > i}
    IN  /\ tab' = t
        /\ IF rest = {} THEN iter' = NoIter /\ traversal' = "complete"
           ELSE /\ iter' = [i |-> Min(rest), key |-> t.entries[Min(rest)].key, rebuilt |-> FALSE]
                /\ traversal' = "running"

Return(how) ==
    /\ iter' = NoIter /\ traversal' = how
    /\ UNCHANGED tab

ForeachBegin ==
    /\ "foreach" \in Calls /\ ~Running
    /\ GoOn(tab, tab.entries_start)

Mut_CurrentEntry == {iter.i}

\* The index of the current entry when the callback returns: it is looked up again if
\* the table was rebuilt.
CurrentEntry == IF iter.rebuilt THEN Found(tab, iter.key) ELSE {iter.i}

CallbackReturns == Running /\ SearchEnds(tab, iter.key)

ForeachContinue == CallbackReturns /\ CurrentEntry # {} /\ GoOn(tab, Max(CurrentEntry))

ForeachStop == CallbackReturns /\ CurrentEntry # {} /\ Return("none")

ForeachDelete ==
    /\ CallbackReturns
    /\ CurrentEntry # {}
    /\ GoOn(IF Found(tab, iter.key) = {} THEN tab ELSE Deleted(tab, iter.key), Max(CurrentEntry))

ForeachError == CallbackReturns /\ CurrentEntry = {} /\ Return("error")
-----------------------------------------------------------------------------
Next ==
    \/ \E p \in InsertPair : st_insert(p[1], p[2])
    \/ \E p \in UpdatePair : st_update(p[1], p[2])
    \/ \E k \in Key : st_delete(k)
    \/ st_shift \/ ShiftEmpty \/ st_clear
    \/ ForeachBegin \/ ForeachContinue \/ ForeachStop \/ ForeachDelete \/ ForeachError

Spec == Init /\ [][Next]_vars
-----------------------------------------------------------------------------
TypeOK ==
    /\ tab.entries \in Seq([key : Key, record : Value] \cup {DeletedEntry})
    /\ Len(tab.entries) <= get_allocated_entries(tab)
    /\ tab.entries_start \in 0..Len(tab.entries)
    /\ iter \in [i : Nat, key : Key \cup {NoKey}, rebuilt : BOOLEAN]
    /\ traversal \in {"none", "running", "complete", "error"}

\* "The function choice guarantees that we can traverse all bins" (secondary_hash): a
\* search ends for every key, in the table or not, whatever was inserted and deleted
\* before.  It does if its path meets a bin that is neither taken nor marked deleted.
SearchesEnd == \A k \in Key : SearchEnds(tab, k)

\* Every search ends, and the bins lead to each entry in spite of collisions, of bins that
\* were deleted and reused and of rebuilding, and to nothing that was deleted;
\* num_entries counts the entries.
BinsFindEntries ==
    /\ SearchesEnd
    /\ \A k \in Key : Found(tab, k) = find_entry(tab, k)
    /\ tab.num_entries = Cardinality(Live(tab))
    /\ tab.bins # NoBins => Cardinality({b \in DOMAIN tab.bins : tab.bins[b] >= ENTRY_BASE}) =
                            tab.num_entries

Passed ==
    IF ~Running THEN 0
    ELSE IF CurrentEntry = {} THEN -1
    ELSE Rank(tab, Max(CurrentEntry))

Dict == INSTANCE OrderedDict WITH
            dict <- LiveEntries(tab), passed <- Passed, visiting <- iter.key

\* A table is a map in the order of insertion, and a traversal of it calls back once for
\* each pair that is there when its turn comes, though the callback inserts, deletes
\* and so has the table rebuilt: it goes wrong only if the current pair was deleted.
ImplementsDict == Dict!Spec
=============================================================================
