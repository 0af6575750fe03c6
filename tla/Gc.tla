--------------------------------- MODULE Gc ---------------------------------
(***************************************************************************)
(* The garbage collector (gc.c, RGenGC and RIncGC): generational marking   *)
(* with a remembered set, incremental marking of full collections, lazy    *)
(* sweeping, and the write barriers by which the program, which runs       *)
(* between the steps of a collection, tells the collector what it did.     *)
(*                                                                         *)
(* during_gc is set while the collector does not let the program run.  A   *)
(* step of an incremental marking or of a lazy sweep that begins and ends  *)
(* with the program running leaves it unset: as the number of slots such a *)
(* step works on depends on thresholds, each object marked and each page   *)
(* swept is a step of its own.                                             *)
(***************************************************************************)
EXTENDS Integers, FiniteSets

CONSTANTS
    Pages,           \* the pages of the heap, each a set of slots
    RVALUE_OLD_AGE,  \* the age at which an object is old
    MaxRefs          \* bound: the references an object has room for

ASSUME PagesAssumption ==
    /\ IsFiniteSet(UNION Pages)
    /\ \A p, q \in Pages : p # q => p \cap q = {}
ASSUME AgeAssumption == RVALUE_OLD_AGE \in Nat \ {0}
ASSUME RefsAssumption == MaxRefs \in Nat

Slot == UNION Pages

VARIABLES
    objects,         \* the slots that hold an object
    refs,            \* the slots each object refers to
    roots,           \* what the machine stacks and global tables refer to
    age,             \* FL_PROMOTED of each object
    wb_unprotected,  \* the four bitmaps of the pages: wb_unprotected_bits,
    mark_bits,       \*   mark_bits,
    marking_bits,    \*   marking_bits: grey, or remembered,
    uncollectible,   \*   uncollectible_bits
    has_remembered,  \* the pages whose has_remembered_objects is set
    has_shady,       \* the pages whose has_uncollectible_shady_objects is set
    mark_stack,      \* objspace->mark_stack (its order is left open)
    old_objects,     \* rgengc.old_objects
    mode,            \* flags.mode
    minor,           \* flags.during_minor_gc
    incremental,     \* flags.during_incremental_marking
    during_gc,       \* flags.during_gc
    pass,            \* what a marking is doing
    pages_left,      \* the pages this pass or this sweep has not come to
    todo             \* objects of the page this pass is at, still to be visited

heap == <<objects, refs, roots>>
bits == <<age, mark_bits, marking_bits, uncollectible, has_remembered, has_shady,
          mark_stack, old_objects>>
flags == <<mode, minor, incremental, during_gc, pass, pages_left, todo>>
vars == <<heap, wb_unprotected, bits, flags>>

Init ==
    /\ objects = {} /\ roots = {}
    /\ refs = [o \in Slot |-> {}]
    /\ age = [o \in Slot |-> 0]
    /\ wb_unprotected = {} /\ mark_bits = {} /\ marking_bits = {} /\ uncollectible = {}
    /\ has_remembered = {} /\ has_shady = {} /\ mark_stack = {}
    /\ old_objects = 0
    /\ mode = "none" /\ pass = "none"
    /\ minor = FALSE /\ incremental = FALSE /\ during_gc = FALSE
    /\ pages_left = {} /\ todo = {}

RVALUE_OLD_P(o) == age[o] = RVALUE_OLD_AGE
RVALUE_BLACK_P(o) == o \in mark_bits \ marking_bits
Young(o) == o \notin wb_unprotected /\ ~RVALUE_OLD_P(o)
PagesOf(os) == {p \in Pages : p \cap os # {}}
-----------------------------------------------------------------------------
(* Marking an object. *)

Mut_Promoted(cs, old_parent) == {}

\* rgengc_check_relation: an old object may only refer to old ones and to remembered
\* ones.  The young objects that are marked already become old,
Promoted(cs, old_parent) == {c \in cs \cap mark_bits : old_parent /\ Young(c)}

\* and the unprotected ones are remembered for good (gc_remember_unprotected).
Shady(cs, old_parent) == {c \in cs \cap wb_unprotected : old_parent /\ c \notin uncollectible}

\* gc_aging of an object that is marked now; one that an old object refers to was made
\* a candidate for promotion.
Aged(c, old_parent) ==
    IF ~Young(c) THEN age[c] ELSE IF old_parent THEN RVALUE_OLD_AGE ELSE age[c] + 1

\* gc_mark_ptr (or gc_mark_from) for each of the objects cs, whose parent is old or
\* not; popped is taken off the mark stack after that.
Visit(cs, old_parent, popped) ==
    LET fresh == cs \ mark_bits
        promoted == Promoted(cs, old_parent)
        shady == Shady(cs, old_parent)
        olds == promoted \cup {c \in fresh : /\ Aged(c, old_parent) = RVALUE_OLD_AGE
                                             /\ Young(c) \/ ~minor}
        again == promoted \ marking_bits
        greyed == fresh \cup (IF incremental THEN again ELSE {})
    IN  /\ mark_bits' = mark_bits \cup fresh
        /\ age' = [c \in Slot |-> IF c \in promoted THEN RVALUE_OLD_AGE
                                  ELSE IF c \in fresh THEN Aged(c, old_parent) ELSE age[c]]
        /\ uncollectible' = uncollectible \cup olds \cup shady
        /\ old_objects' = old_objects + Cardinality(olds)
        /\ mark_stack' = (mark_stack \ popped) \cup greyed
        /\ IF incremental
           THEN /\ marking_bits' = (marking_bits \cup greyed) \ popped
                /\ UNCHANGED has_remembered
           ELSE /\ marking_bits' = marking_bits \cup again
                /\ has_remembered' = has_remembered \cup PagesOf(again)
        /\ has_shady' = has_shady \cup PagesOf(shady)

\* gc_mark_roots.
gc_mark_roots == Visit(roots, FALSE, {})
-----------------------------------------------------------------------------
(* The phases of a collection. *)

Mut_rgengc_mark_and_rememberset_clear ==
    /\ marking_bits' = {} /\ uncollectible' = {}
    /\ has_remembered' = {} /\ has_shady' = {}
    /\ UNCHANGED mark_bits

rgengc_mark_and_rememberset_clear ==
    /\ mark_bits' = {} /\ marking_bits' = {} /\ uncollectible' = {}
    /\ has_remembered' = {} /\ has_shady' = {}

\* gc_start and the beginning of gc_marks_start.
gc_start(full, immediate_mark) ==
    /\ mode = "none"
    /\ ~during_gc
    /\ mode' = "marking"
    /\ during_gc' = TRUE
    /\ minor' = ~full
    /\ incremental' = (full /\ ~immediate_mark)
    /\ IF full
       THEN /\ rgengc_mark_and_rememberset_clear
            /\ old_objects' = 0
            /\ pass' = "roots" /\ pages_left' = {}
       ELSE /\ pass' = "remembered" /\ pages_left' = Pages
            /\ UNCHANGED <<mark_bits, marking_bits, uncollectible, has_remembered, has_shady,
                           old_objects>>
    /\ UNCHANGED <<heap, wb_unprotected, age, mark_stack, todo>>

\* rgengc_rememberset_mark comes to a page.
RememberedPage(p) ==
    /\ pass = "remembered"
    /\ todo = {}
    /\ p \in pages_left
    /\ pages_left' = pages_left \ {p}
    /\ IF p \in has_remembered \cup has_shady
       THEN /\ todo' = p \cap (marking_bits \cup (uncollectible \cap wb_unprotected))
            /\ marking_bits' = marking_bits \ p
            /\ has_remembered' = has_remembered \ {p}
       ELSE UNCHANGED <<todo, marking_bits, has_remembered>>
    /\ UNCHANGED <<heap, wb_unprotected, age, mark_bits, uncollectible, has_shady, mark_stack,
                   old_objects, mode, minor, incremental, during_gc, pass>>

\* gc_mark_children of an object found in a page.
VisitPageObject(o) ==
    /\ o \in todo
    /\ Visit(refs[o], RVALUE_OLD_P(o), {})
    /\ todo' = todo \ {o}
    /\ UNCHANGED <<heap, wb_unprotected, mode, minor, incremental, during_gc,
                   pass, pages_left>>

\* The end of gc_marks_start; an incremental marking lets the program go on.
MarkRoots ==
    /\ \/ pass = "roots"
       \/ pass = "remembered" /\ pages_left = {} /\ todo = {}
    /\ gc_mark_roots
    /\ pass' = "stack"
    /\ during_gc' = ~incremental
    /\ UNCHANGED <<heap, wb_unprotected, mode, minor, incremental, pages_left, todo>>

\* gc_mark_stacked_objects takes an object from the mark stack.
gc_mark_stacked_objects(o) ==
    /\ pass = "stack" \/ (pass = "shady" /\ pages_left = {} /\ todo = {})
    /\ o \in mark_stack
    /\ Visit(refs[o], RVALUE_OLD_P(o), {o})
    /\ UNCHANGED <<heap, wb_unprotected, flags>>

\* gc_marks_finish of an incremental marking: the roots are marked again and, if
\* that found nothing, the wb-unprotected objects are visited again.
gc_marks_finish ==
    /\ pass = "stack" /\ incremental
    /\ mark_stack = {}
    /\ gc_mark_roots
    /\ IF mark_stack' = {}
       THEN /\ incremental' = FALSE
            /\ pass' = "shady" /\ pages_left' = Pages
            /\ during_gc' = TRUE
       ELSE UNCHANGED <<incremental, pass, pages_left, during_gc>>
    /\ UNCHANGED <<heap, wb_unprotected, mode, minor, todo>>

Mut_ShadyPage(p) ==
    /\ pass = "shady"
    /\ p \in pages_left
    /\ pages_left' = pages_left \ {p}
    /\ UNCHANGED <<heap, wb_unprotected, bits, mode, minor, incremental, during_gc, pass, todo>>

\* gc_marks_wb_unprotected_objects comes to a page.
ShadyPage(p) ==
    /\ pass = "shady"
    /\ todo = {}
    /\ p \in pages_left
    /\ pages_left' = pages_left \ {p}
    /\ todo' = p \cap mark_bits \cap wb_unprotected
    /\ UNCHANGED <<heap, wb_unprotected, bits, mode, minor, incremental,
                   during_gc, pass>>

\* Marking is over: gc_sweep.  (during_minor_gc, which only marking reads, is put
\* back here.)
gc_sweep_start ==
    /\ mode = "marking" /\ ~incremental
    /\ pass = "stack" \/ (pass = "shady" /\ pages_left = {} /\ todo = {})
    /\ mark_stack = {}
    /\ mode' = "sweeping"
    /\ pass' = "none"
    /\ pages_left' = Pages
    /\ minor' = FALSE
    /\ UNCHANGED <<heap, wb_unprotected, bits, incremental, during_gc, todo>>

\* gc_page_sweep, and gc_sweep_finish after the last page.  How many pages are swept
\* before the program goes on depends on flags.immediate_sweep and on the slots they
\* give: it is left open.
gc_page_sweep(p) ==
    /\ mode = "sweeping"
    /\ p \in pages_left
    /\ LET freed == (p \cap objects) \ mark_bits
       IN  /\ objects' = objects \ freed
           /\ refs' = [o \in Slot |-> IF o \in freed THEN {} ELSE refs[o]]
           /\ age' = [o \in Slot |-> IF o \in freed THEN 0 ELSE age[o]]
           /\ wb_unprotected' = wb_unprotected \ freed
    /\ mark_bits' = (mark_bits \ p) \cup (p \cap uncollectible)
    /\ pages_left' = pages_left \ {p}
    /\ mode' = IF pages_left' = {} THEN "none" ELSE mode
    /\ during_gc' \in {FALSE} \cup (IF pages_left' = {} THEN {} ELSE {during_gc})
    /\ UNCHANGED <<roots, marking_bits, uncollectible, has_remembered, has_shady, mark_stack,
                   old_objects, minor, incremental, pass, todo>>
-----------------------------------------------------------------------------
(* What the program does, and the write barriers. *)

\* b, which the program has at hand, is stored in a.
Store(a, b) ==
    /\ Cardinality(refs[a] \cup {b}) <= MaxRefs
    /\ refs' = [refs EXCEPT ![a] = @ \cup {b}]

\* gc_writebarrier_incremental: a black object takes its new child along.
gc_writebarrier_incremental(a, b) ==
    IF RVALUE_BLACK_P(a) /\ (b \in mark_bits \/ a \notin wb_unprotected)
    THEN Visit({b}, RVALUE_OLD_P(a), {})
    ELSE UNCHANGED bits

\* rgengc_remember.
rgengc_remember(a) ==
    /\ marking_bits' = marking_bits \cup {a}
    /\ has_remembered' = IF a \in marking_bits THEN has_remembered
                         ELSE has_remembered \cup PagesOf({a})
    /\ UNCHANGED <<age, mark_bits, uncollectible, has_shady, mark_stack, old_objects>>

Mut_rb_gc_writebarrier(a, b) ==
    IF RVALUE_OLD_P(a) /\ ~RVALUE_OLD_P(b) /\ ~incremental THEN rgengc_remember(a)
    ELSE UNCHANGED bits

\* rb_gc_writebarrier: a refers to b now.
rb_gc_writebarrier(a, b) ==
    IF incremental THEN gc_writebarrier_incremental(a, b)
    ELSE IF RVALUE_OLD_P(a) /\ ~RVALUE_OLD_P(b) THEN rgengc_remember(a)
    ELSE UNCHANGED bits

\* RB_OBJ_WRITE of a reference the program has at hand.
rb_obj_write(a, b) ==
    /\ ~during_gc
    /\ {a, b} \subseteq roots
    /\ Store(a, b)
    /\ rb_gc_writebarrier(a, b)
    /\ UNCHANGED <<objects, roots, wb_unprotected, flags>>

\* rb_gc_writebarrier_remember: references were copied into a, which is protected.
rb_gc_writebarrier_remember(a, b) ==
    /\ ~during_gc
    /\ {a, b} \subseteq roots
    /\ a \notin wb_unprotected
    /\ Store(a, b)
    /\ IF incremental
       THEN IF RVALUE_BLACK_P(a)
            THEN /\ marking_bits' = marking_bits \cup {a}
                 /\ mark_stack' = mark_stack \cup {a}
                 /\ UNCHANGED <<age, mark_bits, uncollectible, has_remembered, has_shady,
                                old_objects>>
            ELSE UNCHANGED bits
       ELSE IF RVALUE_OLD_P(a) THEN rgengc_remember(a)
       ELSE UNCHANGED bits
    /\ UNCHANGED <<objects, roots, wb_unprotected, flags>>

Mut_Demote(a) ==
    /\ old_objects' = old_objects - (IF a \in mark_bits THEN 1 ELSE 0)
    /\ mark_bits' = mark_bits \cup {a}
    /\ uncollectible' = uncollectible \cup {a}
    /\ has_shady' = has_shady \cup PagesOf({a})
    /\ UNCHANGED marking_bits

\* RVALUE_DEMOTE, then marked and remembered as an unprotected object.
Demote(a) ==
    /\ marking_bits' = IF incremental THEN marking_bits ELSE marking_bits \ {a}
    /\ old_objects' = old_objects - (IF a \in mark_bits THEN 1 ELSE 0)
    /\ mark_bits' = mark_bits \cup {a}
    /\ uncollectible' = uncollectible \cup {a}
    /\ has_shady' = has_shady \cup PagesOf({a})

\* rb_gc_writebarrier_unprotect: from now on a is written without barriers.
rb_gc_writebarrier_unprotect(a) ==
    /\ ~during_gc
    /\ a \in roots \ wb_unprotected
    /\ wb_unprotected' = wb_unprotected \cup {a}
    /\ age' = [age EXCEPT ![a] = 0]
    /\ IF RVALUE_OLD_P(a) THEN Demote(a)
       ELSE UNCHANGED <<marking_bits, old_objects, mark_bits, uncollectible, has_shady>>
    /\ UNCHANGED <<heap, has_remembered, mark_stack, flags>>

\* newobj_of: a free slot; during a lazy sweep one of a page that was swept.
newobj_of(o, wb_protected) ==
    /\ ~during_gc
    /\ o \notin objects
    /\ mode = "sweeping" => \A p \in pages_left : o \notin p
    /\ objects' = objects \cup {o}
    /\ roots' = roots \cup {o}
    /\ wb_unprotected' = IF wb_protected THEN wb_unprotected ELSE wb_unprotected \cup {o}
    /\ UNCHANGED <<refs, bits, flags>>

\* The program forgets, reads and overwrites references: the collector is not told.
DropRoot(o) ==
    /\ ~during_gc
    /\ o \in roots
    /\ roots' = roots \ {o}
    /\ UNCHANGED <<objects, refs, wb_unprotected, bits, flags>>

ReadReference(a, b) ==
    /\ ~during_gc
    /\ a \in roots /\ b \in refs[a] \ roots
    /\ roots' = roots \cup {b}
    /\ UNCHANGED <<objects, refs, wb_unprotected, bits, flags>>

ClearReference(a, b) ==
    /\ ~during_gc
    /\ a \in roots /\ b \in refs[a]
    /\ refs' = [refs EXCEPT ![a] = @ \ {b}]
    /\ UNCHANGED <<objects, roots, wb_unprotected, bits, flags>>

\* An object that is recycled is no longer counted as old.
ForgetOld(o) ==
    old_objects' = old_objects - (IF RVALUE_OLD_P(o) /\ o \in mark_bits THEN 1 ELSE 0)

\* rb_gc_force_recycle of a temporary object that nothing refers to.
rb_gc_force_recycle(o) ==
    /\ ~during_gc
    /\ o \in roots
    /\ \A x \in Slot : o \notin refs[x]
    /\ objects' = objects \ {o}
    /\ roots' = roots \ {o}
    /\ refs' = [refs EXCEPT ![o] = {}]
    /\ age' = [age EXCEPT ![o] = 0]
    /\ ForgetOld(o)
    /\ uncollectible' = uncollectible \ {o}
    /\ wb_unprotected' = wb_unprotected \ {o}
    /\ marking_bits' = marking_bits \ {o}
    /\ mark_stack' = mark_stack \ {o}
    /\ mark_bits' = IF ~incremental /\ ~RVALUE_OLD_P(o) /\ (\E p \in pages_left : o \in p)
                    THEN mark_bits ELSE mark_bits \ {o}
    /\ UNCHANGED <<has_remembered, has_shady, flags>>
-----------------------------------------------------------------------------
Collect ==
    \/ \E full, immediate_mark \in BOOLEAN : gc_start(full, immediate_mark)
    \/ \E p \in Pages : RememberedPage(p) \/ ShadyPage(p) \/ gc_page_sweep(p)
    \/ \E o \in Slot : VisitPageObject(o) \/ gc_mark_stacked_objects(o)
    \/ MarkRoots \/ gc_marks_finish \/ gc_sweep_start

Program ==
    \/ \E a, b \in Slot : \/ rb_obj_write(a, b) \/ rb_gc_writebarrier_remember(a, b)
                          \/ ReadReference(a, b) \/ ClearReference(a, b)
    \/ \E o \in Slot : \/ rb_gc_writebarrier_unprotect(o) \/ DropRoot(o)
                       \/ rb_gc_force_recycle(o)
                       \/ \E wb_protected \in BOOLEAN : newobj_of(o, wb_protected)

Next == Collect \/ Program

Spec == Init /\ [][Next]_vars
-----------------------------------------------------------------------------
(* Properties. *)

\* The objects the program can get at: those in every set that holds the roots and
\* what its members refer to.
Closed(s) == roots \subseteq s /\ \A o \in s : refs[o] \subseteq s
Reachable == {o \in Slot : \A s \in SUBSET Slot : Closed(s) => o \in s}

\* is_garbage_object: unmarked, in a page that was not swept yet.
Garbage == IF mode = "sweeping" THEN (UNION pages_left) \ mark_bits ELSE {}

\* No object that the program can get at is ever freed, whatever it wrote between
\* the steps of an incremental marking or a lazy sweep, however old the objects are
\* and whether they have write barriers or not.
LiveObjectsSurvive == Reachable \subseteq objects

\* "reachable objects from black objects should be black or grey objects"
\* (verify_internal_consistency_i): while the program runs during an incremental
\* marking, no protected black object refers to a white one.
NoBlackToWhite ==
    incremental /\ ~during_gc =>
        \A a \in objects \ wb_unprotected : RVALUE_BLACK_P(a) => refs[a] \subseteq mark_bits

\* "reachable objects from an oldgen object should be old or (young with remember)"
\* (verify_internal_consistency_i, check_generation_i): a minor collection, which
\* takes old objects for granted, misses no young one.
OldToYoungIsRemembered ==
    mode # "marking" =>
        \A a \in objects \ Garbage : RVALUE_OLD_P(a) =>
            \A b \in refs[a] : RVALUE_OLD_P(b) \/ a \in marking_bits \/ b \in marking_bits
                                               \/ b \in uncollectible

\* A full marking during which the program does not run keeps no garbage: it marks
\* nothing but what the program can get at, and when it is over all of that.
FullMarkingIsExact ==
    pass = "stack" /\ ~minor /\ ~incremental =>
        /\ mark_bits \subseteq Reachable
        /\ mark_stack = {} => mark_bits = Reachable

\* check_rvalue_consistency, gc_verify_heap_page and the assertions of newobj_init: the
\* bitmaps, the ages and the page flags agree when no marking is under way, and what
\* an object left in them is gone before its slot is used again; rgengc.old_objects, on
\* which the decision for a full collection rests, counts the old objects that stay.
BitsAgree ==
    /\ \A o \in wb_unprotected : age[o] = 0
    /\ (wb_unprotected \cup marking_bits \cup mark_stack) \subseteq objects
    /\ \A o \in mark_bits \ objects : mode = "sweeping" /\ \E p \in pages_left : o \in p
    /\ mode # "marking" =>
        /\ uncollectible \subseteq mark_bits
        /\ \A o \in uncollectible : RVALUE_OLD_P(o) \/ o \in wb_unprotected
        /\ \A o \in marking_bits : RVALUE_OLD_P(o)
        /\ PagesOf(marking_bits) \subseteq has_remembered
        /\ PagesOf(uncollectible \cap wb_unprotected) \subseteq has_shady
        /\ mark_stack = {}
        /\ old_objects = Cardinality({o \in objects \cap mark_bits : RVALUE_OLD_P(o)})
=============================================================================
