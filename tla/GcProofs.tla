------------------------------ MODULE GcProofs ------------------------------
(***************************************************************************)
(* The safety properties of the collector, for every heap, every age at    *)
(* which objects are old and every number of references of an object.      *)
(*                                                                         *)
(* GcInv is the inductive invariant.  Its two central parts are the ones   *)
(* the write barrier is for: MarkedIsClosed, that what a marked object     *)
(* refers to is marked or still to be visited (incremental marking), and   *)
(* OldRefersToOld, that what an old object refers to is old too or will be *)
(* visited because of it (generations).  Neither holds by itself: they     *)
(* need the bitmaps to agree with the ages (BitmapsAgree, RememberedSet),  *)
(* the order of the passes (Phases), and that free slots are clean         *)
(* (FreeSlotsAreClean).  MarkedIsReachable is the other half of the exact  *)
(* full marking: nothing but what the roots reach is marked.               *)
(***************************************************************************)
EXTENDS Gc, FiniteSetTheorems, TLAPS

-----------------------------------------------------------------------------
(* The inductive invariant. *)

HeapTypeOK ==
    /\ objects \in SUBSET Slot /\ roots \in SUBSET Slot
    /\ refs \in [Slot -> SUBSET Slot]
    /\ wb_unprotected \in SUBSET Slot

BitsTypeOK ==
    /\ age \in [Slot -> 0..RVALUE_OLD_AGE]
    /\ mark_bits \in SUBSET Slot /\ marking_bits \in SUBSET Slot
    /\ uncollectible \in SUBSET Slot /\ mark_stack \in SUBSET Slot
    /\ has_remembered \in SUBSET Pages /\ has_shady \in SUBSET Pages
    /\ old_objects \in Int

FlagsTypeOK ==
    /\ mode \in {"none", "marking", "sweeping"}
    /\ pass \in {"none", "roots", "remembered", "stack", "shady"}
    /\ minor \in BOOLEAN /\ incremental \in BOOLEAN /\ during_gc \in BOOLEAN
    /\ pages_left \in SUBSET Pages
    /\ todo \in SUBSET Slot

TypeOK == HeapTypeOK /\ BitsTypeOK /\ FlagsTypeOK

\* Which passes a collection makes, and when the program runs.
Phases ==
    /\ mode = "marking" <=> pass # "none"
    /\ mode = "none" => pages_left = {} /\ ~during_gc
    /\ pass \in {"none", "roots", "stack"} => todo = {}
    /\ pass \in {"roots", "stack"} => pages_left = {}
    /\ pass \in {"roots", "remembered", "shady"} => during_gc
    /\ pass = "stack" => (during_gc <=> ~incremental)
    /\ minor => pass \in {"remembered", "stack"}
    /\ pass = "remembered" => minor
    /\ incremental => pass \in {"roots", "stack"} /\ ~minor

\* o is in a page that this pass or this sweep has not come to.
Ahead(o) == \E p \in pages_left : o \in p

\* A free slot is what newobj_init expects; only a mark bit may be left over, until
\* the page is swept.
FreeSlotsAreClean ==
    \A o \in Slot \ objects :
        /\ refs[o] = {} /\ age[o] = 0
        /\ o \notin wb_unprotected /\ o \notin marking_bits
        /\ o \notin mark_stack /\ o \notin uncollectible
        /\ o \in mark_bits => mode = "sweeping" /\ Ahead(o)

\* The objects that this collection does not free.
Kept == objects \ Garbage

\* The bitmaps of the pages.
BitmapsAgree ==
    /\ \A o \in wb_unprotected : age[o] = 0
    /\ uncollectible \subseteq mark_bits
    /\ \A o \in uncollectible : RVALUE_OLD_P(o) \/ o \in wb_unprotected
    /\ mark_stack \subseteq mark_bits /\ todo \subseteq mark_bits
    /\ mode # "marking" \/ pass = "roots" => mark_stack = {}
    /\ pass = "roots" => mark_bits = {} /\ marking_bits = {}
    /\ mode # "marking" => \A o \in mark_bits : o \in uncollectible \/ Ahead(o)

\* marking_bits are the grey objects of an incremental marking, and the remembered
\* old objects otherwise; a page with a remembered object has its flag set.
RememberedSet ==
    /\ incremental => marking_bits = mark_stack
    /\ ~incremental => /\ \A o \in marking_bits : RVALUE_OLD_P(o) /\ o \in uncollectible
                       /\ PagesOf(marking_bits) \subseteq has_remembered
    /\ PagesOf(uncollectible \cap wb_unprotected) \subseteq has_shady

\* The old objects are the ones that a minor collection need not mark; a full one
\* has to find them again.
OldIsUncollectible ==
    \A o \in Kept : RVALUE_OLD_P(o) =>
        o \in uncollectible \/ (mode = "marking" /\ ~minor /\ o \notin mark_bits)

OldMarked == {o \in objects \cap mark_bits : RVALUE_OLD_P(o)}
OldCount == old_objects = Cardinality(OldMarked)

\* A marked object whose references this marking has still to look at.
Awaits(o) ==
    \/ o \in mark_stack
    \/ o \in todo
    \/ /\ pass = "remembered" /\ Ahead(o)
       /\ o \in marking_bits \/ (o \in uncollectible /\ o \in wb_unprotected)
    \/ incremental /\ o \in wb_unprotected
    \/ pass = "shady" /\ Ahead(o) /\ o \in wb_unprotected

\* The tricolour invariant.
MarkedIsClosed ==
    mode = "marking" =>
        /\ \A a \in mark_bits : Awaits(a) \/ refs[a] \subseteq mark_bits
        /\ pass \in {"stack", "shady"} /\ ~incremental => roots \subseteq mark_bits

\* The generational invariant.
OldRefersToOld ==
    \A a \in Kept : RVALUE_OLD_P(a) =>
        \/ mode = "marking" /\ (a \notin mark_bits \/ Awaits(a))
        \/ a \in marking_bits
        \/ \A b \in refs[a] : RVALUE_OLD_P(b) \/ b \in uncollectible

\* What a full marking finds while the program does not run.
MarkedIsReachable == pass = "stack" /\ ~minor /\ ~incremental => mark_bits \subseteq Reachable

GcInv ==
    /\ TypeOK /\ Phases /\ FreeSlotsAreClean /\ Closed(Kept) /\ BitmapsAgree
    /\ RememberedSet /\ OldIsUncollectible /\ OldCount /\ MarkedIsClosed
    /\ OldRefersToOld /\ MarkedIsReachable
-----------------------------------------------------------------------------
\* What can be reached is in every closed set,
LEMMA ReachableLeast ==
    ASSUME NEW s \in SUBSET Slot, Closed(s)
    PROVE  Reachable \subseteq s
  BY DEF Reachable

\* and is closed itself.
LEMMA ReachableClosed ==
    ASSUME TypeOK
    PROVE  Closed(Reachable)
  <1>1. roots \subseteq Reachable
    BY DEF Reachable, Closed, TypeOK, HeapTypeOK, BitsTypeOK
  <1>2. ASSUME NEW o \in Reachable, NEW b \in refs[o] PROVE b \in Reachable
    <2>1. o \in Slot /\ b \in Slot
      BY <1>2 DEF Reachable, TypeOK, HeapTypeOK, BitsTypeOK
    <2>2. ASSUME NEW s \in SUBSET Slot, Closed(s) PROVE b \in s
      <3>1. o \in s
        BY <1>2, <2>2, ReachableLeast
      <3> QED BY <3>1, <2>2, <1>2 DEF Closed
    <2> QED BY <2>1, <2>2 DEF Reachable
  <1> QED BY <1>1, <1>2 DEF Closed
-----------------------------------------------------------------------------
\* The invariant holds for an empty heap.
LEMMA InitGcInv == Init => GcInv
  <1> SUFFICES ASSUME Init PROVE GcInv
    OBVIOUS
  <1> USE DEF Init
  <1>1. TypeOK
    <2>1. age \in [Slot -> 0..RVALUE_OLD_AGE]
      BY AgeAssumption
    <2>2. refs \in [Slot -> SUBSET Slot]
      OBVIOUS
    <2>3. minor \in BOOLEAN /\ incremental \in BOOLEAN /\ during_gc \in BOOLEAN
      BY Zenon
    <2> QED BY <2>1, <2>2, <2>3 DEF TypeOK, HeapTypeOK, BitsTypeOK, FlagsTypeOK
  <1>2. Phases
    BY DEF Phases
  <1>3. FreeSlotsAreClean
    BY DEF FreeSlotsAreClean
  <1>4. Closed(Kept)
    BY DEF Closed, Kept
  <1>5. BitmapsAgree /\ RememberedSet
    BY DEF BitmapsAgree, RememberedSet, PagesOf
  <1>6. OldIsUncollectible /\ MarkedIsClosed /\ OldRefersToOld
    BY DEF OldIsUncollectible, MarkedIsClosed, OldRefersToOld, Kept
  <1>7. OldCount
    <2>1. OldMarked = {}
      BY DEF OldMarked
    <2> QED BY <2>1, FS_EmptySet DEF OldCount
  <1>8. MarkedIsReachable
    BY DEF MarkedIsReachable
  <1> QED BY <1>1, <1>2, <1>3, <1>4, <1>5, <1>6, <1>7, <1>8 DEF GcInv
-----------------------------------------------------------------------------
(* Marking an object. *)

\* What gc_mark_ptr does to the bitmaps of the objects cs and of the others,
BitsEffect(cs, popped) ==
    /\ mark_bits' = mark_bits \cup cs
    /\ mark_stack' \subseteq mark_stack \cup cs
    /\ mark_stack \ popped \subseteq mark_stack'
    /\ cs \ mark_bits \subseteq mark_stack'
    /\ incremental => marking_bits' = mark_stack' /\ has_remembered' = has_remembered
    /\ marking_bits \ popped \subseteq marking_bits'
    /\ marking_bits' \subseteq marking_bits \cup cs
    /\ ~incremental => marking_bits \subseteq marking_bits'
    /\ uncollectible \subseteq uncollectible'
    /\ uncollectible' \subseteq uncollectible \cup cs

\* and to their ages.
AgesEffect(cs, old_parent) ==
    /\ age' \in [Slot -> 0..RVALUE_OLD_AGE]
    /\ \A c \in Slot : c \notin cs \/ c \in wb_unprotected => age'[c] = age[c]
    /\ \A c \in Slot : age[c] = RVALUE_OLD_AGE => age'[c] = RVALUE_OLD_AGE
    /\ \A c \in cs : old_parent =>
         age'[c] = RVALUE_OLD_AGE \/ (c \in wb_unprotected /\ c \in uncollectible')
    /\ \A c \in uncollectible' \ uncollectible :
         age'[c] = RVALUE_OLD_AGE \/ c \in wb_unprotected
    /\ \A c \in Slot : age'[c] = RVALUE_OLD_AGE /\ age[c] # RVALUE_OLD_AGE
         => c \in uncollectible' /\ (c \in mark_stack' \/ c \in marking_bits')
    /\ \A c \in cs \ mark_bits : age'[c] = RVALUE_OLD_AGE /\ ~minor => c \in uncollectible'
    /\ \A c \in marking_bits' \ marking_bits : ~incremental =>
         age'[c] = RVALUE_OLD_AGE /\ c \in uncollectible'

\* What gc_mark_ptr does to the bitmaps, rgengc_check_relation and gc_grey included.
LEMMA VisitBits ==
    ASSUME GcInv, NEW cs \in SUBSET objects, NEW old_parent \in BOOLEAN,
           NEW popped \in SUBSET mark_stack, Visit(cs, old_parent, popped)
    PROVE  BitsEffect(cs, popped)
  <1> DEFINE fresh == cs \ mark_bits
             promoted == Promoted(cs, old_parent)
             shady == Shady(cs, old_parent)
             olds == promoted \cup {c \in fresh : /\ Aged(c, old_parent) = RVALUE_OLD_AGE
                                                  /\ Young(c) \/ ~minor}
             again == promoted \ marking_bits
             greyed == fresh \cup (IF incremental THEN again ELSE {})
  <1>1. /\ mark_bits' = mark_bits \cup fresh
        /\ uncollectible' = uncollectible \cup olds \cup shady
        /\ mark_stack' = (mark_stack \ popped) \cup greyed
        /\ incremental => /\ marking_bits' = (marking_bits \cup greyed) \ popped
                          /\ has_remembered' = has_remembered
        /\ ~incremental => marking_bits' = marking_bits \cup again
    BY DEF Visit
  <1>2. promoted \subseteq cs \cap mark_bits /\ shady \subseteq cs
    BY DEF Promoted, Shady
  <1>3. olds \subseteq cs /\ again \subseteq cs /\ fresh \subseteq greyed /\ greyed \subseteq cs
    BY <1>2
  <1>4. incremental => marking_bits = mark_stack /\ greyed \cap popped = {}
    BY <1>2 DEF GcInv, RememberedSet, BitmapsAgree
  <1> HIDE DEF fresh, promoted, shady, olds, again, greyed
  <1>5. mark_bits' = mark_bits \cup cs
    BY <1>1 DEF fresh
  <1>6. cs \ mark_bits \subseteq mark_stack'
    BY <1>1, <1>3 DEF fresh
  <1> QED BY <1>1, <1>2, <1>3, <1>4, <1>5, <1>6 DEF BitsEffect

\* What gc_mark_ptr does to the ages of the objects: gc_aging.
LEMMA VisitAges ==
    ASSUME GcInv, NEW cs \in SUBSET objects, NEW old_parent \in BOOLEAN,
           NEW popped \in SUBSET mark_stack, Visit(cs, old_parent, popped),
           old_parent => \A o \in popped : RVALUE_OLD_P(o)
    PROVE  AgesEffect(cs, old_parent)
  <1> DEFINE fresh == cs \ mark_bits
             promoted == Promoted(cs, old_parent)
             shady == Shady(cs, old_parent)
             olds == promoted \cup {c \in fresh : /\ Aged(c, old_parent) = RVALUE_OLD_AGE
                                                  /\ Young(c) \/ ~minor}
             again == promoted \ marking_bits
             greyed == fresh \cup (IF incremental THEN again ELSE {})
  <1>1. /\ age' = [c \in Slot |-> IF c \in promoted THEN RVALUE_OLD_AGE
                                  ELSE IF c \in fresh THEN Aged(c, old_parent) ELSE age[c]]
        /\ uncollectible' = uncollectible \cup olds \cup shady
        /\ mark_stack' = (mark_stack \ popped) \cup greyed
        /\ incremental => marking_bits' = (marking_bits \cup greyed) \ popped
        /\ ~incremental => marking_bits' = marking_bits \cup again
    BY DEF Visit
  <1>2. /\ RVALUE_OLD_AGE \in Nat \ {0}
        /\ cs \subseteq Slot /\ age \in [Slot -> 0..RVALUE_OLD_AGE]
    BY AgeAssumption DEF GcInv, TypeOK, HeapTypeOK, BitsTypeOK, HeapTypeOK, BitsTypeOK
  <1>3. \A c \in Slot : /\ ~Young(c) => Aged(c, old_parent) = age[c]
                        /\ Young(c) => /\ Aged(c, old_parent) \in {RVALUE_OLD_AGE, age[c] + 1}
                                       /\ age[c] < RVALUE_OLD_AGE
                                       /\ old_parent => Aged(c, old_parent) = RVALUE_OLD_AGE
    BY <1>2 DEF Aged, Young, RVALUE_OLD_P
  <1>4. \A c \in Slot : Young(c) <=> c \notin wb_unprotected /\ age[c] # RVALUE_OLD_AGE
    BY DEF Young, RVALUE_OLD_P
  <1>5. /\ \A c \in promoted : c \in cs /\ c \in mark_bits /\ Young(c)
        /\ \A c \in shady : c \in cs /\ c \in wb_unprotected
        /\ old_parent => \A c \in cs : /\ c \in mark_bits /\ Young(c) => c \in promoted
                                       /\ c \in wb_unprotected => c \in uncollectible \/ c \in shady
    BY DEF Promoted, Shady
  <1>17. promoted # {} => old_parent
    BY DEF Promoted
  <1>6. /\ olds = promoted \cup {c \in fresh : Aged(c, old_parent) = RVALUE_OLD_AGE /\ (Young(c) \/ ~minor)}
        /\ fresh = cs \ mark_bits
        /\ again = promoted \ marking_bits
        /\ greyed = fresh \cup (IF incremental THEN again ELSE {})
    OBVIOUS
  <1>7. incremental => marking_bits = mark_stack /\ greyed \cap popped = {}
    BY <1>5 DEF GcInv, RememberedSet, BitmapsAgree
  <1> HIDE DEF fresh, promoted, shady, olds, again, greyed
  <1>8. \A c \in Slot : age'[c] = IF c \in promoted THEN RVALUE_OLD_AGE
                                  ELSE IF c \in fresh THEN Aged(c, old_parent) ELSE age[c]
    BY <1>1
  <1>9. age' \in [Slot -> 0..RVALUE_OLD_AGE]
    <2>1. \A c \in Slot : age'[c] \in 0..RVALUE_OLD_AGE
      BY <1>8, <1>2, <1>3
    <2> QED BY <2>1, <1>1
  <1>10. \A c \in Slot : c \notin cs \/ c \in wb_unprotected => age'[c] = age[c]
    BY <1>8, <1>3, <1>4, <1>5, <1>6
  <1>11. \A c \in Slot : age[c] = RVALUE_OLD_AGE => age'[c] = RVALUE_OLD_AGE
    BY <1>8, <1>3, <1>4
  <1>12. ASSUME NEW c \in cs, old_parent
         PROVE  age'[c] = RVALUE_OLD_AGE \/ (c \in wb_unprotected /\ c \in uncollectible')
    BY <1>1, <1>2, <1>3, <1>4, <1>5, <1>6, <1>8, <1>12
  <1>13. ASSUME NEW c \in uncollectible' \ uncollectible
         PROVE  age'[c] = RVALUE_OLD_AGE \/ c \in wb_unprotected
    BY <1>1, <1>2, <1>5, <1>6, <1>8, <1>13
  <1>14. ASSUME NEW c \in Slot, age'[c] = RVALUE_OLD_AGE, age[c] # RVALUE_OLD_AGE
         PROVE  c \in uncollectible' /\ (c \in mark_stack' \/ c \in marking_bits')
    <2>1. c \in promoted \/ (c \in fresh /\ Aged(c, old_parent) = RVALUE_OLD_AGE /\ Young(c))
      BY <1>3, <1>8, <1>14
    <2>2. c \in olds
      BY <2>1, <1>6
    <2>3. CASE c \in fresh
      <3>1. c \in greyed /\ c \notin popped
        BY <1>6, <2>3 DEF GcInv, BitmapsAgree
      <3> QED BY <3>1, <2>2, <1>1
    <2>4. CASE c \in promoted
      <3>1. c \notin popped
        BY <2>4, <1>14, <1>17 DEF RVALUE_OLD_P
      <3> QED BY <2>2, <2>4, <3>1, <1>1, <1>6, <1>7
    <2> QED BY <2>1, <2>3, <2>4
  <1>15. ASSUME NEW c \in cs \ mark_bits, age'[c] = RVALUE_OLD_AGE, ~minor
         PROVE  c \in uncollectible'
    BY <1>1, <1>2, <1>5, <1>6, <1>8, <1>15
  <1>16. ASSUME NEW c \in marking_bits' \ marking_bits, ~incremental
         PROVE  age'[c] = RVALUE_OLD_AGE /\ c \in uncollectible'
    BY <1>1, <1>2, <1>5, <1>6, <1>8, <1>16
  <1> QED BY <1>9, <1>10, <1>11, <1>12, <1>13, <1>14, <1>15, <1>16 DEF AgesEffect

\* What it does to the flags of the pages.
LEMMA VisitPages ==
    ASSUME GcInv, NEW cs \in SUBSET objects, NEW old_parent \in BOOLEAN,
           NEW popped \in SUBSET mark_stack, Visit(cs, old_parent, popped),
           UNCHANGED wb_unprotected, old_parent => \A o \in popped : RVALUE_OLD_P(o)
    PROVE  /\ has_remembered' \in SUBSET Pages /\ has_shady' \in SUBSET Pages
           /\ ~incremental => PagesOf(marking_bits') \subseteq has_remembered'
           /\ PagesOf((uncollectible \cap wb_unprotected)') \subseteq has_shady'
  <1> DEFINE again == Promoted(cs, old_parent) \ marking_bits
             shady == Shady(cs, old_parent)
  <1>1. /\ incremental => has_remembered' = has_remembered
        /\ ~incremental => /\ marking_bits' = marking_bits \cup again
                           /\ has_remembered' = has_remembered \cup PagesOf(again)
        /\ has_shady' = has_shady \cup PagesOf(shady)
    BY DEF Visit
  <1>2. /\ has_remembered \in SUBSET Pages /\ has_shady \in SUBSET Pages
        /\ ~incremental => PagesOf(marking_bits) \subseteq has_remembered
        /\ PagesOf(uncollectible \cap wb_unprotected) \subseteq has_shady
    BY DEF GcInv, TypeOK, HeapTypeOK, BitsTypeOK, RememberedSet
  <1>3. (uncollectible \cap wb_unprotected)' \subseteq (uncollectible \cap wb_unprotected) \cup shady
    <2>1. uncollectible' = uncollectible \cup shady \cup
            (Promoted(cs, old_parent) \cup
               {c \in cs \ mark_bits : /\ Aged(c, old_parent) = RVALUE_OLD_AGE
                                       /\ Young(c) \/ ~minor})
      BY DEF Visit
    <2>2. \A c \in wb_unprotected : c \in Slot /\ ~Young(c) /\ age[c] # RVALUE_OLD_AGE
      BY AgeAssumption DEF GcInv, TypeOK, HeapTypeOK, BitsTypeOK, BitmapsAgree, Young
    <2>3. \A c \in wb_unprotected : /\ c \notin Promoted(cs, old_parent)
                                    /\ Aged(c, old_parent) # RVALUE_OLD_AGE
      BY <2>2 DEF Promoted, Aged
    <2> HIDE DEF shady
    <2> QED BY <2>1, <2>3
  <1> HIDE DEF again, shady
  <1> QED BY <1>1, <1>2, <1>3 DEF PagesOf

\* What it does to rgengc.old_objects.
LEMMA VisitCount ==
    ASSUME GcInv, NEW cs \in SUBSET objects, NEW old_parent \in BOOLEAN,
           NEW popped \in SUBSET mark_stack, Visit(cs, old_parent, popped),
           mode = "marking", UNCHANGED objects
    PROVE  OldCount' /\ old_objects' \in Int
  <1> DEFINE fresh == cs \ mark_bits
             promoted == Promoted(cs, old_parent)
             olds == promoted \cup {c \in fresh : /\ Aged(c, old_parent) = RVALUE_OLD_AGE
                                                  /\ Young(c) \/ ~minor}
  <1>1. /\ mark_bits' = mark_bits \cup fresh
        /\ age' = [c \in Slot |-> IF c \in promoted THEN RVALUE_OLD_AGE
                                  ELSE IF c \in fresh THEN Aged(c, old_parent) ELSE age[c]]
        /\ old_objects' = old_objects + Cardinality(olds)
    BY DEF Visit
  <1>2. /\ objects \subseteq Slot
        /\ \A o \in objects : minor /\ age[o] = RVALUE_OLD_AGE => o \in mark_bits
    BY DEF GcInv, TypeOK, HeapTypeOK, BitsTypeOK, OldIsUncollectible, Kept, Garbage, RVALUE_OLD_P, BitmapsAgree
  <1>3. /\ \A c \in promoted : c \in cs /\ c \in mark_bits /\ Young(c)
        /\ \A c \in Slot : ~Young(c) => Aged(c, old_parent) = age[c]
        /\ \A c \in Slot : Young(c) => age[c] # RVALUE_OLD_AGE
    BY DEF Promoted, Aged, Young, RVALUE_OLD_P
  <1>4. /\ OldMarked = {o \in objects : o \in mark_bits /\ age[o] = RVALUE_OLD_AGE}
        /\ OldMarked' = {o \in objects : o \in mark_bits' /\ age'[o] = RVALUE_OLD_AGE}
    BY DEF OldMarked, RVALUE_OLD_P
  <1>5. /\ olds = promoted \cup {c \in fresh : /\ Aged(c, old_parent) = RVALUE_OLD_AGE
                                               /\ Young(c) \/ ~minor}
        /\ fresh = cs \ mark_bits
    OBVIOUS
  <1> HIDE DEF fresh, promoted, olds
  <1>6. \A c \in Slot : age'[c] = IF c \in promoted THEN RVALUE_OLD_AGE
                                  ELSE IF c \in fresh THEN Aged(c, old_parent) ELSE age[c]
    BY <1>1
  <1>7. ASSUME NEW o \in objects
        PROVE  o \in mark_bits' /\ age'[o] = RVALUE_OLD_AGE
                 <=> o \in olds \/ (o \in mark_bits /\ age[o] = RVALUE_OLD_AGE)
    BY <1>1, <1>2, <1>3, <1>5, <1>6
  <1>8. olds \subseteq objects
    BY <1>3, <1>5
  <1>9. OldMarked' = OldMarked \cup olds
    BY <1>4, <1>7, <1>8
  <1>10. OldMarked \cap olds = {}
    BY <1>3, <1>4, <1>5, <1>2
  <1>11. IsFiniteSet(OldMarked) /\ IsFiniteSet(olds)
    BY <1>2, <1>4, <1>8, PagesAssumption, FS_Subset DEF Slot
  <1>12. Cardinality(OldMarked') = Cardinality(OldMarked) + Cardinality(olds) - Cardinality({})
    BY <1>9, <1>10, <1>11, FS_Union
  <1>13. Cardinality({}) = 0 /\ Cardinality(olds) \in Nat /\ Cardinality(OldMarked) \in Nat
    BY <1>11, FS_EmptySet, FS_CardinalityType
  <1>14. old_objects = Cardinality(OldMarked)
    BY DEF GcInv, OldCount
  <1> QED BY <1>1, <1>12, <1>13, <1>14 DEF OldCount

\* The conjuncts of the invariant that are about the bitmaps alone survive.
LEMMA VisitKeepsBits ==
    ASSUME GcInv, NEW cs \in SUBSET objects, NEW old_parent \in BOOLEAN,
           NEW popped \in SUBSET mark_stack, Visit(cs, old_parent, popped),
           old_parent => \A o \in popped : RVALUE_OLD_P(o),
           mode = "marking", pass' # "roots", todo' \subseteq todo,
           incremental' => incremental, ~incremental' => ~incremental \/ mark_stack' = {},
           UNCHANGED <<objects, wb_unprotected, mode, minor>>
    PROVE  /\ BitsTypeOK' /\ BitmapsAgree' /\ RememberedSet'
           /\ OldIsUncollectible' /\ OldCount'
  <1> USE DEF RVALUE_OLD_P
  <1>1. BitsEffect(cs, popped)
    BY VisitBits, Zenon
  <1>2. AgesEffect(cs, old_parent)
    BY VisitAges, Zenon
  <1> USE DEF BitsEffect, AgesEffect
  <1>3. /\ has_remembered' \in SUBSET Pages /\ has_shady' \in SUBSET Pages
        /\ ~incremental => PagesOf(marking_bits') \subseteq has_remembered'
        /\ PagesOf((uncollectible \cap wb_unprotected)') \subseteq has_shady'
    BY VisitPages, Zenon
  <1>4. OldCount' /\ old_objects' \in Int
    BY VisitCount, Zenon
  <1>5. HeapTypeOK /\ BitsTypeOK /\ BitmapsAgree /\ RememberedSet /\ OldIsUncollectible
    BY DEF GcInv, TypeOK
  <1>6. BitsTypeOK'
    BY <1>1, <1>2, <1>3, <1>4, <1>5 DEF BitsTypeOK, HeapTypeOK
  <1>7. BitmapsAgree'
    <2>1. \A o \in wb_unprotected' : age'[o] = 0
      BY <1>2, <1>5 DEF BitmapsAgree, HeapTypeOK
    <2>2. \A o \in uncollectible' : age'[o] = RVALUE_OLD_AGE \/ o \in wb_unprotected'
      BY <1>2, <1>5 DEF BitmapsAgree, BitsTypeOK
    <2>3. uncollectible' \subseteq mark_bits' /\ mark_stack' \subseteq mark_bits'
          /\ todo' \subseteq mark_bits'
      BY <1>1, <1>5 DEF BitmapsAgree
    <2> QED BY <2>1, <2>2, <2>3 DEF BitmapsAgree
  <1>8. RememberedSet'
    <2>1. incremental' => marking_bits' = mark_stack'
      BY <1>1
    <2>2. CASE ~incremental
      <3>1. \A o \in marking_bits' : age'[o] = RVALUE_OLD_AGE /\ o \in uncollectible'
        BY <1>1, <1>2, <1>5, <2>2 DEF RememberedSet, BitsTypeOK
      <3>2. PagesOf(marking_bits') \subseteq has_remembered'
        BY <1>3, <2>2
      <3> QED BY <2>1, <3>1, <3>2, <1>3 DEF RememberedSet, PagesOf
    <2>3. CASE incremental /\ ~incremental'
      <3>1. marking_bits' = {}
        BY <1>1, <2>3
      <3> QED BY <2>1, <3>1, <1>3 DEF RememberedSet, PagesOf
    <2>4. CASE incremental'
      BY <2>1, <2>4, <1>3 DEF RememberedSet, PagesOf
    <2> QED BY <2>2, <2>3, <2>4
  <1>9. OldIsUncollectible'
    <2>1. Kept = objects /\ Kept' = objects
      BY DEF Kept, Garbage
    <2>2. ASSUME NEW o \in objects, age'[o] = RVALUE_OLD_AGE
          PROVE  o \in uncollectible' \/ (~minor /\ o \notin mark_bits')
      <3>1. o \in Slot
        BY <1>5 DEF HeapTypeOK
      <3>2. CASE age[o] # RVALUE_OLD_AGE
        BY <1>2, <2>2, <3>1, <3>2
      <3>3. CASE age[o] = RVALUE_OLD_AGE
        <4>1. o \in uncollectible \/ (~minor /\ o \notin mark_bits)
          BY <1>5, <2>1, <3>3 DEF OldIsUncollectible
        <4> QED BY <1>1, <1>2, <2>2, <4>1
      <3> QED BY <3>2, <3>3
    <2> QED BY <2>1, <2>2 DEF OldIsUncollectible
  <1> QED BY <1>4, <1>6, <1>7, <1>8, <1>9

\* The tricolour and the generational invariant survive, if an object stops waiting
\* only when the objects it refers to have been visited.
LEMMA VisitKeepsClosed ==
    ASSUME GcInv, NEW cs \in SUBSET objects, NEW old_parent \in BOOLEAN,
           NEW popped \in SUBSET mark_stack, Visit(cs, old_parent, popped),
           old_parent => \A o \in popped : RVALUE_OLD_P(o),
           mode = "marking", UNCHANGED <<heap, wb_unprotected, mode>>,
           \A a \in mark_bits : Awaits(a) =>
               Awaits(a)' \/ (refs[a] \subseteq cs /\ (RVALUE_OLD_P(a) => old_parent))
    PROVE  /\ \A a \in mark_bits' : Awaits(a)' \/ refs[a] \subseteq mark_bits'
           /\ OldRefersToOld'
  <1>1. BitsEffect(cs, popped)
    BY VisitBits, Zenon
  <1>2. AgesEffect(cs, old_parent)
    BY VisitAges, Zenon
  <1>3. ASSUME NEW a \in cs \ mark_bits PROVE Awaits(a)'
    BY <1>1 DEF Awaits, BitsEffect
  <1>4. \A a \in mark_bits : Awaits(a) \/ refs[a] \subseteq mark_bits
    BY DEF GcInv, MarkedIsClosed
  <1>5. \A a \in mark_bits' : Awaits(a)' \/ refs[a] \subseteq mark_bits'
    BY <1>1, <1>3, <1>4 DEF BitsEffect
  <1>6. Kept = objects /\ Kept' = objects /\ refs' = refs
    BY DEF Kept, Garbage, heap
  <1>7. ASSUME NEW a \in objects, age'[a] = RVALUE_OLD_AGE, a \in mark_bits', ~Awaits(a)',
               a \notin marking_bits', NEW b \in refs[a]
        PROVE  age'[b] = RVALUE_OLD_AGE \/ b \in uncollectible'
    <2>1. a \in mark_bits /\ a \in Slot /\ b \in Slot
      BY <1>1, <1>3, <1>7 DEF BitsEffect, GcInv, TypeOK, HeapTypeOK
    <2>2. age[a] = RVALUE_OLD_AGE
      <3>1. a \notin mark_stack'
        BY <1>7 DEF Awaits
      <3> QED BY <3>1, <2>1, <1>2, <1>7 DEF AgesEffect
    <2>3. CASE Awaits(a)
      BY <2>1, <2>2, <2>3, <1>2, <1>7 DEF RVALUE_OLD_P, AgesEffect
    <2>4. CASE ~Awaits(a)
      <3>1. a \notin marking_bits
        <4>1. ~incremental => marking_bits \subseteq marking_bits'
          BY <1>1 DEF BitsEffect
        <4>2. incremental => marking_bits = mark_stack
          BY DEF GcInv, RememberedSet
        <4> QED BY <4>1, <4>2, <2>4, <1>7 DEF Awaits
      <3>2. age[b] = RVALUE_OLD_AGE \/ b \in uncollectible
        BY <2>1, <2>2, <2>4, <3>1, <1>6 DEF GcInv, OldRefersToOld, RVALUE_OLD_P
      <3> QED BY <3>2, <2>1, <1>1, <1>2 DEF BitsEffect, AgesEffect
    <2> QED BY <2>3, <2>4
  <1>8. OldRefersToOld'
    BY <1>6, <1>7 DEF OldRefersToOld, RVALUE_OLD_P
  <1> QED BY <1>5, <1>8

\* Marking changes nothing about the objects themselves.
LEMMA VisitKeepsHeap ==
    ASSUME GcInv, NEW cs \in SUBSET objects, NEW old_parent \in BOOLEAN,
           NEW popped \in SUBSET mark_stack, Visit(cs, old_parent, popped),
           old_parent => \A o \in popped : RVALUE_OLD_P(o),
           mode = "marking", UNCHANGED <<heap, wb_unprotected, mode>>
    PROVE  HeapTypeOK' /\ FreeSlotsAreClean' /\ Closed(Kept)'
  <1>1. BitsEffect(cs, popped)
    BY VisitBits, Zenon
  <1>2. AgesEffect(cs, old_parent)
    BY VisitAges, Zenon
  <1>3. HeapTypeOK'
    BY DEF GcInv, TypeOK, HeapTypeOK, heap
  <1>4. Closed(Kept)'
    BY DEF GcInv, Closed, Kept, Garbage, heap
  <1>5. FreeSlotsAreClean'
    <2>1. FreeSlotsAreClean /\ objects' = objects /\ refs' = refs
      BY DEF GcInv, heap
    <2> QED BY <2>1, <1>1, <1>2 DEF FreeSlotsAreClean, BitsEffect, AgesEffect, GcInv, RememberedSet
  <1> QED BY <1>3, <1>4, <1>5
-----------------------------------------------------------------------------
(* The steps of the collector. *)

\* No collection is under way: every marked object is uncollectible.
LEMMA Idle ==
    ASSUME GcInv, mode = "none"
    PROVE  /\ Kept = objects /\ mark_bits = uncollectible /\ mark_stack = {} /\ todo = {}
           /\ ~incremental /\ ~minor /\ pass = "none"
  <1>1. Kept = objects
    BY DEF Kept, Garbage
  <1>2. pages_left = {} /\ todo = {} /\ pass = "none"
    BY DEF GcInv, Phases
  <1>3. mark_bits = uncollectible /\ mark_stack = {}
    BY <1>2 DEF GcInv, BitmapsAgree, Ahead
  <1>4. ~incremental /\ ~minor
    BY <1>2 DEF GcInv, Phases
  <1> QED BY <1>1, <1>2, <1>3, <1>4

\* A full collection forgets the marks; a minor one starts from the old objects, which
\* are all marked, and whose references to young objects are remembered.
LEMMA StartKeeps ==
    ASSUME GcInv, NEW full \in BOOLEAN, NEW immediate_mark \in BOOLEAN,
           gc_start(full, immediate_mark)
    PROVE  GcInv'
  <1>1. /\ mode = "none" /\ mode' = "marking" /\ during_gc' = TRUE
        /\ minor' = ~full /\ incremental' = (full /\ ~immediate_mark)
        /\ UNCHANGED <<objects, refs, roots, wb_unprotected, age, mark_stack, todo>>
    BY Zenon DEF gc_start, heap
  <1>2. full => /\ mark_bits' = {} /\ marking_bits' = {} /\ uncollectible' = {}
                /\ has_remembered' = {} /\ has_shady' = {}
                /\ old_objects' = 0 /\ pass' = "roots" /\ pages_left' = {}
    BY Zenon DEF gc_start, rgengc_mark_and_rememberset_clear
  <1>3. ~full => /\ pass' = "remembered" /\ pages_left' = Pages
                 /\ UNCHANGED <<mark_bits, marking_bits, uncollectible, has_remembered,
                                has_shady, old_objects>>
    BY Zenon DEF gc_start
  <1>4. /\ Kept = objects /\ mark_bits = uncollectible /\ mark_stack = {} /\ todo = {}
        /\ ~incremental /\ ~minor /\ pass = "none"
    BY <1>1, Idle
  <1>5. minor' \in BOOLEAN /\ incremental' \in BOOLEAN /\ during_gc' \in BOOLEAN
    BY <1>1, Zenon
  <1>6. Kept' = objects
    BY <1>1 DEF Kept, Garbage
  <1>7. TypeOK'
    <2>1. HeapTypeOK'
      BY <1>1 DEF GcInv, TypeOK, HeapTypeOK
    <2>2. BitsTypeOK'
      BY <1>1, <1>2, <1>3 DEF GcInv, TypeOK, BitsTypeOK
    <2>3. FlagsTypeOK'
      BY <1>1, <1>2, <1>3, <1>5 DEF GcInv, TypeOK, FlagsTypeOK
    <2> QED BY <2>1, <2>2, <2>3 DEF TypeOK
  <1>8. Phases'
    BY <1>1, <1>2, <1>3, <1>4 DEF Phases
  <1>9. FreeSlotsAreClean' /\ Closed(Kept)' /\ BitmapsAgree'
    <2>1. FreeSlotsAreClean'
      BY <1>1, <1>2, <1>3, <1>4 DEF GcInv, FreeSlotsAreClean
    <2>2. Closed(Kept)'
      BY <1>1, <1>4, <1>6 DEF GcInv, Closed
    <2>3. BitmapsAgree'
      BY <1>1, <1>2, <1>3, <1>4 DEF GcInv, BitmapsAgree, RVALUE_OLD_P
    <2> QED BY <2>1, <2>2, <2>3
  <1>10. RememberedSet' /\ OldIsUncollectible' /\ OldCount'
    <2>1. RememberedSet'
      BY <1>1, <1>2, <1>3, <1>4 DEF GcInv, RememberedSet, RVALUE_OLD_P, PagesOf
    <2>2. OldIsUncollectible'
      BY <1>1, <1>2, <1>3, <1>4, <1>6 DEF GcInv, OldIsUncollectible, RVALUE_OLD_P
    <2>3. CASE full
      <3>1. OldMarked' = {}
        BY <1>2, <2>3 DEF OldMarked
      <3> QED BY <2>1, <2>2, <2>3, <3>1, <1>2, FS_EmptySet DEF OldCount
    <2>4. CASE ~full
      <3>1. OldMarked' = OldMarked
        BY <1>1, <1>3, <2>4 DEF OldMarked, RVALUE_OLD_P
      <3> QED BY <2>1, <2>2, <2>4, <3>1, <1>3 DEF OldCount, GcInv
    <2> QED BY <2>3, <2>4
  <1>11. MarkedIsClosed'
    <2>1. CASE full
      BY <1>2, <2>1 DEF MarkedIsClosed
    <2>2. CASE ~full
      <3>1. ASSUME NEW a \in mark_bits PROVE Awaits(a)' \/ refs[a] \subseteq mark_bits
        <4>1. a \in uncollectible /\ a \in Slot /\ a \in objects
          BY <1>4, <3>1 DEF GcInv, TypeOK, BitsTypeOK, FreeSlotsAreClean
        <4>2. Ahead(a)'
          BY <1>3, <2>2, <4>1 DEF Ahead, Slot
        <4>3. CASE a \in wb_unprotected \/ a \in marking_bits
          BY <4>1, <4>2, <4>3, <1>1, <1>3, <2>2 DEF Awaits
        <4>4. CASE a \notin wb_unprotected /\ a \notin marking_bits
          <5>1. age[a] = RVALUE_OLD_AGE
            BY <4>1, <4>4 DEF GcInv, BitmapsAgree, RVALUE_OLD_P
          <5>2. \A b \in refs[a] : b \in objects /\ (age[b] = RVALUE_OLD_AGE \/ b \in uncollectible)
            BY <4>1, <4>4, <5>1, <1>1, <1>4 DEF GcInv, OldRefersToOld, Closed, RVALUE_OLD_P
          <5> QED BY <5>2, <1>1, <1>4 DEF GcInv, OldIsUncollectible, RVALUE_OLD_P
        <4> QED BY <4>3, <4>4
      <3> QED BY <3>1, <1>1, <1>3, <2>2 DEF MarkedIsClosed
    <2> QED BY <2>1, <2>2
  <1>12. OldRefersToOld'
    <2>1. CASE full
      BY <1>1, <1>2, <2>1 DEF OldRefersToOld
    <2>2. CASE ~full
      BY <1>1, <1>3, <1>4, <1>6, <2>2 DEF GcInv, OldRefersToOld, RVALUE_OLD_P
    <2> QED BY <2>1, <2>2
  <1>13. MarkedIsReachable'
    BY <1>2, <1>3 DEF MarkedIsReachable
  <1> QED BY <1>7, <1>8, <1>9, <1>10, <1>11, <1>12, <1>13 DEF GcInv

\* A page is taken on: the remembered objects in it become the ones to visit.
LEMMA RememberedPageKeeps ==
    ASSUME GcInv, NEW p \in Pages, RememberedPage(p)
    PROVE  GcInv'
  <1>1. /\ pass = "remembered" /\ todo = {} /\ p \in pages_left
        /\ pages_left' = pages_left \ {p}
        /\ UNCHANGED <<objects, refs, roots, wb_unprotected, age, mark_bits, uncollectible,
                       has_shady, mark_stack, old_objects, mode, minor, incremental,
                       during_gc, pass>>
    BY DEF RememberedPage, heap
  <1>2. mode = "marking" /\ ~incremental /\ minor
    BY <1>1 DEF GcInv, Phases
  <1>3. p \in has_remembered \cup has_shady =>
            /\ todo' = p \cap (marking_bits \cup (uncollectible \cap wb_unprotected))
            /\ marking_bits' = marking_bits \ p
            /\ has_remembered' = has_remembered \ {p}
    BY DEF RememberedPage
  <1>4. p \notin has_remembered \cup has_shady =>
            UNCHANGED <<todo, marking_bits, has_remembered>>
    BY DEF RememberedPage
  <1>5. p \subseteq Slot /\ \A q \in Pages : q # p => q \cap p = {}
    BY PagesAssumption DEF Slot
  <1>6. /\ marking_bits' = marking_bits \ p
        /\ todo' = p \cap (marking_bits \cup (uncollectible \cap wb_unprotected))
    <2>1. CASE p \in has_remembered \cup has_shady
      BY <2>1, <1>3
    <2>2. CASE p \notin has_remembered \cup has_shady
      <3>1. p \cap marking_bits = {} /\ p \cap (uncollectible \cap wb_unprotected) = {}
        BY <2>2, <1>2 DEF GcInv, RememberedSet, PagesOf
      <3> QED BY <3>1, <2>2, <1>1, <1>4
    <2> QED BY <2>1, <2>2
  <1>7. Kept = objects /\ Kept' = objects
    BY <1>1, <1>2 DEF Kept, Garbage
  <1>8. marking_bits \subseteq mark_bits
    BY <1>2, <1>7 DEF GcInv, RememberedSet, OldIsUncollectible, BitmapsAgree, TypeOK, BitsTypeOK,
       FreeSlotsAreClean
  <1>9. TypeOK'
    <2>1. HeapTypeOK'
      BY <1>1 DEF GcInv, TypeOK, HeapTypeOK
    <2>2. BitsTypeOK'
      BY <1>1, <1>3, <1>4, <1>6 DEF GcInv, TypeOK, BitsTypeOK
    <2>3. pages_left' \in SUBSET Pages /\ todo' \in SUBSET Slot
      BY <1>1, <1>5, <1>6 DEF GcInv, TypeOK, FlagsTypeOK
    <2>4. FlagsTypeOK'
      BY <1>1, <2>3 DEF GcInv, TypeOK, FlagsTypeOK
    <2> QED BY <2>1, <2>2, <2>4 DEF TypeOK
  <1>10. Phases'
    BY <1>1, <1>2 DEF GcInv, Phases
  <1>11. FreeSlotsAreClean' /\ Closed(Kept)' /\ BitmapsAgree'
    <2>1. FreeSlotsAreClean'
      BY <1>1, <1>2, <1>6 DEF GcInv, FreeSlotsAreClean
    <2>2. Closed(Kept)'
      BY <1>1, <1>7 DEF GcInv, Closed
    <2>3. BitmapsAgree'
      BY <1>1, <1>2, <1>6, <1>8 DEF GcInv, BitmapsAgree, RVALUE_OLD_P
    <2> QED BY <2>1, <2>2, <2>3
  <1>12. RememberedSet'
    <2>1. \A o \in marking_bits' : RVALUE_OLD_P(o)' /\ (o \in uncollectible)'
      BY <1>1, <1>2, <1>6 DEF GcInv, RememberedSet, RVALUE_OLD_P
    <2>2. PagesOf(marking_bits') \subseteq has_remembered'
      BY <1>2, <1>3, <1>4, <1>5, <1>6 DEF GcInv, RememberedSet, PagesOf
    <2>3. PagesOf(uncollectible \cap wb_unprotected)' \subseteq has_shady'
      BY <1>1 DEF GcInv, RememberedSet, PagesOf
    <2> QED BY <1>1, <1>2, <2>1, <2>2, <2>3 DEF RememberedSet, PagesOf
  <1>13. OldIsUncollectible' /\ OldCount'
    <2>1. OldIsUncollectible'
      BY <1>1, <1>7 DEF GcInv, OldIsUncollectible, RVALUE_OLD_P
    <2>2. OldMarked' = OldMarked
      BY <1>1 DEF OldMarked, RVALUE_OLD_P
    <2> QED BY <1>1, <2>1, <2>2 DEF GcInv, OldCount
  <1>14. ASSUME NEW a \in mark_bits, Awaits(a) PROVE Awaits(a)'
    BY <1>1, <1>2, <1>6, <1>14 DEF Awaits, Ahead
  <1>15. MarkedIsClosed'
    BY <1>1, <1>2, <1>14 DEF GcInv, MarkedIsClosed
  <1>16. OldRefersToOld'
    <2>1. ASSUME NEW a \in objects, age[a] = RVALUE_OLD_AGE, a \in mark_bits, ~Awaits(a)',
                 a \notin marking_bits'
          PROVE  a \notin marking_bits
      <3>1. a \notin todo'
        BY <2>1 DEF Awaits
      <3> QED BY <3>1, <2>1, <1>6
    <2> QED BY <1>1, <1>2, <1>7, <1>14, <2>1 DEF GcInv, OldRefersToOld, RVALUE_OLD_P
  <1>17. MarkedIsReachable'
    BY <1>1 DEF MarkedIsReachable
  <1> QED BY <1>9, <1>10, <1>11, <1>12, <1>13, <1>15, <1>16, <1>17 DEF GcInv

\* The references of an object found in a page are visited.
LEMMA VisitPageObjectKeeps ==
    ASSUME GcInv, NEW o \in Slot, VisitPageObject(o)
    PROVE  GcInv'
  <1> DEFINE old == RVALUE_OLD_P(o)
  <1>1. /\ o \in todo /\ Visit(refs[o], old, {})
        /\ todo' = todo \ {o}
        /\ UNCHANGED <<heap, wb_unprotected, mode, minor, incremental, during_gc, pass,
                       pages_left>>
    BY DEF VisitPageObject
  <1>2. pass \in {"remembered", "shady"} /\ mode = "marking" /\ ~incremental
    BY <1>1 DEF GcInv, Phases, TypeOK, FlagsTypeOK
  <1>3. o \in objects /\ refs[o] \in SUBSET objects /\ old \in BOOLEAN
    <2>1. o \in mark_bits
      BY <1>1 DEF GcInv, BitmapsAgree
    <2>2. o \in objects
      BY <1>2, <2>1 DEF GcInv, FreeSlotsAreClean
    <2>3. Kept = objects
      BY <1>2 DEF Kept, Garbage
    <2>4. refs[o] \in SUBSET objects
      BY <2>2, <2>3 DEF GcInv, Closed
    <2> QED BY <2>2, <2>4 DEF RVALUE_OLD_P
  <1>4. HeapTypeOK' /\ FreeSlotsAreClean' /\ Closed(Kept)'
    BY <1>1, <1>2, <1>3, VisitKeepsHeap
  <1>5. BitsTypeOK' /\ BitmapsAgree' /\ RememberedSet' /\ OldIsUncollectible' /\ OldCount'
    BY <1>1, <1>2, <1>3, VisitKeepsBits DEF heap
  <1>6. FlagsTypeOK'
    BY <1>1 DEF GcInv, TypeOK, FlagsTypeOK
  <1>7. Phases'
    BY <1>1, <1>2 DEF GcInv, Phases
  <1>8. BitsEffect(refs[o], {})
    BY <1>1, <1>3, VisitBits
  <1>9. ASSUME NEW a \in mark_bits, Awaits(a)
        PROVE  Awaits(a)' \/ (refs[a] \subseteq refs[o] /\ (RVALUE_OLD_P(a) => old))
    <2>1. CASE a = o
      BY <2>1
    <2>2. CASE a # o
      BY <2>2, <1>1, <1>2, <1>8, <1>9 DEF Awaits, Ahead, BitsEffect
    <2> QED BY <2>1, <2>2
  <1>10. (\A a \in mark_bits' : Awaits(a)' \/ refs[a] \subseteq mark_bits') /\ OldRefersToOld'
    <2>1. {} \in SUBSET mark_stack /\ (old => \A x \in {} : RVALUE_OLD_P(x))
      OBVIOUS
    <2> HIDE DEF old
    <2>2. UNCHANGED <<heap, wb_unprotected, mode>>
      BY <1>1
    <2> QED BY <1>1, <1>2, <1>3, <1>9, <2>1, <2>2, VisitKeepsClosed, Zenon
  <1>11. MarkedIsClosed'
    BY <1>1, <1>2, <1>8, <1>10 DEF GcInv, MarkedIsClosed, heap, BitsEffect
  <1>12. MarkedIsReachable'
    BY <1>1, <1>2 DEF MarkedIsReachable
  <1> QED BY <1>4, <1>5, <1>6, <1>7, <1>10, <1>11, <1>12 DEF GcInv, TypeOK

\* The roots are objects, which marking may visit.
LEMMA RootsAreObjects ==
    ASSUME GcInv, mode = "marking"
    PROVE  roots \in SUBSET objects /\ Kept = objects
  BY DEF GcInv, Closed, Kept, Garbage

\* The roots are marked, after what is remembered.
LEMMA MarkRootsKeeps ==
    ASSUME GcInv, MarkRoots
    PROVE  GcInv'
  <1>1. /\ pass = "roots" \/ (pass = "remembered" /\ pages_left = {} /\ todo = {})
        /\ Visit(roots, FALSE, {})
        /\ pass' = "stack" /\ during_gc' = ~incremental
        /\ UNCHANGED <<heap, wb_unprotected, mode, minor, incremental, pages_left, todo>>
    BY Zenon DEF MarkRoots, gc_mark_roots
  <1>2. mode = "marking" /\ pages_left = {} /\ todo = {}
    BY <1>1 DEF GcInv, Phases
  <1>3. /\ roots \in SUBSET objects /\ {} \in SUBSET mark_stack /\ FALSE \in BOOLEAN
        /\ FALSE => \A x \in {} : RVALUE_OLD_P(x)
    BY <1>2, RootsAreObjects
  <1>4. UNCHANGED <<heap, wb_unprotected, mode>>
    BY <1>1
  <1>5. HeapTypeOK' /\ FreeSlotsAreClean' /\ Closed(Kept)'
    BY <1>1, <1>2, <1>3, <1>4, VisitKeepsHeap, Zenon
  <1>6. BitsTypeOK' /\ BitmapsAgree' /\ RememberedSet' /\ OldIsUncollectible' /\ OldCount'
    <2>1. /\ pass' # "roots" /\ todo' \subseteq todo
          /\ incremental' => incremental
          /\ ~incremental' => ~incremental \/ mark_stack' = {}
          /\ UNCHANGED <<objects, wb_unprotected, mode, minor>>
      BY <1>1 DEF heap
    <2> QED BY <1>1, <1>2, <1>3, <2>1, VisitKeepsBits, Zenon
  <1>7. FlagsTypeOK'
    <2>1. minor' \in BOOLEAN /\ incremental' \in BOOLEAN /\ during_gc' \in BOOLEAN
      BY <1>1, Zenon DEF GcInv, TypeOK, FlagsTypeOK
    <2> QED BY <1>1, <2>1 DEF GcInv, TypeOK, FlagsTypeOK
  <1>8. Phases'
    <2>1. minor' = minor /\ incremental' = incremental /\ mode' = mode
          /\ pages_left' = {} /\ todo' = {} /\ (during_gc' <=> ~incremental')
      BY <1>1, <1>2
    <2> QED BY <1>1, <1>2, <2>1 DEF GcInv, Phases
  <1>9. BitsEffect(roots, {})
    BY <1>1, <1>3, VisitBits, Zenon
  <1>10. \A a \in mark_bits : Awaits(a) =>
            Awaits(a)' \/ (refs[a] \subseteq roots /\ (RVALUE_OLD_P(a) => FALSE))
    BY <1>1, <1>2, <1>9 DEF Awaits, Ahead, BitsEffect
  <1>11. (\A a \in mark_bits' : Awaits(a)' \/ refs[a] \subseteq mark_bits') /\ OldRefersToOld'
    BY <1>1, <1>2, <1>3, <1>4, <1>10, VisitKeepsClosed, Zenon
  <1>12. MarkedIsClosed'
    BY <1>1, <1>9, <1>11 DEF MarkedIsClosed, heap, BitsEffect
  <1>13. MarkedIsReachable'
    <2>1. Reachable' = Reachable
      BY <1>1 DEF Reachable, Closed, heap
    <2>2. roots \subseteq Reachable
      BY ReachableClosed DEF Closed, GcInv
    <2>3. CASE pass = "roots"
      BY <1>9, <2>1, <2>2, <2>3 DEF GcInv, BitmapsAgree, BitsEffect, MarkedIsReachable
    <2>4. CASE pass = "remembered"
      BY <1>1, <2>4 DEF GcInv, Phases, MarkedIsReachable
    <2> QED BY <1>1, <2>3, <2>4
  <1> QED BY <1>5, <1>6, <1>7, <1>8, <1>11, <1>12, <1>13 DEF GcInv, TypeOK

\* The references of an object taken from the mark stack are visited.
LEMMA StackedObjectKeeps ==
    ASSUME GcInv, NEW o \in Slot, gc_mark_stacked_objects(o)
    PROVE  GcInv'
  <1> DEFINE old == RVALUE_OLD_P(o)
  <1>1. /\ pass = "stack" \/ (pass = "shady" /\ pages_left = {} /\ todo = {})
        /\ o \in mark_stack /\ Visit(refs[o], old, {o})
        /\ UNCHANGED <<heap, wb_unprotected, mode, minor, incremental, during_gc, pass,
                       pages_left, todo>>
    BY DEF gc_mark_stacked_objects, flags
  <1>2. mode = "marking" /\ todo = {}
    BY <1>1 DEF GcInv, Phases
  <1>3. /\ refs[o] \in SUBSET objects /\ old \in BOOLEAN /\ {o} \in SUBSET mark_stack
        /\ old => \A x \in {o} : RVALUE_OLD_P(x)
    <2>1. o \in objects
      BY <1>1 DEF GcInv, FreeSlotsAreClean
    <2>2. Kept = objects
      BY <1>2 DEF Kept, Garbage
    <2>3. refs[o] \in SUBSET objects
      BY <2>1, <2>2 DEF GcInv, Closed
    <2> QED BY <2>3, <1>1 DEF RVALUE_OLD_P
  <1>4. UNCHANGED <<heap, wb_unprotected, mode>>
    BY <1>1
  <1>5. refs[o] = refs[o] /\ (RVALUE_OLD_P(o) => old)
    OBVIOUS
  <1> HIDE DEF old
  <1>6. HeapTypeOK' /\ FreeSlotsAreClean' /\ Closed(Kept)'
    BY <1>1, <1>2, <1>3, <1>4, VisitKeepsHeap, Zenon
  <1>7. BitsTypeOK' /\ BitmapsAgree' /\ RememberedSet' /\ OldIsUncollectible' /\ OldCount'
    <2>1. /\ pass' # "roots" /\ todo' \subseteq todo
          /\ incremental' => incremental
          /\ ~incremental' => ~incremental \/ mark_stack' = {}
          /\ UNCHANGED <<objects, wb_unprotected, mode, minor>>
      BY <1>1 DEF heap
    <2> QED BY <1>1, <1>2, <1>3, <2>1, VisitKeepsBits, Zenon
  <1>8. FlagsTypeOK' /\ Phases'
    BY <1>1 DEF GcInv, TypeOK, FlagsTypeOK, Phases
  <1>9. BitsEffect(refs[o], {o})
    BY <1>1, <1>3, VisitBits, Zenon
  <1>10. \A a \in mark_bits : Awaits(a) =>
            Awaits(a)' \/ (refs[a] \subseteq refs[o] /\ (RVALUE_OLD_P(a) => old))
    <2> SUFFICES ASSUME NEW a \in mark_bits, Awaits(a), a # o PROVE Awaits(a)'
      BY <1>5
    <2> QED BY <1>1, <1>2, <1>9 DEF Awaits, Ahead, BitsEffect
  <1>11. (\A a \in mark_bits' : Awaits(a)' \/ refs[a] \subseteq mark_bits') /\ OldRefersToOld'
    BY <1>1, <1>2, <1>3, <1>4, <1>10, VisitKeepsClosed, Zenon
  <1>12. MarkedIsClosed'
    BY <1>1, <1>2, <1>9, <1>11 DEF GcInv, MarkedIsClosed, heap, BitsEffect
  <1>13. MarkedIsReachable'
    <2>1. Reachable' = Reachable
      BY <1>1 DEF Reachable, Closed, heap
    <2>2. mark_bits \subseteq Reachable => refs[o] \subseteq Reachable
      BY <1>1, ReachableClosed DEF Closed, GcInv, BitmapsAgree
    <2> QED BY <1>1, <1>9, <2>1, <2>2 DEF GcInv, BitsEffect, MarkedIsReachable
  <1> QED BY <1>6, <1>7, <1>8, <1>11, <1>12, <1>13 DEF GcInv, TypeOK

\* The roots are marked again; if that finds nothing, what is left to visit are the
\* marked objects that have no write barrier.
LEMMA MarksFinishKeeps ==
    ASSUME GcInv, gc_marks_finish
    PROVE  GcInv'
  <1>1. /\ pass = "stack" /\ incremental /\ mark_stack = {}
        /\ Visit(roots, FALSE, {})
        /\ UNCHANGED <<heap, wb_unprotected, mode, minor, todo>>
    BY Zenon DEF gc_marks_finish, gc_mark_roots
  <1>2. mode = "marking" /\ pages_left = {} /\ todo = {} /\ ~minor /\ ~during_gc
    BY <1>1 DEF GcInv, Phases
  <1>3. \/ /\ mark_stack' = {} /\ incremental' = FALSE /\ pass' = "shady"
           /\ pages_left' = Pages /\ during_gc' = TRUE
        \/ mark_stack' # {} /\ UNCHANGED <<incremental, pass, pages_left, during_gc>>
    BY Zenon DEF gc_marks_finish
  <1>4. /\ roots \in SUBSET objects /\ {} \in SUBSET mark_stack /\ FALSE \in BOOLEAN
        /\ FALSE => \A x \in {} : RVALUE_OLD_P(x)
    BY <1>2, RootsAreObjects
  <1>5. UNCHANGED <<heap, wb_unprotected, mode>>
    BY <1>1
  <1>6. HeapTypeOK' /\ FreeSlotsAreClean' /\ Closed(Kept)'
    BY <1>1, <1>2, <1>4, <1>5, VisitKeepsHeap, Zenon
  <1>7. BitsEffect(roots, {})
    BY <1>1, <1>4, VisitBits, Zenon
  <1>8. FlagsTypeOK'
    <2>1. minor' \in BOOLEAN /\ incremental' \in BOOLEAN /\ during_gc' \in BOOLEAN
      BY <1>1, <1>3, Zenon DEF GcInv, TypeOK, FlagsTypeOK
    <2> QED BY <1>1, <1>3, <2>1 DEF GcInv, TypeOK, FlagsTypeOK
  <1>9. Phases'
    <2>1. mode' = "marking" /\ todo' = {} /\ ~minor'
      BY <1>1, <1>2
    <2>2. \/ ~incremental' /\ pass' = "shady" /\ during_gc'
          \/ incremental' /\ pass' = "stack" /\ pages_left' = {} /\ ~during_gc'
      BY <1>1, <1>2, <1>3, Zenon
    <2> QED BY <2>1, <2>2 DEF Phases
  <1>12. BitsTypeOK' /\ BitmapsAgree' /\ RememberedSet' /\ OldIsUncollectible' /\ OldCount'
    <2>1. /\ pass' # "roots" /\ todo' \subseteq todo
          /\ incremental' => incremental
          /\ ~incremental' => ~incremental \/ mark_stack' = {}
          /\ UNCHANGED <<objects, wb_unprotected, mode, minor>>
      BY <1>1, <1>3 DEF heap
    <2> QED BY <1>1, <1>2, <1>4, <2>1, VisitKeepsBits, Zenon
  <1>10. CASE mark_stack' # {}
    <2>2. \A a \in mark_bits : Awaits(a) =>
              Awaits(a)' \/ (refs[a] \subseteq roots /\ (RVALUE_OLD_P(a) => FALSE))
      BY <1>1, <1>2, <1>3, <1>7, <1>10 DEF Awaits, BitsEffect
    <2>3. (\A a \in mark_bits' : Awaits(a)' \/ refs[a] \subseteq mark_bits') /\ OldRefersToOld'
      BY <1>1, <1>2, <1>4, <1>5, <2>2, VisitKeepsClosed, Zenon
    <2>4. MarkedIsClosed' /\ MarkedIsReachable'
      BY <1>1, <1>3, <1>10, <2>3 DEF MarkedIsClosed, MarkedIsReachable, heap
    <2> QED BY <1>6, <1>8, <1>9, <1>12, <2>3, <2>4 DEF GcInv, TypeOK
  <1>11. CASE mark_stack' = {}
    <2>1. incremental' = FALSE /\ pass' = "shady" /\ pages_left' = Pages
      BY <1>3, <1>11
    <2>2. mark_bits' = mark_bits /\ roots \subseteq mark_bits /\ marking_bits' = {}
      BY <1>1, <1>7, <1>11 DEF BitsEffect
    <2>4. \A a \in mark_bits : Awaits(a) =>
              Awaits(a)' \/ (refs[a] \subseteq roots /\ (RVALUE_OLD_P(a) => FALSE))
      <3> SUFFICES ASSUME NEW a \in mark_bits, Awaits(a) PROVE Awaits(a)'
        OBVIOUS
      <3>1. a \in wb_unprotected
        BY <1>1, <1>2 DEF Awaits
      <3>2. Ahead(a)'
        BY <2>1 DEF Ahead, Slot, GcInv, TypeOK, BitsTypeOK
      <3> QED BY <1>1, <2>1, <3>1, <3>2 DEF Awaits
    <2>5. (\A a \in mark_bits' : Awaits(a)' \/ refs[a] \subseteq mark_bits') /\ OldRefersToOld'
      BY <1>1, <1>2, <1>4, <1>5, <2>4, VisitKeepsClosed, Zenon
    <2>6. MarkedIsClosed' /\ MarkedIsReachable'
      BY <1>1, <2>1, <2>2, <2>5 DEF MarkedIsClosed, MarkedIsReachable, heap
    <2> QED BY <1>6, <1>8, <1>9, <1>12, <2>5, <2>6 DEF GcInv, TypeOK
  <1> QED BY <1>10, <1>11

\* A page is taken on: the marked objects in it that have no write barrier become the
\* ones to visit.
LEMMA ShadyPageKeeps ==
    ASSUME GcInv, NEW p \in Pages, ShadyPage(p)
    PROVE  GcInv'
  <1>1. /\ pass = "shady" /\ todo = {} /\ p \in pages_left
        /\ pages_left' = pages_left \ {p}
        /\ todo' = p \cap mark_bits \cap wb_unprotected
        /\ UNCHANGED <<heap, wb_unprotected, bits, mode, minor, incremental, during_gc, pass>>
    BY DEF ShadyPage
  <1>2. UNCHANGED <<objects, refs, roots, age, mark_bits, marking_bits, uncollectible,
                    has_remembered, has_shady, mark_stack, old_objects>>
    BY <1>1 DEF heap, bits
  <1>3. mode = "marking"
    BY <1>1 DEF GcInv, Phases
  <1>4. Kept = objects /\ Kept' = objects
    BY <1>1, <1>2, <1>3 DEF Kept, Garbage
  <1>5. HeapTypeOK' /\ BitsTypeOK'
    BY <1>1, <1>2 DEF GcInv, TypeOK, HeapTypeOK, BitsTypeOK
  <1>6. FlagsTypeOK'
    <2>1. pages_left' \in SUBSET Pages /\ todo' \in SUBSET Slot
      BY <1>1 DEF GcInv, TypeOK, FlagsTypeOK, BitsTypeOK
    <2> QED BY <1>1, <2>1 DEF GcInv, TypeOK, FlagsTypeOK
  <1>7. Phases'
    BY <1>1, <1>3 DEF GcInv, Phases
  <1>8. FreeSlotsAreClean' /\ Closed(Kept)'
    BY <1>1, <1>2, <1>3, <1>4 DEF GcInv, FreeSlotsAreClean, Closed
  <1>9. BitmapsAgree' /\ RememberedSet'
    BY <1>1, <1>2, <1>3 DEF GcInv, BitmapsAgree, RememberedSet, RVALUE_OLD_P, PagesOf
  <1>10. OldIsUncollectible' /\ OldCount'
    <2>1. OldMarked' = OldMarked
      BY <1>2 DEF OldMarked, RVALUE_OLD_P
    <2> QED BY <1>1, <1>2, <1>4, <2>1 DEF GcInv, OldIsUncollectible, OldCount, RVALUE_OLD_P
  <1>11. ASSUME NEW a \in mark_bits, Awaits(a) PROVE Awaits(a)'
    BY <1>1, <1>2, <1>11 DEF Awaits, Ahead
  <1>12. MarkedIsClosed'
    BY <1>1, <1>2, <1>3, <1>11 DEF GcInv, MarkedIsClosed
  <1>13. OldRefersToOld'
    BY <1>1, <1>2, <1>3, <1>4, <1>11 DEF GcInv, OldRefersToOld, RVALUE_OLD_P
  <1>14. MarkedIsReachable'
    BY <1>1 DEF MarkedIsReachable
  <1> QED BY <1>5, <1>6, <1>7, <1>8, <1>9, <1>10, <1>12, <1>13, <1>14 DEF GcInv, TypeOK

\* Marking is over: nothing waits any more, so that what is marked is closed.
LEMMA SweepStartKeeps ==
    ASSUME GcInv, gc_sweep_start
    PROVE  GcInv'
  <1>1. /\ mode = "marking" /\ ~incremental /\ mark_stack = {}
        /\ pass = "stack" \/ (pass = "shady" /\ pages_left = {} /\ todo = {})
        /\ mode' = "sweeping" /\ pass' = "none" /\ pages_left' = Pages /\ minor' = FALSE
        /\ UNCHANGED <<heap, wb_unprotected, bits, incremental, during_gc, todo>>
    BY Zenon DEF gc_sweep_start
  <1>2. UNCHANGED <<objects, refs, roots, age, mark_bits, marking_bits, uncollectible,
                    has_remembered, has_shady, mark_stack, old_objects>>
    BY <1>1 DEF heap, bits
  <1>3. todo = {} /\ pages_left = {}
    BY <1>1 DEF GcInv, Phases
  <1>4. \A a : ~Awaits(a)
    BY <1>1, <1>3 DEF Awaits, Ahead
  <1>5. (\A a \in mark_bits : refs[a] \subseteq mark_bits) /\ roots \subseteq mark_bits
    BY <1>1, <1>4 DEF GcInv, MarkedIsClosed
  <1>6. mark_bits \subseteq objects
    BY <1>1 DEF GcInv, FreeSlotsAreClean, TypeOK, BitsTypeOK
  <1>7. Kept = objects /\ Kept' = mark_bits
    <2>1. Garbage' = Slot \ mark_bits
      BY <1>1, <1>2 DEF Garbage, Slot
    <2> QED BY <1>1, <1>2, <1>6, <2>1 DEF Kept, Garbage, GcInv, TypeOK, HeapTypeOK
  <1>8. HeapTypeOK' /\ BitsTypeOK'
    BY <1>1, <1>2 DEF GcInv, TypeOK, HeapTypeOK, BitsTypeOK
  <1>9. FlagsTypeOK'
    <2>1. minor' \in BOOLEAN /\ incremental' \in BOOLEAN /\ during_gc' \in BOOLEAN
      BY <1>1, Zenon DEF GcInv, TypeOK, FlagsTypeOK
    <2> QED BY <1>1, <1>3, <2>1 DEF GcInv, TypeOK, FlagsTypeOK
  <1>10. Phases'
    <2>1. ~minor' /\ ~incremental' /\ todo' = {}
      BY <1>1, <1>3
    <2> QED BY <1>1, <2>1 DEF Phases
  <1>11. FreeSlotsAreClean' /\ Closed(Kept)'
    <2>1. Closed(Kept)'
      BY <1>2, <1>5, <1>7 DEF Closed
    <2> QED BY <2>1, <1>1, <1>2, <1>6 DEF GcInv, FreeSlotsAreClean
  <1>12. BitmapsAgree'
    <2>1. \A o \in mark_bits' : Ahead(o)'
      BY <1>1, <1>2 DEF Ahead, Slot, GcInv, TypeOK, BitsTypeOK
    <2> QED BY <1>1, <1>2, <1>3, <2>1 DEF GcInv, BitmapsAgree, RVALUE_OLD_P
  <1>13. RememberedSet'
    BY <1>1, <1>2 DEF GcInv, RememberedSet, RVALUE_OLD_P, PagesOf
  <1>14. OldIsUncollectible' /\ OldCount'
    <2>1. OldMarked' = OldMarked
      BY <1>2 DEF OldMarked, RVALUE_OLD_P
    <2> QED BY <1>1, <1>2, <1>6, <1>7, <2>1 DEF GcInv, OldIsUncollectible, OldCount, RVALUE_OLD_P
  <1>15. MarkedIsClosed' /\ MarkedIsReachable'
    BY <1>1 DEF MarkedIsClosed, MarkedIsReachable
  <1>16. OldRefersToOld'
    BY <1>2, <1>4, <1>6, <1>7 DEF GcInv, OldRefersToOld, RVALUE_OLD_P
  <1> QED BY <1>8, <1>9, <1>10, <1>11, <1>12, <1>13, <1>14, <1>15, <1>16 DEF GcInv, TypeOK

\* A page is swept: what is kept stays, and its mark bits become those of the next
\* minor collection.
LEMMA PageSweepKeeps ==
    ASSUME GcInv, NEW p \in Pages, gc_page_sweep(p)
    PROVE  GcInv'
  <1> DEFINE freed == (p \cap objects) \ mark_bits
  <1>1. /\ mode = "sweeping" /\ p \in pages_left
        /\ objects' = objects \ freed
        /\ refs' = [o \in Slot |-> IF o \in freed THEN {} ELSE refs[o]]
        /\ age' = [o \in Slot |-> IF o \in freed THEN 0 ELSE age[o]]
        /\ wb_unprotected' = wb_unprotected \ freed
        /\ mark_bits' = (mark_bits \ p) \cup (p \cap uncollectible)
        /\ pages_left' = pages_left \ {p}
        /\ UNCHANGED <<roots, marking_bits, uncollectible, has_remembered, has_shady,
                       mark_stack, old_objects, minor, incremental, pass, todo>>
    BY DEF gc_page_sweep
  <1>2. /\ pages_left' = {} => mode' = "none" /\ during_gc' = FALSE
        /\ pages_left' # {} => mode' = mode /\ during_gc' \in {FALSE, during_gc}
    BY Zenon DEF gc_page_sweep
  <1>3. pass = "none" /\ todo = {} /\ mark_stack = {} /\ ~incremental /\ ~minor
    BY <1>1 DEF GcInv, Phases, BitmapsAgree
  <1>4. p \subseteq Slot /\ \A q \in Pages : q # p => q \cap p = {}
    BY PagesAssumption DEF Slot
  <1>5. \A o \in Slot : /\ o \notin p => Ahead(o)' = Ahead(o)
                        /\ o \in p => ~Ahead(o)' /\ Ahead(o)
    BY <1>1, <1>4 DEF Ahead, GcInv, TypeOK, FlagsTypeOK
  <1>6. \A o \in freed : /\ o \in objects /\ o \in p /\ o \notin mark_bits /\ o \in Slot
                         /\ o \notin uncollectible /\ o \notin Kept
    BY <1>1, <1>4 DEF GcInv, BitmapsAgree, Kept, Garbage
  <1>7. freed = (p \cap objects) \ mark_bits
    OBVIOUS
  <1> HIDE DEF freed
  <1>8. Kept' = Kept
    <2>1. \A o \in Slot : o \in Garbage <=> Ahead(o) /\ o \notin mark_bits
      BY <1>1 DEF Garbage, Ahead
    <2>2. \A o \in Slot : o \in Garbage' <=> Ahead(o)' /\ o \notin mark_bits'
      BY <1>1, <1>2 DEF Garbage, Ahead
    <2>3. objects \subseteq Slot /\ uncollectible \subseteq mark_bits
      BY DEF GcInv, TypeOK, HeapTypeOK, BitmapsAgree
    <2>4. \A o \in objects : o \in Kept' <=> o \in Kept
      BY <2>1, <2>2, <2>3, <1>1, <1>5, <1>7 DEF Kept
    <2> QED BY <2>4, <1>1 DEF Kept
  <1>9. /\ \A o \in Kept : o \in Slot /\ age'[o] = age[o] /\ refs'[o] = refs[o]
        /\ \A o \in Kept : refs[o] \subseteq Kept
    BY <1>1, <1>6 DEF GcInv, TypeOK, HeapTypeOK, Closed, Kept
  <1>10. HeapTypeOK' /\ BitsTypeOK'
    <2>1. refs' \in [Slot -> SUBSET Slot]
      BY <1>1 DEF GcInv, TypeOK, HeapTypeOK
    <2>2. age' \in [Slot -> 0..RVALUE_OLD_AGE]
      BY <1>1, AgeAssumption DEF GcInv, TypeOK, BitsTypeOK
    <2> QED BY <1>1, <2>1, <2>2 DEF GcInv, TypeOK, HeapTypeOK, BitsTypeOK
  <1>11. FlagsTypeOK'
    <2>1. minor' \in BOOLEAN /\ incremental' \in BOOLEAN /\ during_gc' \in BOOLEAN
      <3>1. during_gc' \in {FALSE, during_gc}
        BY <1>2, Zenon
      <3> QED BY <1>1, <3>1, Zenon DEF GcInv, TypeOK, FlagsTypeOK
    <2>2. mode' \in {"none", "marking", "sweeping"}
      BY <1>1, <1>2
    <2> QED BY <1>1, <2>1, <2>2 DEF GcInv, TypeOK, FlagsTypeOK
  <1>12. Phases'
    <2>1. ~minor' /\ ~incremental' /\ todo' = {} /\ pass' = "none"
      BY <1>1, <1>3
    <2>2. mode' # "marking" /\ (mode' = "none" => pages_left' = {} /\ ~during_gc')
      BY <1>1, <1>2
    <2> QED BY <2>1, <2>2 DEF Phases
  <1>13. FreeSlotsAreClean'
    <2> SUFFICES ASSUME NEW o \in Slot, o \notin objects'
                 PROVE  /\ refs'[o] = {} /\ age'[o] = 0
                        /\ o \notin wb_unprotected' /\ o \notin marking_bits'
                        /\ o \notin mark_stack' /\ o \notin uncollectible'
                        /\ o \in mark_bits' => mode' = "sweeping" /\ Ahead(o)'
      BY DEF FreeSlotsAreClean
    <2>1. CASE o \in freed
      <3>1. o \notin marking_bits
        BY <2>1, <1>3, <1>6 DEF GcInv, RememberedSet
      <3> QED BY <2>1, <3>1, <1>1, <1>3, <1>6
    <2>2. CASE o \notin freed
      <3>1. o \notin objects
        BY <2>2, <1>1
      <3>2. o \notin mark_bits' \/ (mode' = "sweeping" /\ Ahead(o)')
        BY <3>1, <1>1, <1>2, <1>5 DEF GcInv, FreeSlotsAreClean, Ahead
      <3> QED BY <2>2, <3>1, <3>2, <1>1 DEF GcInv, FreeSlotsAreClean
    <2> QED BY <2>1, <2>2
  <1>14. Closed(Kept)'
    BY <1>1, <1>8, <1>9 DEF GcInv, Closed
  <1>15. BitmapsAgree'
    <2>1. \A o \in wb_unprotected' : age'[o] = 0
      BY <1>1 DEF GcInv, BitmapsAgree, TypeOK, HeapTypeOK
    <2>2. uncollectible' \subseteq mark_bits'
      BY <1>1 DEF GcInv, BitmapsAgree
    <2>3. \A o \in uncollectible' : age'[o] = RVALUE_OLD_AGE \/ o \in wb_unprotected'
      BY <1>1, <1>6 DEF GcInv, BitmapsAgree, RVALUE_OLD_P, TypeOK, BitsTypeOK
    <2>4. \A o \in mark_bits' : o \in uncollectible' \/ Ahead(o)'
      BY <1>1, <1>5 DEF GcInv, BitmapsAgree, TypeOK, BitsTypeOK
    <2> QED BY <1>1, <1>3, <2>1, <2>2, <2>3, <2>4 DEF BitmapsAgree, RVALUE_OLD_P
  <1>16. RememberedSet'
    <2>1. \A o \in marking_bits : o \notin freed /\ o \in Slot
      BY <1>3, <1>6 DEF GcInv, RememberedSet, TypeOK, BitsTypeOK
    <2>2. \A o \in marking_bits' : age'[o] = RVALUE_OLD_AGE /\ o \in uncollectible'
      BY <2>1, <1>1, <1>3 DEF GcInv, RememberedSet, RVALUE_OLD_P
    <2>3. (uncollectible \cap wb_unprotected)' \subseteq uncollectible \cap wb_unprotected
      BY <1>1
    <2> QED BY <2>2, <2>3, <1>1, <1>3 DEF GcInv, RememberedSet, RVALUE_OLD_P, PagesOf
  <1>17. OldIsUncollectible'
    BY <1>1, <1>8, <1>9 DEF GcInv, OldIsUncollectible, RVALUE_OLD_P
  <1>18. OldCount'
    <2>1. \A o \in objects : o \in mark_bits => o \in Kept /\ o \in objects'
      BY <1>1, <1>7 DEF Kept, Garbage
    <2>2. \A o \in objects : o \in mark_bits /\ age[o] = RVALUE_OLD_AGE =>
              o \in mark_bits' /\ age'[o] = RVALUE_OLD_AGE
      BY <2>1, <1>1, <1>9 DEF GcInv, OldIsUncollectible, RVALUE_OLD_P
    <2>3. \A o \in objects' : o \in mark_bits' /\ age'[o] = RVALUE_OLD_AGE =>
              o \in mark_bits /\ age[o] = RVALUE_OLD_AGE
      BY <1>1 DEF GcInv, BitmapsAgree, TypeOK, HeapTypeOK
    <2>4. OldMarked' = OldMarked
      BY <1>1, <2>1, <2>2, <2>3 DEF OldMarked, RVALUE_OLD_P
    <2> QED BY <1>1, <2>4 DEF GcInv, OldCount
  <1>19. MarkedIsClosed' /\ MarkedIsReachable'
    BY <1>1, <1>2, <1>3 DEF MarkedIsClosed, MarkedIsReachable
  <1>20. OldRefersToOld'
    BY <1>1, <1>8, <1>9 DEF GcInv, OldRefersToOld, RVALUE_OLD_P
  <1> QED BY <1>10, <1>11, <1>12, <1>13, <1>14, <1>15, <1>16, <1>17, <1>18, <1>19, <1>20
    DEF GcInv, TypeOK
-----------------------------------------------------------------------------
(* The steps of the program. *)

\* While the program runs, either an incremental marking waits on its mark stack, or
\* nothing is being marked.
LEMMA Running ==
    ASSUME GcInv, ~during_gc
    PROVE  /\ todo = {} /\ ~minor /\ roots \subseteq Kept
           /\ \A o \in Kept : refs[o] \subseteq Kept /\ o \in objects /\ o \in Slot
           /\ mode = "marking" => /\ incremental /\ pass = "stack" /\ pages_left = {}
                                  /\ Kept = objects /\ marking_bits = mark_stack
           /\ mode # "marking" => ~incremental /\ pass = "none" /\ mark_stack = {}
           /\ \A o : Awaits(o) <=> o \in mark_stack \/ (incremental /\ o \in wb_unprotected)
  <1>1. pass \in {"none", "stack"}
    BY DEF GcInv, Phases, TypeOK, FlagsTypeOK
  <1>2. todo = {} /\ ~minor
    BY <1>1 DEF GcInv, Phases
  <1>3. roots \subseteq Kept /\ \A o \in Kept : refs[o] \subseteq Kept /\ o \in objects /\ o \in Slot
    BY DEF GcInv, Closed, Kept, TypeOK, HeapTypeOK
  <1>4. mode = "marking" => /\ incremental /\ pass = "stack" /\ pages_left = {}
                            /\ Kept = objects /\ marking_bits = mark_stack
    BY <1>1 DEF GcInv, Phases, Kept, Garbage, RememberedSet
  <1>5. mode # "marking" => ~incremental /\ pass = "none" /\ mark_stack = {}
    BY <1>1 DEF GcInv, Phases, BitmapsAgree
  <1>6. \A o : Awaits(o) <=> o \in mark_stack \/ (incremental /\ o \in wb_unprotected)
    BY <1>1, <1>2 DEF Awaits
  <1> QED BY <1>2, <1>3, <1>4, <1>5, <1>6

\* The program does not touch the flags of the collector.
LEMMA RunningKeepsFlags ==
    ASSUME GcInv, ~during_gc, UNCHANGED flags
    PROVE  /\ UNCHANGED <<mode, minor, incremental, during_gc, pass, pages_left, todo>>
           /\ FlagsTypeOK' /\ Phases' /\ MarkedIsReachable' /\ ~during_gc'
           /\ \A o : Ahead(o)' <=> Ahead(o)
           /\ \A o : Awaits(o)' <=> \/ o \in mark_stack'
                                    \/ incremental /\ o \in wb_unprotected'
  <1>1. UNCHANGED <<mode, minor, incremental, during_gc, pass, pages_left, todo>>
    BY DEF flags
  <1>2. FlagsTypeOK' /\ Phases'
    BY <1>1 DEF GcInv, TypeOK, FlagsTypeOK, Phases
  <1>3. todo = {} /\ pass \in {"none", "stack"} /\ (pass = "stack" => incremental)
    BY DEF GcInv, Phases, TypeOK, FlagsTypeOK
  <1>4. MarkedIsReachable'
    BY <1>1, <1>3 DEF MarkedIsReachable
  <1>5. \A o : Ahead(o)' <=> Ahead(o)
    BY <1>1 DEF Ahead
  <1>6. \A o : Awaits(o)' <=> o \in mark_stack' \/ (incremental /\ o \in wb_unprotected')
    BY <1>1, <1>3 DEF Awaits
  <1> QED BY <1>1, <1>2, <1>4, <1>5, <1>6

\* A reference to b is stored in a, which becomes grey or remembered if it has to.
LEMMA StoreKeeps ==
    ASSUME GcInv, ~during_gc, NEW a \in roots, NEW b \in roots,
           refs' = [refs EXCEPT ![a] = @ \cup {b}],
           UNCHANGED <<objects, roots, wb_unprotected, flags>>,
           UNCHANGED <<age, mark_bits, uncollectible, has_shady, old_objects>>,
           marking_bits' = marking_bits \/ marking_bits' = marking_bits \cup {a},
           incremental => /\ marking_bits' = mark_stack'
                          /\ a \in mark_stack' => a \in mark_bits
                          /\ a \notin mark_bits \/ a \in mark_stack' \/ a \in wb_unprotected,
           ~incremental => /\ mark_stack' = mark_stack
                           /\ a \in marking_bits' => RVALUE_OLD_P(a)
                           /\ RVALUE_OLD_P(a) => RVALUE_OLD_P(b) \/ a \in marking_bits'
                           /\ PagesOf(marking_bits') \subseteq has_remembered',
           has_remembered' \in SUBSET Pages
    PROVE  GcInv'
  <1>1. /\ UNCHANGED <<mode, minor, incremental, during_gc, pass, pages_left, todo>>
        /\ FlagsTypeOK' /\ Phases' /\ MarkedIsReachable'
        /\ \A o : Ahead(o)' <=> Ahead(o)
        /\ \A o : Awaits(o)' <=> o \in mark_stack' \/ (incremental /\ o \in wb_unprotected')
    BY RunningKeepsFlags
  <1>2. /\ roots \subseteq Kept
        /\ \A o \in Kept : refs[o] \subseteq Kept /\ o \in objects /\ o \in Slot
        /\ \A o : Awaits(o) <=> o \in mark_stack \/ (incremental /\ o \in wb_unprotected)
        /\ mode = "marking" => incremental /\ marking_bits = mark_stack /\ pass = "stack"
        /\ mode # "marking" => ~incremental /\ pass = "none" /\ mark_stack = {}
        /\ ~minor
    BY Running
  <1>3. /\ \A o \in Slot : o # a => refs'[o] = refs[o]
        /\ refs'[a] = refs[a] \cup {b}
        /\ refs' \in [Slot -> SUBSET Slot]
    BY <1>2 DEF GcInv, TypeOK, HeapTypeOK
  <1>4. /\ mark_stack \subseteq mark_stack' /\ mark_stack' \subseteq mark_stack \cup {a}
        /\ marking_bits \subseteq marking_bits' /\ marking_bits' \subseteq marking_bits \cup {a}
    BY <1>2
  <1>5. Kept' = Kept
    BY <1>1 DEF Kept, Garbage
  <1>6. HeapTypeOK' /\ BitsTypeOK'
    BY <1>2, <1>3, <1>4 DEF GcInv, TypeOK, HeapTypeOK, BitsTypeOK
  <1>7. FreeSlotsAreClean'
    BY <1>1, <1>2, <1>3, <1>4 DEF GcInv, FreeSlotsAreClean
  <1>8. Closed(Kept)'
    BY <1>2, <1>3, <1>5 DEF Closed
  <1>9. BitmapsAgree'
    <2>1. mark_stack' \subseteq mark_bits
      BY <1>2, <1>4 DEF GcInv, BitmapsAgree
    <2> QED BY <1>1, <1>2, <2>1 DEF GcInv, BitmapsAgree, RVALUE_OLD_P
  <1>10. RememberedSet'
    <2>1. ~incremental => (RVALUE_OLD_P(a) => a \in uncollectible)
      BY <1>2 DEF GcInv, OldIsUncollectible
    <2> QED BY <1>1, <1>2, <1>4, <2>1 DEF GcInv, RememberedSet, RVALUE_OLD_P, PagesOf
  <1>11. OldIsUncollectible' /\ OldCount'
    <2>1. OldMarked' = OldMarked
      BY DEF OldMarked, RVALUE_OLD_P
    <2> QED BY <1>1, <1>5, <2>1 DEF GcInv, OldIsUncollectible, OldCount, RVALUE_OLD_P
  <1>12. MarkedIsClosed'
    <2>1. ASSUME NEW o \in mark_bits, mode = "marking" PROVE Awaits(o)' \/ refs'[o] \subseteq mark_bits
      BY <1>1, <1>2, <1>3, <1>4, <2>1 DEF GcInv, MarkedIsClosed, TypeOK, BitsTypeOK
    <2> QED BY <1>1, <1>2, <2>1 DEF MarkedIsClosed
  <1>13. OldRefersToOld'
    <2> SUFFICES ASSUME NEW o \in Kept, age[o] = RVALUE_OLD_AGE
                 PROVE  \/ mode = "marking" /\ (o \notin mark_bits \/ Awaits(o)')
                        \/ o \in marking_bits'
                        \/ \A c \in refs'[o] : age[c] = RVALUE_OLD_AGE \/ c \in uncollectible
      BY <1>1, <1>5 DEF OldRefersToOld, RVALUE_OLD_P
    <2>1. \/ mode = "marking" /\ (o \notin mark_bits \/ Awaits(o))
          \/ o \in marking_bits
          \/ \A c \in refs[o] : age[c] = RVALUE_OLD_AGE \/ c \in uncollectible
      BY DEF GcInv, OldRefersToOld, RVALUE_OLD_P
    <2>2. CASE o # a
      BY <1>1, <1>2, <1>3, <1>4, <2>1, <2>2
    <2>3. CASE o = a /\ incremental
      BY <1>1, <1>2, <1>4, <2>3
    <2>4. CASE o = a /\ ~incremental
      BY <1>1, <1>2, <1>3, <1>4, <2>1, <2>4 DEF RVALUE_OLD_P
    <2> QED BY <2>2, <2>3, <2>4
  <1> QED BY <1>1, <1>6, <1>7, <1>8, <1>9, <1>10, <1>11, <1>12, <1>13 DEF GcInv, TypeOK

\* A reference to b is stored in a, which is black: b is marked.
LEMMA StoreVisits ==
    ASSUME GcInv, ~during_gc, NEW a \in roots, NEW b \in roots, incremental,
           refs' = [refs EXCEPT ![a] = @ \cup {b}], Visit({b}, RVALUE_OLD_P(a), {}),
           UNCHANGED <<objects, roots, wb_unprotected, flags>>
    PROVE  GcInv'
  <1> DEFINE old == RVALUE_OLD_P(a)
  <1>1. /\ UNCHANGED <<mode, minor, incremental, during_gc, pass, pages_left, todo>>
        /\ FlagsTypeOK' /\ Phases' /\ MarkedIsReachable'
        /\ \A o : Awaits(o)' <=> o \in mark_stack' \/ (incremental /\ o \in wb_unprotected')
    BY RunningKeepsFlags
  <1>2. /\ roots \subseteq Kept
        /\ \A o \in Kept : refs[o] \subseteq Kept /\ o \in objects /\ o \in Slot
        /\ \A o : Awaits(o) <=> o \in mark_stack \/ (incremental /\ o \in wb_unprotected)
        /\ mode = "marking" /\ pass = "stack" /\ Kept = objects /\ marking_bits = mark_stack
    BY Running
  <1>3. /\ \A o \in Slot : o # a => refs'[o] = refs[o]
        /\ refs'[a] = refs[a] \cup {b}
        /\ refs' \in [Slot -> SUBSET Slot]
    BY <1>2 DEF GcInv, TypeOK, HeapTypeOK
  <1>4. /\ {b} \in SUBSET objects /\ {} \in SUBSET mark_stack /\ old \in BOOLEAN
        /\ Visit({b}, old, {})
        /\ old => \A x \in {} : RVALUE_OLD_P(x)
    BY <1>2 DEF RVALUE_OLD_P
  <1>5. old <=> age[a] = RVALUE_OLD_AGE
    BY DEF RVALUE_OLD_P
  <1> HIDE DEF old
  <1>6. BitsEffect({b}, {})
    BY <1>4, VisitBits, Zenon
  <1>7. AgesEffect({b}, old)
    BY <1>4, VisitAges, Zenon
  <1>8. BitsTypeOK' /\ BitmapsAgree' /\ RememberedSet' /\ OldIsUncollectible' /\ OldCount'
    <2>1. /\ pass' # "roots" /\ todo' \subseteq todo
          /\ incremental' => incremental
          /\ ~incremental' => ~incremental \/ mark_stack' = {}
          /\ UNCHANGED <<objects, wb_unprotected, mode, minor>>
      BY <1>1, <1>2
    <2> QED BY <1>2, <1>4, <2>1, VisitKeepsBits, Zenon
  <1>9. Kept' = objects
    BY <1>1, <1>2 DEF Kept, Garbage
  <1>10. HeapTypeOK'
    BY <1>3 DEF GcInv, TypeOK, HeapTypeOK
  <1>11. Closed(Kept)'
    BY <1>2, <1>3, <1>9 DEF Closed
  <1>12. FreeSlotsAreClean'
    BY <1>1, <1>2, <1>3, <1>6, <1>7 DEF GcInv, FreeSlotsAreClean, BitsEffect, AgesEffect
  <1>13. MarkedIsClosed'
    <2>1. ASSUME NEW o \in mark_bits' PROVE Awaits(o)' \/ refs'[o] \subseteq mark_bits'
      <3>1. o \in Slot
        BY <1>8 DEF BitsTypeOK
      <3>2. CASE o \notin mark_bits
        BY <1>1, <1>6, <2>1, <3>2 DEF BitsEffect
      <3>3. CASE o \in mark_bits
        <4>1. Awaits(o) \/ refs[o] \subseteq mark_bits
          BY <1>2, <3>3 DEF GcInv, MarkedIsClosed
        <4> QED BY <1>1, <1>2, <1>3, <1>6, <3>1, <4>1 DEF BitsEffect
      <3> QED BY <3>2, <3>3
    <2> QED BY <1>1, <1>2, <2>1 DEF MarkedIsClosed
  <1>14. OldRefersToOld'
    <2> SUFFICES ASSUME NEW o \in objects, age'[o] = RVALUE_OLD_AGE, o \in mark_bits',
                        ~Awaits(o)', o \notin marking_bits', NEW c \in refs'[o]
                 PROVE  age'[c] = RVALUE_OLD_AGE \/ c \in uncollectible'
      BY <1>1, <1>2, <1>9 DEF OldRefersToOld, RVALUE_OLD_P
    <2>1. o \in Slot /\ c \in Slot
      BY <1>2, <1>3
    <2>2. age[o] = RVALUE_OLD_AGE /\ o \notin mark_stack' /\ o \in mark_bits
      BY <1>1, <1>6, <1>7, <2>1 DEF AgesEffect, BitsEffect
    <2>3. ~Awaits(o) /\ o \notin marking_bits
      BY <1>1, <1>2, <1>6 DEF BitsEffect
    <2>4. CASE c \in refs[o]
      <3>1. age[c] = RVALUE_OLD_AGE \/ c \in uncollectible
        BY <1>2, <2>2, <2>3, <2>4 DEF GcInv, OldRefersToOld, RVALUE_OLD_P
      <3> QED BY <3>1, <1>6, <1>7, <2>1 DEF AgesEffect, BitsEffect
    <2>5. CASE c \notin refs[o]
      <3>1. o = a /\ c = b
        BY <1>3, <2>1, <2>5
      <3> QED BY <3>1, <1>5, <1>7, <2>2 DEF AgesEffect
    <2> QED BY <2>4, <2>5
  <1> QED BY <1>1, <1>8, <1>10, <1>11, <1>12, <1>13, <1>14 DEF GcInv, TypeOK

\* rgengc_remember keeps the flag of the page of every remembered object.
LEMMA RememberPages ==
    ASSUME GcInv, NEW a \in Slot, ~incremental, rgengc_remember(a)
    PROVE  PagesOf(marking_bits') \subseteq has_remembered' /\ has_remembered' \in SUBSET Pages
  <1>1. PagesOf(marking_bits) \subseteq has_remembered /\ has_remembered \in SUBSET Pages
    BY DEF GcInv, RememberedSet, TypeOK, BitsTypeOK
  <1> QED BY <1>1 DEF rgengc_remember, PagesOf

\* RB_OBJ_WRITE.
LEMMA ObjWriteKeeps ==
    ASSUME GcInv, NEW a \in Slot, NEW b \in Slot, rb_obj_write(a, b)
    PROVE  GcInv'
  <1>1. /\ ~during_gc /\ a \in roots /\ b \in roots
        /\ refs' = [refs EXCEPT ![a] = @ \cup {b}]
        /\ rb_gc_writebarrier(a, b)
        /\ UNCHANGED <<objects, roots, wb_unprotected, flags>>
    BY DEF rb_obj_write, Store
  <1>2. /\ mode = "marking" => incremental /\ marking_bits = mark_stack
        /\ mode # "marking" => ~incremental /\ mark_stack = {}
    BY <1>1, Running
  <1>3. CASE incremental /\ RVALUE_BLACK_P(a) /\ (b \in mark_bits \/ a \notin wb_unprotected)
    <2>1. Visit({b}, RVALUE_OLD_P(a), {})
      BY <1>1, <1>3 DEF rb_gc_writebarrier, gc_writebarrier_incremental
    <2> QED BY <1>1, <1>3, <2>1, StoreVisits
  <1>4. CASE ~incremental /\ RVALUE_OLD_P(a) /\ ~RVALUE_OLD_P(b)
    <2>1. rgengc_remember(a)
      BY <1>1, <1>4 DEF rb_gc_writebarrier
    <2>2. PagesOf(marking_bits') \subseteq has_remembered' /\ has_remembered' \in SUBSET Pages
      BY <1>4, <2>1, RememberPages
    <2>3. /\ marking_bits' = marking_bits \cup {a}
          /\ UNCHANGED <<age, mark_bits, uncollectible, has_shady, mark_stack, old_objects>>
      BY <2>1 DEF rgengc_remember
    <2> QED BY <1>1, <1>4, <2>2, <2>3, StoreKeeps
  <1>5. CASE /\ ~(incremental /\ RVALUE_BLACK_P(a) /\ (b \in mark_bits \/ a \notin wb_unprotected))
             /\ ~(~incremental /\ RVALUE_OLD_P(a) /\ ~RVALUE_OLD_P(b))
    <2>1. UNCHANGED bits
      BY <1>1, <1>5 DEF rb_gc_writebarrier, gc_writebarrier_incremental
    <2>2. /\ PagesOf(marking_bits') \subseteq has_remembered' \/ incremental
          /\ has_remembered' \in SUBSET Pages
      BY <2>1 DEF bits, GcInv, RememberedSet, TypeOK, BitsTypeOK
    <2>3. /\ UNCHANGED <<age, mark_bits, marking_bits, uncollectible, has_shady, mark_stack,
                         old_objects>>
          /\ incremental => a \notin mark_bits \/ a \in marking_bits \/ a \in wb_unprotected
      BY <1>5, <2>1 DEF bits, RVALUE_BLACK_P
    <2>4. ~incremental => /\ a \in marking_bits => RVALUE_OLD_P(a)
                          /\ RVALUE_OLD_P(a) => RVALUE_OLD_P(b)
      BY <1>5 DEF GcInv, RememberedSet
    <2>5. incremental => marking_bits = mark_stack /\ (a \in mark_stack => a \in mark_bits)
      BY <1>2 DEF GcInv, BitmapsAgree, RememberedSet
    <2> QED BY <1>1, <2>2, <2>3, <2>4, <2>5, StoreKeeps
  <1> QED BY <1>3, <1>4, <1>5

\* rb_gc_writebarrier_remember.
LEMMA WritebarrierRememberKeeps ==
    ASSUME GcInv, NEW a \in Slot, NEW b \in Slot, rb_gc_writebarrier_remember(a, b)
    PROVE  GcInv'
  <1>1. /\ ~during_gc /\ a \in roots /\ b \in roots /\ a \notin wb_unprotected
        /\ refs' = [refs EXCEPT ![a] = @ \cup {b}]
        /\ UNCHANGED <<objects, roots, wb_unprotected, flags>>
    BY DEF rb_gc_writebarrier_remember, Store
  <1>2. incremental => marking_bits = mark_stack /\ mark_stack \subseteq mark_bits
    BY DEF GcInv, BitmapsAgree, RememberedSet
  <1>3. has_remembered \in SUBSET Pages
    BY DEF GcInv, TypeOK, BitsTypeOK
  <1>4. CASE incremental /\ RVALUE_BLACK_P(a)
    <2>1. /\ marking_bits' = marking_bits \cup {a} /\ mark_stack' = mark_stack \cup {a}
          /\ UNCHANGED <<age, mark_bits, uncollectible, has_remembered, has_shady, old_objects>>
      BY <1>4 DEF rb_gc_writebarrier_remember
    <2>2. a \in mark_bits
      BY <1>4 DEF RVALUE_BLACK_P
    <2> QED BY <1>1, <1>2, <1>3, <1>4, <2>1, <2>2, StoreKeeps
  <1>5. CASE ~incremental /\ RVALUE_OLD_P(a)
    <2>1. rgengc_remember(a)
      BY <1>5 DEF rb_gc_writebarrier_remember
    <2>2. PagesOf(marking_bits') \subseteq has_remembered' /\ has_remembered' \in SUBSET Pages
      BY <1>5, <2>1, RememberPages
    <2>3. /\ marking_bits' = marking_bits \cup {a}
          /\ UNCHANGED <<age, mark_bits, uncollectible, has_shady, mark_stack, old_objects>>
      BY <2>1 DEF rgengc_remember
    <2> QED BY <1>1, <1>5, <2>2, <2>3, StoreKeeps
  <1>6. CASE ~(incremental /\ RVALUE_BLACK_P(a)) /\ ~(~incremental /\ RVALUE_OLD_P(a))
    <2>1. UNCHANGED <<age, mark_bits, marking_bits, uncollectible, has_remembered, has_shady,
                      mark_stack, old_objects>>
      BY <1>6 DEF rb_gc_writebarrier_remember, bits
    <2>2. incremental => a \notin mark_bits \/ a \in marking_bits
      BY <1>6 DEF RVALUE_BLACK_P
    <2>3. ~incremental => /\ a \in marking_bits => RVALUE_OLD_P(a)
                          /\ PagesOf(marking_bits) \subseteq has_remembered
      BY DEF GcInv, RememberedSet
    <2> QED BY <1>1, <1>2, <1>3, <1>6, <2>1, <2>2, <2>3, StoreKeeps
  <1> QED BY <1>4, <1>5, <1>6

\* References are forgotten, or read.
LEMMA ForgetKeeps ==
    ASSUME GcInv, ~during_gc, UNCHANGED <<objects, wb_unprotected, bits, flags>>,
           refs' \in [Slot -> SUBSET Slot], \A o \in Slot : refs'[o] \subseteq refs[o],
           roots' \subseteq Kept
    PROVE  GcInv'
  <1>1. UNCHANGED <<age, mark_bits, marking_bits, uncollectible, has_remembered, has_shady,
                    mark_stack, old_objects>>
    BY DEF bits
  <1>2. /\ UNCHANGED <<mode, minor, incremental, during_gc, pass, pages_left, todo>>
        /\ FlagsTypeOK' /\ Phases' /\ MarkedIsReachable'
        /\ \A o : Ahead(o)' <=> Ahead(o)
        /\ \A o : Awaits(o)' <=> o \in mark_stack' \/ (incremental /\ o \in wb_unprotected')
    BY RunningKeepsFlags
  <1>3. /\ \A o \in Kept : refs[o] \subseteq Kept /\ o \in objects /\ o \in Slot
        /\ \A o : Awaits(o) <=> o \in mark_stack \/ (incremental /\ o \in wb_unprotected)
        /\ mode = "marking" => incremental
    BY Running
  <1>4. Kept' = Kept
    BY <1>1, <1>2 DEF Kept, Garbage
  <1>5. HeapTypeOK' /\ BitsTypeOK'
    BY <1>1, <1>3 DEF GcInv, TypeOK, HeapTypeOK, BitsTypeOK
  <1>6. FreeSlotsAreClean' /\ Closed(Kept)'
    <2>1. FreeSlotsAreClean'
      BY <1>1, <1>2 DEF GcInv, FreeSlotsAreClean
    <2>2. Closed(Kept)'
      BY <1>3, <1>4 DEF Closed
    <2> QED BY <2>1, <2>2
  <1>7. BitmapsAgree' /\ RememberedSet'
    BY <1>1, <1>2 DEF GcInv, BitmapsAgree, RememberedSet, RVALUE_OLD_P, PagesOf
  <1>8. OldIsUncollectible' /\ OldCount'
    <2>1. OldMarked' = OldMarked
      BY <1>1 DEF OldMarked, RVALUE_OLD_P
    <2> QED BY <1>1, <1>2, <1>4, <2>1 DEF GcInv, OldIsUncollectible, OldCount, RVALUE_OLD_P
  <1>9. MarkedIsClosed'
    BY <1>1, <1>2, <1>3 DEF GcInv, MarkedIsClosed, TypeOK, BitsTypeOK
  <1>10. OldRefersToOld'
    BY <1>1, <1>2, <1>3, <1>4 DEF GcInv, OldRefersToOld, RVALUE_OLD_P
  <1> QED BY <1>2, <1>5, <1>6, <1>7, <1>8, <1>9, <1>10 DEF GcInv, TypeOK

\* A free slot becomes an object: it is young and white, and refers to nothing.
LEMMA NewobjKeeps ==
    ASSUME GcInv, NEW o \in Slot, NEW wb_protected \in BOOLEAN, newobj_of(o, wb_protected)
    PROVE  GcInv'
  <1>1. /\ ~during_gc /\ o \notin objects
        /\ mode = "sweeping" => ~Ahead(o)
        /\ objects' = objects \cup {o} /\ roots' = roots \cup {o}
        /\ wb_unprotected' = wb_unprotected \/ wb_unprotected' = wb_unprotected \cup {o}
        /\ UNCHANGED <<refs, bits, flags>>
    BY DEF newobj_of, Ahead
  <1>2. UNCHANGED <<age, mark_bits, marking_bits, uncollectible, has_remembered, has_shady,
                    mark_stack, old_objects>>
    BY <1>1 DEF bits
  <1>3. /\ UNCHANGED <<mode, minor, incremental, during_gc, pass, pages_left, todo>>
        /\ FlagsTypeOK' /\ Phases' /\ MarkedIsReachable'
        /\ \A x : Ahead(x)' <=> Ahead(x)
        /\ \A x : Awaits(x)' <=> x \in mark_stack' \/ (incremental /\ x \in wb_unprotected')
    BY <1>1, RunningKeepsFlags
  <1>4. /\ \A x \in Kept : refs[x] \subseteq Kept /\ x \in objects /\ x \in Slot
        /\ \A x : Awaits(x) <=> x \in mark_stack \/ (incremental /\ x \in wb_unprotected)
        /\ mode = "marking" => incremental
        /\ roots \subseteq Kept
    BY <1>1, Running
  <1>5. /\ refs[o] = {} /\ age[o] = 0 /\ o \notin wb_unprotected /\ o \notin marking_bits
        /\ o \notin mark_stack /\ o \notin uncollectible /\ o \notin mark_bits
    BY <1>1 DEF GcInv, FreeSlotsAreClean
  <1>6. Kept' = Kept \cup {o}
    <2>1. Garbage' = Garbage /\ o \notin Garbage
      BY <1>1, <1>2, <1>3 DEF Garbage, Ahead
    <2> QED BY <1>1, <2>1 DEF Kept
  <1>7. age[o] # RVALUE_OLD_AGE
    BY <1>5, AgeAssumption
  <1>8. HeapTypeOK' /\ BitsTypeOK'
    BY <1>1, <1>2 DEF GcInv, TypeOK, HeapTypeOK, BitsTypeOK
  <1>9. FreeSlotsAreClean'
    BY <1>1, <1>2, <1>3 DEF GcInv, FreeSlotsAreClean
  <1>10. Closed(Kept)'
    BY <1>1, <1>4, <1>5, <1>6 DEF Closed
  <1>11. BitmapsAgree'
    BY <1>1, <1>2, <1>3, <1>5 DEF GcInv, BitmapsAgree, RVALUE_OLD_P
  <1>12. RememberedSet'
    <2>1. (uncollectible \cap wb_unprotected)' = uncollectible \cap wb_unprotected
      BY <1>1, <1>2, <1>5
    <2> QED BY <1>2, <1>3, <2>1 DEF GcInv, RememberedSet, RVALUE_OLD_P, PagesOf
  <1>13. OldIsUncollectible' /\ OldCount'
    <2>1. OldMarked' = OldMarked
      BY <1>1, <1>2, <1>5 DEF OldMarked, RVALUE_OLD_P
    <2> QED BY <1>2, <1>3, <1>6, <1>7, <2>1
      DEF GcInv, OldIsUncollectible, OldCount, RVALUE_OLD_P
  <1>14. MarkedIsClosed'
    BY <1>1, <1>2, <1>3, <1>4 DEF GcInv, MarkedIsClosed
  <1>15. OldRefersToOld'
    BY <1>1, <1>2, <1>3, <1>4, <1>6, <1>7 DEF GcInv, OldRefersToOld, RVALUE_OLD_P
  <1> QED BY <1>3, <1>8, <1>9, <1>10, <1>11, <1>12, <1>13, <1>14, <1>15 DEF GcInv, TypeOK

\* One old object less that is marked.
LEMMA OneOldLess ==
    ASSUME GcInv, NEW a \in objects,
           old_objects' = old_objects - (IF RVALUE_OLD_P(a) /\ a \in mark_bits THEN 1 ELSE 0),
           OldMarked' = OldMarked \ {a}
    PROVE  OldCount' /\ old_objects' \in Int
  <1>1. OldMarked \subseteq Slot
    BY DEF OldMarked, GcInv, TypeOK, HeapTypeOK
  <1>2. IsFiniteSet(OldMarked)
    BY <1>1, PagesAssumption, FS_Subset DEF Slot
  <1>3. Cardinality(OldMarked \ {a}) =
            IF a \in OldMarked THEN Cardinality(OldMarked) - 1 ELSE Cardinality(OldMarked)
    BY <1>2, FS_RemoveElement
  <1>4. a \in OldMarked <=> RVALUE_OLD_P(a) /\ a \in mark_bits
    BY DEF OldMarked
  <1>5. old_objects = Cardinality(OldMarked) /\ old_objects \in Int
    BY DEF GcInv, OldCount, TypeOK, BitsTypeOK
  <1> QED BY <1>3, <1>4, <1>5 DEF OldCount

\* An object gives its write barrier up: if it was old it is remembered for good.
LEMMA UnprotectKeeps ==
    ASSUME GcInv, NEW a \in Slot, rb_gc_writebarrier_unprotect(a)
    PROVE  GcInv'
  <1>1. /\ ~during_gc /\ a \in roots /\ a \notin wb_unprotected
        /\ wb_unprotected' = wb_unprotected \cup {a}
        /\ age' = [age EXCEPT ![a] = 0]
        /\ UNCHANGED <<objects, refs, roots, has_remembered, mark_stack, flags>>
    BY DEF rb_gc_writebarrier_unprotect, heap
  <1>2. /\ UNCHANGED <<mode, minor, incremental, during_gc, pass, pages_left, todo>>
        /\ FlagsTypeOK' /\ Phases' /\ MarkedIsReachable'
        /\ \A x : Ahead(x)' <=> Ahead(x)
        /\ \A x : Awaits(x)' <=> x \in mark_stack' \/ (incremental /\ x \in wb_unprotected')
    BY <1>1, RunningKeepsFlags
  <1>3. /\ roots \subseteq Kept /\ todo = {}
        /\ \A x \in Kept : refs[x] \subseteq Kept /\ x \in objects /\ x \in Slot
        /\ \A x : Awaits(x) <=> x \in mark_stack \/ (incremental /\ x \in wb_unprotected)
        /\ mode = "marking" => incremental /\ marking_bits = mark_stack /\ pass = "stack"
        /\ mode # "marking" => ~incremental /\ pass = "none" /\ mark_stack = {}
    BY <1>1, Running
  <1>4. /\ \A x \in Slot : x # a => age'[x] = age[x]
        /\ age'[a] = 0 /\ 0 # RVALUE_OLD_AGE
        /\ age' \in [Slot -> 0..RVALUE_OLD_AGE]
    BY <1>1, AgeAssumption DEF GcInv, TypeOK, BitsTypeOK
  <1>5. IF RVALUE_OLD_P(a) THEN Demote(a)
        ELSE UNCHANGED <<marking_bits, old_objects, mark_bits, uncollectible, has_shady>>
    BY DEF rb_gc_writebarrier_unprotect
  <1>6. RVALUE_OLD_P(a) =>
          /\ incremental => marking_bits' = marking_bits
          /\ ~incremental => marking_bits' = marking_bits \ {a}
          /\ mark_bits' = mark_bits \cup {a} /\ uncollectible' = uncollectible \cup {a}
          /\ has_shady' = has_shady \cup PagesOf({a})
    BY <1>5 DEF Demote
  <1>7. old_objects' = old_objects - (IF RVALUE_OLD_P(a) /\ a \in mark_bits THEN 1 ELSE 0)
    BY <1>5 DEF Demote, GcInv, TypeOK, BitsTypeOK
  <1>8. ~RVALUE_OLD_P(a) =>
          /\ UNCHANGED <<marking_bits, mark_bits, uncollectible, has_shady>>
          /\ a \notin uncollectible /\ (~incremental => a \notin marking_bits)
    BY <1>1, <1>5 DEF GcInv, BitmapsAgree, RememberedSet
  <1>9. /\ mark_bits \subseteq mark_bits' /\ mark_bits' \subseteq mark_bits \cup {a}
        /\ uncollectible \subseteq uncollectible' /\ uncollectible' \subseteq uncollectible \cup {a}
        /\ incremental => marking_bits' = marking_bits
        /\ ~incremental => marking_bits' = marking_bits \ {a}
        /\ has_shady \subseteq has_shady' /\ has_shady' \in SUBSET Pages
        /\ a \in uncollectible' => a \in mark_bits' /\ PagesOf({a}) \subseteq has_shady'
        /\ RVALUE_OLD_P(a) => a \in uncollectible'
        /\ a \in mark_bits' => a \in mark_bits \/ a \in uncollectible'
    <2>1. has_shady \in SUBSET Pages
      BY DEF GcInv, TypeOK, BitsTypeOK
    <2>2. CASE RVALUE_OLD_P(a)
      BY <1>6, <2>1, <2>2 DEF PagesOf
    <2>3. CASE ~RVALUE_OLD_P(a)
      BY <1>8, <2>1, <2>3
    <2> QED BY <2>2, <2>3
  <1>10. Kept' = Kept
    <2>1. \A x \in objects : x \in Garbage' <=> x \in Garbage
      BY <1>1, <1>2, <1>3, <1>9 DEF Garbage, Kept
    <2> QED BY <1>1, <2>1 DEF Kept
  <1>11. OldCount' /\ old_objects' \in Int
    <2>1. OldMarked' = OldMarked \ {a}
      BY <1>1, <1>4, <1>9 DEF OldMarked, RVALUE_OLD_P, GcInv, TypeOK, HeapTypeOK
    <2>2. a \in objects
      BY <1>1, <1>3
    <2> QED BY <1>7, <2>1, <2>2, OneOldLess
  <1>12. HeapTypeOK' /\ BitsTypeOK'
    <2>1. HeapTypeOK'
      BY <1>1 DEF GcInv, TypeOK, HeapTypeOK
    <2>2. marking_bits' \in SUBSET Slot
      BY <1>9 DEF GcInv, TypeOK, BitsTypeOK
    <2> QED BY <1>1, <1>4, <1>9, <1>11, <2>1, <2>2 DEF GcInv, TypeOK, BitsTypeOK
  <1>13. FreeSlotsAreClean' /\ Closed(Kept)'
    <2>1. Closed(Kept)'
      BY <1>1, <1>10 DEF GcInv, Closed
    <2>2. FreeSlotsAreClean'
      <3>1. \A x \in Slot \ objects : x # a
        BY <1>1, <1>3
      <3> QED BY <1>1, <1>2, <1>4, <1>9, <3>1 DEF GcInv, FreeSlotsAreClean
    <2> QED BY <2>1, <2>2
  <1>14. BitmapsAgree'
    <2>1. \A x \in wb_unprotected' : age'[x] = 0
      BY <1>1, <1>4 DEF GcInv, BitmapsAgree, TypeOK, HeapTypeOK
    <2>2. uncollectible' \subseteq mark_bits' /\ mark_stack' \subseteq mark_bits'
          /\ todo' \subseteq mark_bits'
      BY <1>1, <1>2, <1>9 DEF GcInv, BitmapsAgree
    <2>3. \A x \in uncollectible' : age'[x] = RVALUE_OLD_AGE \/ x \in wb_unprotected'
      BY <1>1, <1>4, <1>9 DEF GcInv, BitmapsAgree, RVALUE_OLD_P, TypeOK, BitsTypeOK
    <2>4. mode' # "marking" => \A x \in mark_bits' : x \in uncollectible' \/ Ahead(x)'
      BY <1>2, <1>9 DEF GcInv, BitmapsAgree
    <2> QED BY <1>1, <1>2, <1>3, <2>1, <2>2, <2>3, <2>4 DEF BitmapsAgree, RVALUE_OLD_P
  <1>15. RememberedSet'
    <2>1. ~incremental => \A x \in marking_bits' : age'[x] = RVALUE_OLD_AGE /\ x \in uncollectible'
      BY <1>4, <1>9 DEF GcInv, RememberedSet, RVALUE_OLD_P, TypeOK, BitsTypeOK
    <2>2. ~incremental => PagesOf(marking_bits') \subseteq has_remembered'
      BY <1>1, <1>9 DEF GcInv, RememberedSet, PagesOf
    <2>3. PagesOf((uncollectible \cap wb_unprotected)') \subseteq has_shady'
      BY <1>1, <1>9 DEF GcInv, RememberedSet, PagesOf
    <2>4. incremental => marking_bits' = mark_stack'
      BY <1>1, <1>9 DEF GcInv, RememberedSet
    <2> QED BY <1>2, <2>1, <2>2, <2>3, <2>4 DEF RememberedSet, RVALUE_OLD_P, PagesOf
  <1>16. OldIsUncollectible'
    BY <1>2, <1>3, <1>4, <1>9, <1>10 DEF GcInv, OldIsUncollectible, RVALUE_OLD_P
  <1>17. MarkedIsClosed'
    <2>1. ASSUME mode = "marking", NEW x \in mark_bits' PROVE Awaits(x)' \/ refs'[x] \subseteq mark_bits'
      <3>1. CASE x = a
        BY <1>1, <1>2, <1>3, <2>1, <3>1
      <3>2. CASE x # a
        BY <1>1, <1>2, <1>3, <1>9, <2>1, <3>2 DEF GcInv, MarkedIsClosed
      <3> QED BY <3>1, <3>2
    <2> QED BY <1>2, <1>3, <2>1 DEF MarkedIsClosed
  <1>18. OldRefersToOld'
    <2> SUFFICES ASSUME NEW x \in Kept, age'[x] = RVALUE_OLD_AGE
                 PROVE  \/ mode = "marking" /\ (x \notin mark_bits' \/ Awaits(x)')
                        \/ x \in marking_bits'
                        \/ \A c \in refs[x] : age'[c] = RVALUE_OLD_AGE \/ c \in uncollectible'
      BY <1>1, <1>2, <1>10 DEF OldRefersToOld, RVALUE_OLD_P
    <2>1. x \in Slot /\ x # a /\ age[x] = RVALUE_OLD_AGE
      BY <1>3, <1>4
    <2>2. \A c \in refs[x] : age[c] = RVALUE_OLD_AGE \/ c \in uncollectible
             => age'[c] = RVALUE_OLD_AGE \/ c \in uncollectible'
      BY <1>3, <1>4, <1>9 DEF RVALUE_OLD_P
    <2> QED BY <1>1, <1>2, <1>3, <1>9, <2>1, <2>2 DEF GcInv, OldRefersToOld, RVALUE_OLD_P
  <1> QED BY <1>2, <1>11, <1>12, <1>13, <1>14, <1>15, <1>16, <1>17, <1>18 DEF GcInv, TypeOK

\* A temporary object is recycled, to which nothing refers.
LEMMA ForceRecycleKeeps ==
    ASSUME GcInv, NEW o \in Slot, rb_gc_force_recycle(o)
    PROVE  GcInv'
  <1>1. /\ ~during_gc /\ o \in roots /\ wb_unprotected' = wb_unprotected \ {o}
        /\ \A x \in Slot : o \notin refs[x]
        /\ objects' = objects \ {o} /\ roots' = roots \ {o}
        /\ refs' = [refs EXCEPT ![o] = {}] /\ age' = [age EXCEPT ![o] = 0]
        /\ old_objects' = old_objects - (IF RVALUE_OLD_P(o) /\ o \in mark_bits THEN 1 ELSE 0)
        /\ uncollectible' = uncollectible \ {o} /\ marking_bits' = marking_bits \ {o}
        /\ mark_stack' = mark_stack \ {o}
        /\ \/ mark_bits' = mark_bits \ {o}
           \/ mark_bits' = mark_bits /\ ~incremental /\ Ahead(o)
        /\ UNCHANGED <<has_remembered, has_shady, flags>>
    BY DEF rb_gc_force_recycle, ForgetOld, Ahead
  <1>2. /\ UNCHANGED <<mode, minor, incremental, during_gc, pass, pages_left, todo>>
        /\ FlagsTypeOK' /\ Phases' /\ MarkedIsReachable'
        /\ \A x : Ahead(x)' <=> Ahead(x)
        /\ \A x : Awaits(x)' <=> x \in mark_stack' \/ (incremental /\ x \in wb_unprotected')
    BY <1>1, RunningKeepsFlags
  <1>3. /\ roots \subseteq Kept /\ todo = {}
        /\ \A x \in Kept : refs[x] \subseteq Kept /\ x \in objects /\ x \in Slot
        /\ \A x : Awaits(x) <=> x \in mark_stack \/ (incremental /\ x \in wb_unprotected)
        /\ mode = "marking" => incremental /\ marking_bits = mark_stack /\ pass = "stack"
        /\ mode # "marking" => ~incremental /\ pass = "none" /\ mark_stack = {}
    BY <1>1, Running
  <1>4. mark_bits' = mark_bits /\ o \in mark_bits => mode = "sweeping" /\ Ahead(o)
    BY <1>1, <1>3 DEF GcInv, Phases, Ahead, TypeOK, FlagsTypeOK
  <1>5. /\ \A x \in Slot : x # o => age'[x] = age[x] /\ refs'[x] = refs[x]
        /\ age'[o] = 0 /\ refs'[o] = {} /\ 0 # RVALUE_OLD_AGE
        /\ age' \in [Slot -> 0..RVALUE_OLD_AGE] /\ refs' \in [Slot -> SUBSET Slot]
    BY <1>1, AgeAssumption DEF GcInv, TypeOK, BitsTypeOK, HeapTypeOK
  <1>6. \A x : x # o => (x \in mark_bits' <=> x \in mark_bits)
    BY <1>1
  <1>7. Kept' = Kept \ {o}
    <2>1. \A x \in objects : x # o => (x \in Garbage' <=> x \in Garbage)
      BY <1>2, <1>6 DEF Garbage
    <2> QED BY <1>1, <2>1 DEF Kept
  <1>8. OldCount' /\ old_objects' \in Int
    <2>1. OldMarked' = OldMarked \ {o}
      BY <1>1, <1>5, <1>6 DEF OldMarked, RVALUE_OLD_P, GcInv, TypeOK, HeapTypeOK
    <2>2. o \in objects
      BY <1>1, <1>3
    <2> QED BY <1>1, <2>1, <2>2, OneOldLess
  <1>9. HeapTypeOK' /\ BitsTypeOK'
    BY <1>1, <1>5, <1>8 DEF GcInv, TypeOK, HeapTypeOK, BitsTypeOK
  <1>10. FreeSlotsAreClean'
    BY <1>1, <1>2, <1>4, <1>5, <1>6 DEF GcInv, FreeSlotsAreClean
  <1>11. Closed(Kept)'
    BY <1>1, <1>3, <1>5, <1>7 DEF Closed
  <1>12. BitmapsAgree'
    <2>1. \A x \in wb_unprotected' : age'[x] = 0
      BY <1>1, <1>5 DEF GcInv, BitmapsAgree, TypeOK, HeapTypeOK
    <2>2. uncollectible' \subseteq mark_bits' /\ mark_stack' \subseteq mark_bits' /\ todo' = {}
      BY <1>1, <1>2, <1>3, <1>6 DEF GcInv, BitmapsAgree
    <2>3. \A x \in uncollectible' : age'[x] = RVALUE_OLD_AGE \/ x \in wb_unprotected'
      BY <1>1, <1>5 DEF GcInv, BitmapsAgree, RVALUE_OLD_P, TypeOK, BitsTypeOK
    <2>4. mode' # "marking" => \A x \in mark_bits' : x \in uncollectible' \/ Ahead(x)'
      BY <1>1, <1>2, <1>4, <1>6 DEF GcInv, BitmapsAgree
    <2>5. pass' # "roots" /\ (mode' # "marking" => mark_stack' = {})
      BY <1>1, <1>2, <1>3
    <2> QED BY <2>1, <2>2, <2>3, <2>4, <2>5 DEF BitmapsAgree, RVALUE_OLD_P
  <1>13. RememberedSet'
    <2>1. ~incremental => \A x \in marking_bits' : age'[x] = RVALUE_OLD_AGE /\ x \in uncollectible'
      BY <1>1, <1>5 DEF GcInv, RememberedSet, RVALUE_OLD_P, TypeOK, BitsTypeOK
    <2>2. ~incremental => PagesOf(marking_bits') \subseteq has_remembered'
      BY <1>1 DEF GcInv, RememberedSet, PagesOf
    <2>3. PagesOf((uncollectible \cap wb_unprotected)') \subseteq has_shady'
      BY <1>1 DEF GcInv, RememberedSet, PagesOf
    <2>4. incremental => marking_bits' = mark_stack'
      BY <1>1 DEF GcInv, RememberedSet
    <2> QED BY <1>2, <2>1, <2>2, <2>3, <2>4 DEF RememberedSet, RVALUE_OLD_P, PagesOf
  <1>14. OldIsUncollectible'
    BY <1>1, <1>2, <1>3, <1>5, <1>6, <1>7 DEF GcInv, OldIsUncollectible, RVALUE_OLD_P
  <1>15. MarkedIsClosed'
    <2>1. ASSUME mode = "marking", NEW x \in mark_bits' PROVE Awaits(x)' \/ refs'[x] \subseteq mark_bits'
      <3>1. CASE x = o
        BY <1>5, <3>1
      <3>2. CASE x # o
        <4>1. x \in mark_bits /\ x \in Slot /\ refs'[x] = refs[x] /\ o \notin refs[x]
          BY <1>1, <1>5, <1>6, <2>1, <3>2 DEF GcInv, TypeOK, BitsTypeOK
        <4>2. Awaits(x) \/ refs[x] \subseteq mark_bits
          BY <2>1, <4>1 DEF GcInv, MarkedIsClosed
        <4> QED BY <1>1, <1>2, <1>3, <1>6, <3>2, <4>1, <4>2
      <3> QED BY <3>1, <3>2
    <2> QED BY <1>2, <1>3, <2>1 DEF MarkedIsClosed
  <1>16. OldRefersToOld'
    <2> SUFFICES ASSUME NEW x \in Kept, x # o, age'[x] = RVALUE_OLD_AGE
                 PROVE  \/ mode = "marking" /\ (x \notin mark_bits' \/ Awaits(x)')
                        \/ x \in marking_bits'
                        \/ \A c \in refs'[x] : age'[c] = RVALUE_OLD_AGE \/ c \in uncollectible'
      BY <1>1, <1>2, <1>7 DEF OldRefersToOld, RVALUE_OLD_P
    <2>1. x \in Slot /\ age[x] = RVALUE_OLD_AGE /\ refs'[x] = refs[x]
      BY <1>3, <1>5
    <2>2. \A c \in refs[x] : c # o /\ c \in Slot
      BY <1>1, <1>3, <2>1
    <2>3. \/ mode = "marking" /\ (x \notin mark_bits \/ Awaits(x))
          \/ x \in marking_bits
          \/ \A c \in refs[x] : age[c] = RVALUE_OLD_AGE \/ c \in uncollectible
      BY <2>1 DEF GcInv, OldRefersToOld, RVALUE_OLD_P
    <2> QED BY <1>1, <1>2, <1>3, <1>5, <1>6, <2>1, <2>2, <2>3
  <1> QED BY <1>2, <1>8, <1>9, <1>10, <1>11, <1>12, <1>13, <1>14, <1>15, <1>16
    DEF GcInv, TypeOK
-----------------------------------------------------------------------------
(* The theorems. *)

\* Every step keeps the invariant.
LEMMA NextGcInv == GcInv /\ [Next]_vars => GcInv'
  <1> SUFFICES ASSUME GcInv, [Next]_vars PROVE GcInv'
    OBVIOUS
  <1>1. CASE UNCHANGED vars
    <2>1. UNCHANGED <<objects, refs, roots, wb_unprotected, age, mark_bits, marking_bits,
                      uncollectible, has_remembered, has_shady, mark_stack, old_objects>>
          /\ UNCHANGED <<mode, minor, incremental, during_gc, pass, pages_left, todo>>
      BY <1>1 DEF vars, heap, bits, flags
    <2>2. TypeOK' /\ Phases'
      BY <2>1 DEF GcInv, TypeOK, HeapTypeOK, BitsTypeOK, FlagsTypeOK, Phases
    <2>3. Kept' = Kept /\ OldMarked' = OldMarked /\ Reachable' = Reachable
      BY <2>1 DEF Kept, Garbage, OldMarked, RVALUE_OLD_P, Reachable, Closed
    <2>4. FreeSlotsAreClean' /\ Closed(Kept)' /\ BitmapsAgree' /\ RememberedSet'
      BY <2>1, <2>3 DEF GcInv, FreeSlotsAreClean, Closed, BitmapsAgree, RememberedSet,
         RVALUE_OLD_P, PagesOf, Ahead
    <2>5. OldIsUncollectible' /\ OldCount' /\ MarkedIsReachable'
      BY <2>1, <2>3 DEF GcInv, OldIsUncollectible, OldCount, MarkedIsReachable, RVALUE_OLD_P
    <2>6. MarkedIsClosed' /\ OldRefersToOld'
      BY <2>1, <2>3 DEF GcInv, MarkedIsClosed, OldRefersToOld, Awaits, Ahead, RVALUE_OLD_P
    <2> QED BY <2>2, <2>4, <2>5, <2>6 DEF GcInv
  <1>2. CASE Collect
    <2>1. ASSUME NEW full \in BOOLEAN, NEW immediate_mark \in BOOLEAN,
                 gc_start(full, immediate_mark)
          PROVE  GcInv'
      BY <2>1, StartKeeps
    <2>2. ASSUME NEW p \in Pages, RememberedPage(p) \/ ShadyPage(p) \/ gc_page_sweep(p)
          PROVE  GcInv'
      BY <2>2, RememberedPageKeeps, ShadyPageKeeps, PageSweepKeeps
    <2>3. ASSUME NEW o \in Slot, VisitPageObject(o) \/ gc_mark_stacked_objects(o)
          PROVE  GcInv'
      BY <2>3, VisitPageObjectKeeps, StackedObjectKeeps
    <2>4. CASE MarkRoots \/ gc_marks_finish \/ gc_sweep_start
      BY <2>4, MarkRootsKeeps, MarksFinishKeeps, SweepStartKeeps
    <2> QED BY <1>2, <2>1, <2>2, <2>3, <2>4 DEF Collect
  <1>3. CASE Program
    <2>1. ASSUME NEW a \in Slot, NEW b \in Slot,
                 rb_obj_write(a, b) \/ rb_gc_writebarrier_remember(a, b)
          PROVE  GcInv'
      BY <2>1, ObjWriteKeeps, WritebarrierRememberKeeps
    <2>2. ASSUME NEW a \in Slot, NEW b \in Slot, ReadReference(a, b) \/ ClearReference(a, b)
          PROVE  GcInv'
      <3>1. ~during_gc /\ UNCHANGED <<objects, wb_unprotected, bits, flags>>
        BY <2>2 DEF ReadReference, ClearReference
      <3>2. /\ refs' \in [Slot -> SUBSET Slot]
            /\ \A o \in Slot : refs'[o] \subseteq refs[o]
        BY <2>2 DEF ReadReference, ClearReference, GcInv, TypeOK, HeapTypeOK
      <3>3. roots' \subseteq Kept
        BY <2>2 DEF ReadReference, ClearReference, GcInv, Closed
      <3> QED BY <3>1, <3>2, <3>3, ForgetKeeps
    <2>3. ASSUME NEW o \in Slot, DropRoot(o) PROVE GcInv'
      <3>1. /\ ~during_gc /\ UNCHANGED <<objects, wb_unprotected, bits, flags>>
            /\ refs' = refs /\ roots' \subseteq Kept
        BY <2>3 DEF DropRoot, GcInv, Closed
      <3>2. refs' \in [Slot -> SUBSET Slot] /\ \A x \in Slot : refs'[x] \subseteq refs[x]
        BY <3>1 DEF GcInv, TypeOK, HeapTypeOK
      <3> QED BY <3>1, <3>2, ForgetKeeps
    <2>4. ASSUME NEW o \in Slot, rb_gc_writebarrier_unprotect(o) \/ rb_gc_force_recycle(o)
          PROVE  GcInv'
      BY <2>4, UnprotectKeeps, ForceRecycleKeeps
    <2>5. ASSUME NEW o \in Slot, NEW wb_protected \in BOOLEAN, newobj_of(o, wb_protected)
          PROVE  GcInv'
      BY <2>5, NewobjKeeps
    <2> QED BY <1>3, <2>1, <2>2, <2>3, <2>4, <2>5 DEF Program
  <1> QED BY <1>1, <1>2, <1>3 DEF Next

\* The inductive invariant holds in every state of the collector.
THEOREM GcInvariance == Spec => []GcInv
  BY InitGcInv, NextGcInv, PTL DEF Spec

\* Type correctness of the heap, the bitmaps and the flags of the collector.
THEOREM GcTypeCorrect == Spec => []TypeOK
  <1>1. GcInv => TypeOK
    BY DEF GcInv
  <1> QED BY <1>1, GcInvariance, PTL

\* Whatever the program writes between the steps of an incremental marking or of a
\* lazy sweep, no object that it can get at is freed by gc_page_sweep: what is kept
\* holds the roots and is closed under references.
THEOREM LiveObjects == Spec => []LiveObjectsSurvive
  <1>1. GcInv => LiveObjectsSurvive
    <2> SUFFICES ASSUME GcInv PROVE Reachable \subseteq objects
      BY DEF LiveObjectsSurvive
    <2>1. Closed(Kept) /\ Kept \in SUBSET Slot
      BY DEF GcInv, Kept, TypeOK, HeapTypeOK
    <2>2. Reachable \subseteq Kept
      BY <2>1, ReachableLeast
    <2> QED BY <2>2 DEF Kept
  <1> QED BY <1>1, GcInvariance, PTL

\* The write barriers of an incremental marking (gc_writebarrier_incremental,
\* rb_gc_writebarrier_remember) keep protected black objects from referring to white ones.
THEOREM NoBlackToWhiteReferences == Spec => []NoBlackToWhite
  <1>1. GcInv => NoBlackToWhite
    <2> SUFFICES ASSUME GcInv, incremental, ~during_gc, NEW a \in objects \ wb_unprotected,
                        RVALUE_BLACK_P(a)
                 PROVE  refs[a] \subseteq mark_bits
      BY DEF NoBlackToWhite
    <2>1. /\ mode = "marking" /\ marking_bits = mark_stack
          /\ Awaits(a) <=> a \in mark_stack \/ (incremental /\ a \in wb_unprotected)
      BY Running
    <2> QED BY <2>1 DEF GcInv, MarkedIsClosed, RVALUE_BLACK_P
  <1> QED BY <1>1, GcInvariance, PTL

\* An old object refers to old, remembered or uncollectible objects only, or is
\* remembered itself: a minor collection, which does not look at the others, misses none.
THEOREM OldToYoung == Spec => []OldToYoungIsRemembered
  <1>1. GcInv => OldToYoungIsRemembered
    <2>1. Kept = objects \ Garbage
      BY DEF Kept
    <2> QED BY <2>1 DEF GcInv, OldRefersToOld, OldToYoungIsRemembered
  <1> QED BY <1>1, GcInvariance, PTL

\* A full marking that is not interrupted marks what the program can get at, and
\* nothing else.
THEOREM FullMarking == Spec => []FullMarkingIsExact
  <1>1. GcInv => FullMarkingIsExact
    <2> SUFFICES ASSUME GcInv, pass = "stack", ~minor, ~incremental
                 PROVE  /\ mark_bits \subseteq Reachable
                        /\ mark_stack = {} => mark_bits = Reachable
      BY DEF FullMarkingIsExact
    <2>1. mark_bits \subseteq Reachable
      BY DEF GcInv, MarkedIsReachable
    <2>2. ASSUME mark_stack = {} PROVE Reachable \subseteq mark_bits
      <3>1. mode = "marking" /\ todo = {}
        BY DEF GcInv, Phases
      <3>2. \A a : ~Awaits(a)
        BY <2>2, <3>1 DEF Awaits
      <3>3. Closed(mark_bits)
        BY <3>1, <3>2 DEF GcInv, MarkedIsClosed, Closed
      <3>4. mark_bits \in SUBSET Slot
        BY DEF GcInv, TypeOK, BitsTypeOK
      <3> QED BY <3>3, <3>4, ReachableLeast
    <2> QED BY <2>1, <2>2
  <1> QED BY <1>1, GcInvariance, PTL

\* The four bitmaps, the ages, the page flags and rgengc.old_objects agree, and a free
\* slot is clean when newobj_of takes it.
THEOREM BitmapsAndCounters == Spec => []BitsAgree
  <1>1. GcInv => BitsAgree
    <2> SUFFICES ASSUME GcInv PROVE BitsAgree
      OBVIOUS
    <2>1. (wb_unprotected \cup marking_bits \cup mark_stack) \subseteq objects
      BY DEF GcInv, FreeSlotsAreClean, TypeOK, HeapTypeOK, BitsTypeOK
    <2>2. \A o \in mark_bits \ objects : mode = "sweeping" /\ \E p \in pages_left : o \in p
      BY DEF GcInv, FreeSlotsAreClean, TypeOK, BitsTypeOK, Ahead
    <2>3. ASSUME mode # "marking"
          PROVE  /\ uncollectible \subseteq mark_bits
                 /\ \A o \in uncollectible : RVALUE_OLD_P(o) \/ o \in wb_unprotected
                 /\ \A o \in marking_bits : RVALUE_OLD_P(o)
                 /\ PagesOf(marking_bits) \subseteq has_remembered
                 /\ PagesOf(uncollectible \cap wb_unprotected) \subseteq has_shady
                 /\ mark_stack = {}
      <3>1. ~incremental
        BY <2>3 DEF GcInv, Phases
      <3> QED BY <2>3, <3>1 DEF GcInv, BitmapsAgree, RememberedSet
    <2>4. old_objects = Cardinality({o \in objects \cap mark_bits : RVALUE_OLD_P(o)})
      BY DEF GcInv, OldCount, OldMarked
    <2>5. \A o \in wb_unprotected : age[o] = 0
      BY DEF GcInv, BitmapsAgree
    <2> QED BY <2>1, <2>2, <2>3, <2>4, <2>5 DEF BitsAgree
  <1> QED BY <1>1, GcInvariance, PTL
=============================================================================
