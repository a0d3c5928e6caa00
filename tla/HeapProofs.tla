----------------------------- MODULE HeapProofs -----------------------------
(* Theorems about Heap for every number of cells, every limit and every    *)
(* threshold.                                                              *)
EXTENDS Heap, FiniteSetTheorems, TLAPS

\* A set that holds S and what its objects outside Black refer to holds all
\* that is reachable from S.
LEMMA ReachIsLeast ==
    ASSUME NEW refs, NEW S, NEW Black, NEW X \in SUBSET Objects, S \subseteq X,
           \A p \in X \ Black : refs[p] \subseteq X
    PROVE  Reach(refs, S, Black) \subseteq X
<1> DEFINE Y == X \ S
<1>1. Y \in SUBSET (Objects \ S) /\ S \cup Y = X
  OBVIOUS
<1>2. SUFFICES ASSUME NEW o \in Reach(refs, S, Black) PROVE o \in S \cup Y
  BY <1>1
<1>3. \A p \in (S \cup Y) \ Black : refs[p] \subseteq S \cup Y
  BY <1>1
<1> QED
  BY <1>1, <1>3 DEF Reach

LEMMA ReachHasSource ==
    ASSUME NEW refs, NEW S \in SUBSET Objects, NEW Black
    PROVE  S \subseteq Reach(refs, S, Black) /\ Reach(refs, S, Black) \subseteq Objects
  BY DEF Reach

LEMMA ReachIsClosed ==
    ASSUME NEW refs \in [Objects -> SUBSET Objects], NEW S, NEW Black,
           NEW p \in Reach(refs, S, Black) \ Black
    PROVE  refs[p] \subseteq Reach(refs, S, Black)
<1>1. SUFFICES ASSUME NEW o \in refs[p], NEW Y \in SUBSET (Objects \ S),
                      \A q \in (S \cup Y) \ Black : refs[q] \subseteq S \cup Y
               PROVE  o \in S \cup Y
  BY DEF Reach
<1>2. p \in S \cup Y
  BY <1>1 DEF Reach
<1> QED
  BY <1>1, <1>2

-----------------------------------------------------------------------------
(* Records of type HeapType                                                *)

\* An update of one field by a value of its type.
LEMMA FieldUpdates ==
    ASSUME NEW g \in HeapType
    PROVE  /\ \A x \in SUBSET Objects :
                 /\ [g EXCEPT !.objects = x] \in HeapType
                 /\ [g EXCEPT !.pool = x] \in HeapType
                 /\ [g EXCEPT !.marked = x] \in HeapType
                 /\ [g EXCEPT !.gray = x] \in HeapType
                 /\ [g EXCEPT !.old = x] \in HeapType
                 /\ [g EXCEPT !.remembered = x] \in HeapType
           /\ \A x \in [Objects -> SUBSET Objects] :
                 /\ [g EXCEPT !.behind = x] \in HeapType
                 /\ [g EXCEPT !.refs = x] \in HeapType
           /\ \A x \in [Objects -> {0, 1}] : [g EXCEPT !.age = x] \in HeapType
           /\ \A x \in 1 .. MaxCells + 1 : [g EXCEPT !.fresh = x] \in HeapType
           /\ \A x \in Nat :
                 /\ [g EXCEPT !.bytes = x] \in HeapType
                 /\ [g EXCEPT !.oldBytes = x] \in HeapType
                 /\ [g EXCEPT !.nextYoung = x] \in HeapType
                 /\ [g EXCEPT !.nextFull = x] \in HeapType
                 /\ [g EXCEPT !.sinceFull = x] \in HeapType
<1>1. \A x \in SUBSET Objects :
         /\ [g EXCEPT !.objects = x] \in HeapType
         /\ [g EXCEPT !.pool = x] \in HeapType
         /\ [g EXCEPT !.marked = x] \in HeapType
         /\ [g EXCEPT !.gray = x] \in HeapType
         /\ [g EXCEPT !.old = x] \in HeapType
         /\ [g EXCEPT !.remembered = x] \in HeapType
  BY DEF HeapType
<1>2. \A x \in [Objects -> SUBSET Objects] :
         /\ [g EXCEPT !.behind = x] \in HeapType
         /\ [g EXCEPT !.refs = x] \in HeapType
  BY DEF HeapType
<1>3. \A x \in [Objects -> {0, 1}] : [g EXCEPT !.age = x] \in HeapType
  BY DEF HeapType
<1>4. \A x \in 1 .. MaxCells + 1 : [g EXCEPT !.fresh = x] \in HeapType
  BY DEF HeapType
<1>5. \A x \in Nat :
         /\ [g EXCEPT !.bytes = x] \in HeapType
         /\ [g EXCEPT !.oldBytes = x] \in HeapType
         /\ [g EXCEPT !.nextYoung = x] \in HeapType
         /\ [g EXCEPT !.nextFull = x] \in HeapType
         /\ [g EXCEPT !.sinceFull = x] \in HeapType
  BY DEF HeapType
<1> QED
  BY <1>1, <1>2, <1>3, <1>4, <1>5

-----------------------------------------------------------------------------
(* The heap as stop-the-world collections keep it                          *)

\* No collection is under way, nothing is marked, and all that the program or
\* the remembered set can reach is on the list.
Sound(h, r) ==
    /\ h \in HeapType
    /\ r \in SUBSET Objects
    /\ h.state = "IDLE"
    /\ h.marked = {} /\ h.gray = {}
    /\ h.remembered \subseteq h.old
    /\ h.refs[StaticMethod] = {}
    /\ StaticMethod \in h.objects \cup h.pool
    /\ Reach(h.refs, r \cup h.remembered, {}) \subseteq h.objects

\* The inductive invariant.
HeapInv == ~incremental => Sound(heap, roots)

LEMMA CountsAreNatural ==
    ASSUME NEW S \in SUBSET Objects PROVE Cardinality(S) \in Nat
<1>1. IsFiniteSet(Cells)
  BY HeapAssumption, FS_Interval DEF Cells
<1>2. IsFiniteSet(Objects)
  BY <1>1, FS_AddElement DEF Objects
<1> QED
  BY <1>2, FS_Subset, FS_CardinalityType

\* A heap of which only the references of unreachable objects change, or the
\* counters, stays sound: the general form of every argument below.  X is what
\* may be reachable now.
LEMMA SoundByClosure ==
    ASSUME NEW h \in HeapType, NEW r \in SUBSET Objects,
           NEW X \in SUBSET h.objects,
           h.state = "IDLE", h.marked = {}, h.gray = {},
           h.remembered \subseteq h.old,
           h.refs[StaticMethod] = {},
           StaticMethod \in h.objects \cup h.pool,
           r \cup h.remembered \subseteq X,
           \A p \in X : h.refs[p] \subseteq X
    PROVE  Sound(h, r)
<1>1. X \in SUBSET Objects
  BY DEF HeapType
<1>2. Reach(h.refs, r \cup h.remembered, {}) \subseteq X
  BY <1>1, ReachIsLeast
<1> QED
  BY <1>2 DEF Sound

\* The bookkeeping touches the remembered set and the counters only.
SameButBookkeeping(h, g, mode) ==
    /\ g \in HeapType
    /\ g.state = h.state /\ g.marked = h.marked /\ g.gray = h.gray
    /\ g.objects = h.objects /\ g.pool = h.pool /\ g.old = h.old
    /\ g.refs = h.refs
    /\ g.remembered = IF mode = "FULL" THEN {} ELSE h.remembered \cap h.old

LEMMA EndCollectionKeeps ==
    ASSUME NEW h \in HeapType, NEW mode \in {"YOUNG", "FULL"}
    PROVE  SameButBookkeeping(h, EndCollection(h, mode), mode)
<1> DEFINE k == [h EXCEPT !.remembered = IF mode = "FULL" THEN {} ELSE @ \cap h.old,
                          !.sinceFull = IF mode = "FULL" THEN 0 ELSE @ + 1]
<1>1. k \in HeapType
  <2> DEFINE rem == IF mode = "FULL" THEN {} ELSE h.remembered \cap h.old
             since == IF mode = "FULL" THEN 0 ELSE h.sinceFull + 1
  <2>1. rem \in SUBSET Objects
    BY DEF HeapType
  <2>2. since \in Nat
    BY DEF HeapType
  <2>3. k = [h EXCEPT !.remembered = rem, !.sinceFull = since]
    OBVIOUS
  <2> HIDE DEF rem, since, k
  <2> QED
    BY <2>1, <2>2, <2>3 DEF HeapType
<1>2. /\ k.state = h.state /\ k.marked = h.marked /\ k.gray = h.gray
      /\ k.objects = h.objects /\ k.pool = h.pool /\ k.old = h.old
      /\ k.refs = h.refs
      /\ k.remembered = IF mode = "FULL" THEN {} ELSE h.remembered \cap h.old
  BY DEF HeapType
<1> HIDE DEF k
<1>3. EndCollection(h, mode) = RefreshAccounting(k)
  BY DEF EndCollection, k
<1> DEFINE oldCount == Cardinality(k.objects \cap k.old)
           youngCount == Cardinality(k.objects \ k.old)
<1>4. oldCount \in Nat /\ youngCount \in Nat
  BY <1>1, CountsAreNatural DEF HeapType
<1> HIDE DEF oldCount, youngCount
<1>5. /\ Larger(BaseYoung, 2 * youngCount + SlackYoung) \in Nat
      /\ Larger(BaseFull, 2 * oldCount + SlackFull) \in Nat
      /\ oldCount + youngCount \in Nat
  BY <1>4, HeapAssumption DEF Larger
<1>6. RefreshAccounting(k) =
        [k EXCEPT !.bytes = oldCount + youngCount,
                  !.oldBytes = oldCount,
                  !.nextYoung = Larger(BaseYoung, 2 * youngCount + SlackYoung),
                  !.nextFull = Larger(BaseFull, 2 * oldCount + SlackFull)]
  BY DEF RefreshAccounting, oldCount, youngCount
<1> HIDE DEF Larger
<1>7. RefreshAccounting(k) \in HeapType
  <2> DEFINE young == Larger(BaseYoung, 2 * youngCount + SlackYoung)
             full == Larger(BaseFull, 2 * oldCount + SlackFull)
             total == oldCount + youngCount
             k1 == [k EXCEPT !.bytes = total]
             k2 == [k1 EXCEPT !.oldBytes = oldCount]
             k3 == [k2 EXCEPT !.nextYoung = young]
             k4 == [k3 EXCEPT !.nextFull = full]
  <2>1. RefreshAccounting(k) = k4
    BY <1>6
  <2>2. young \in Nat /\ full \in Nat /\ total \in Nat
    BY <1>5
  <2> HIDE DEF young, full, total
  <2>3. k1 \in HeapType
    BY <1>1, <2>2, FieldUpdates
  <2> HIDE DEF k1
  <2>4. k2 \in HeapType
    BY <1>4, <2>3, FieldUpdates
  <2> HIDE DEF k2
  <2>5. k3 \in HeapType
    BY <2>2, <2>4, FieldUpdates
  <2> HIDE DEF k3
  <2>6. k4 \in HeapType
    BY <2>2, <2>5, FieldUpdates
  <2> QED
    BY <2>1, <2>6
<1>8. /\ RefreshAccounting(k).state = k.state /\ RefreshAccounting(k).marked = k.marked
      /\ RefreshAccounting(k).gray = k.gray /\ RefreshAccounting(k).objects = k.objects
      /\ RefreshAccounting(k).pool = k.pool /\ RefreshAccounting(k).old = k.old
      /\ RefreshAccounting(k).refs = k.refs /\ RefreshAccounting(k).remembered = k.remembered
  BY <1>1, <1>6 DEF HeapType
<1> QED
  BY <1>2, <1>3, <1>7, <1>8 DEF SameButBookkeeping

\* What a collection starts from, and what it leaves: the traced objects, and
\* in a young collection the old ones.
Sources(h, r, mode) == IF mode = "YOUNG" THEN r \cup h.remembered ELSE r

Collected(h, r, mode, g) ==
    LET M == Reach(h.refs, Sources(h, r, mode), {})
    IN  /\ g \in HeapType
        /\ g.state = "IDLE" /\ g.marked = {} /\ g.gray = {}
        /\ M \subseteq g.objects
        /\ g.objects = M \cup (h.objects \cap Spared(h, mode))
        /\ g.objects \cup g.pool = h.objects \cup h.pool
        /\ g.remembered = IF mode = "FULL" THEN {} ELSE h.remembered
        /\ h.old \cap g.objects \subseteq g.old
        /\ \A o \in Objects : g.refs[o] \in {h.refs[o], {}}
        /\ \A o \in g.objects : g.refs[o] = h.refs[o]

LEMMA CollectGarbageCollects ==
    ASSUME NEW h, NEW r, Sound(h, r), NEW mode \in {"YOUNG", "FULL"}
    PROVE  Collected(h, r, mode, CollectGarbage(h, r, mode))
<1> DEFINE S == Sources(h, r, mode)
           M == Reach(h.refs, S, {})
           rooted == Mark(h, r)
           grayed == IF mode = "YOUNG" THEN MarkRemembered(rooted) ELSE rooted
           traced == Trace(grayed)
           kept == M \cup (h.objects \cap Spared(h, mode))
           aged == Survive(traced, M)
           swept == Destroy(aged, h.objects \ kept)
           swept2 == [swept EXCEPT !.objects = kept]
<1>1. /\ h \in HeapType /\ r \in SUBSET Objects /\ h.marked = {} /\ h.gray = {}
      /\ h.state = "IDLE" /\ h.remembered \subseteq h.old
      /\ h.refs \in [Objects -> SUBSET Objects]
      /\ h.remembered \subseteq Objects
  BY DEF Sound, HeapType
<1>s. S = IF mode = "YOUNG" THEN r \cup h.remembered ELSE r
  BY DEF Sources
<1>2. S \in SUBSET Objects /\ M \subseteq Objects /\ S \subseteq M
  BY <1>1, <1>s, ReachHasSource
<1>3. M \subseteq h.objects
  <2> DEFINE R == Reach(h.refs, r \cup h.remembered, {})
  <2>1. R \in SUBSET Objects /\ S \subseteq R
    BY <1>1, <1>s, ReachHasSource
  <2>2. \A p \in R \ {} : h.refs[p] \subseteq R
    BY <1>1, ReachIsClosed
  <2>3. R \subseteq h.objects
    BY DEF Sound
  <2> HIDE DEF S, R
  <2>4. M \subseteq R
    BY <2>1, <2>2, ReachIsLeast
  <2> QED
    BY <2>3, <2>4
<1>4. grayed = [h EXCEPT !.marked = S, !.gray = S]
  <2>1. rooted = [h EXCEPT !.marked = r, !.gray = r]
    BY <1>1 DEF Mark, HeapType
  <2>2. CASE mode = "YOUNG"
    <3>1. /\ rooted.remembered = h.remembered /\ rooted.old = h.old
          /\ rooted.marked = r /\ rooted.gray = r
      BY <1>1, <2>1 DEF HeapType
    <3>2. rooted.marked \cup (rooted.remembered \cap rooted.old) = S
      BY <1>1, <1>s, <2>2, <3>1
    <3>3. rooted.gray \cup ((rooted.remembered \cap rooted.old) \ rooted.marked) = S
      BY <1>1, <1>s, <2>2, <3>1
    <3> HIDE DEF rooted, S
    <3>4. grayed = [rooted EXCEPT !.marked = S, !.gray = S]
      BY <2>2, <3>2, <3>3 DEF Mark, MarkRemembered
    <3> QED
      BY <1>1, <2>1, <3>4 DEF HeapType
  <2>3. CASE mode = "FULL"
    BY <1>s, <2>1, <2>3
  <2> QED
    BY <2>2, <2>3
<1>5. traced = [h EXCEPT !.marked = M, !.gray = {}]
  <2> HIDE DEF S
  <2>1. /\ grayed.marked = S /\ grayed.gray = S /\ grayed.refs = h.refs
    BY <1>1, <1>4 DEF HeapType
  <2>2. S \cup Reach(grayed.refs, grayed.gray, grayed.marked \ grayed.gray) = M
    BY <2>1, <1>2
  <2> HIDE DEF M, grayed
  <2>3. traced = [grayed EXCEPT !.marked = M, !.gray = {}]
    BY <2>1, <2>2 DEF Trace
  <2> QED
    BY <2>3, <1>4, <1>1 DEF HeapType
<1>6. Sweep(traced, mode) = swept2
  <2> HIDE DEF M
  <2>1. traced.objects = h.objects /\ traced.marked = M /\ traced.old = h.old
    BY <1>1, <1>5 DEF HeapType
  <2>2. traced.objects \cap traced.marked = M /\ Spared(traced, mode) = Spared(h, mode)
    BY <2>1, <1>3 DEF Spared
  <2> HIDE DEF traced
  <2> QED
    BY <2>1, <2>2 DEF Sweep
<1>7. CollectGarbage(h, r, mode) = EndCollection(swept2, mode)
  BY <1>6 DEF CollectGarbage
<1> DEFINE gone == h.objects \ kept
<1>8. kept \in SUBSET Objects /\ gone \in SUBSET Objects /\ M \subseteq kept
  BY <1>1, <1>2 DEF HeapType, Spared
<1>9. /\ swept2 \in HeapType
      /\ swept2.state = "IDLE" /\ swept2.marked = {} /\ swept2.gray = {}
      /\ swept2.objects = kept /\ swept2.pool = h.pool \cup gone
      /\ swept2.refs = [o \in Objects |-> IF o \in gone THEN {} ELSE h.refs[o]]
      /\ swept2.old = (h.old \cup {o \in M : h.age[o] = 1}) \ gone
      /\ swept2.remembered = h.remembered \ gone
  <2> HIDE DEF M, kept
  <2> DEFINE grown == {o \in M : h.age[o] = 1}
             ages == [o \in Objects |-> IF o \in M THEN 1 ELSE h.age[o]]
  <2>0. /\ traced \in HeapType
        /\ traced.marked = M /\ traced.gray = {}
        /\ traced.state = "IDLE" /\ traced.pool = h.pool /\ traced.refs = h.refs
        /\ traced.old = h.old /\ traced.age = h.age
        /\ traced.remembered = h.remembered
    <3> DEFINE h1 == [h EXCEPT !.marked = M]
    <3>1. traced = [h1 EXCEPT !.gray = {}]
      BY <1>5
    <3>2. h1 \in HeapType
      BY <1>1, <1>2, FieldUpdates
    <3> HIDE DEF h1, traced
    <3>3. traced \in HeapType
      BY <3>1, <3>2, FieldUpdates
    <3>4. /\ traced.marked = M /\ traced.gray = {}
          /\ traced.state = h.state /\ traced.pool = h.pool /\ traced.refs = h.refs
          /\ traced.old = h.old /\ traced.age = h.age
          /\ traced.remembered = h.remembered
      BY <1>1, <1>5 DEF HeapType
    <3> QED
      BY <1>1, <3>3, <3>4
  <2> HIDE DEF traced
  <2>1. aged = [traced EXCEPT !.marked = traced.marked \ M,
                              !.old = h.old \cup grown,
                              !.age = ages]
    BY <2>0 DEF Survive
  <2>a. traced.marked \ M = {}
    BY <2>0
  <2>b. grown \in SUBSET Objects /\ ages \in [Objects -> {0, 1}]
    BY <1>1, <1>2 DEF HeapType
  <2> HIDE DEF grown, ages
  <2>c. h.old \cup grown \in SUBSET Objects
    BY <1>1, <2>b DEF HeapType
  <2>d. aged = [traced EXCEPT !.marked = {}, !.old = h.old \cup grown, !.age = ages]
    BY <2>1, <2>a
  <2>e. aged \in HeapType
    <3> DEFINE t1 == [traced EXCEPT !.marked = {}]
               t2 == [t1 EXCEPT !.old = h.old \cup grown]
               t3 == [t2 EXCEPT !.age = ages]
    <3>1. aged = t3
      BY <2>d
    <3>2. t1 \in HeapType
      BY <2>0, FieldUpdates
    <3> HIDE DEF t1
    <3>3. t2 \in HeapType
      BY <2>c, <3>2, FieldUpdates
    <3> HIDE DEF t2, aged
    <3>4. t3 \in HeapType
      BY <2>b, <3>3, FieldUpdates
    <3> QED
      BY <3>1, <3>4
  <2>2. /\ aged \in HeapType /\ aged.marked = {} /\ aged.gray = {}
        /\ aged.state = "IDLE" /\ aged.pool = h.pool /\ aged.refs = h.refs
        /\ aged.old = h.old \cup {o \in M : h.age[o] = 1}
        /\ aged.remembered = h.remembered
    BY <2>0, <2>d, <2>e DEF HeapType, grown
  <2> HIDE DEF aged, gone
  <2>3. swept = Destroy(aged, gone)
    BY DEF gone
  <2> HIDE DEF swept
  <2>4. /\ swept \in HeapType /\ swept.marked = {} /\ swept.gray = {}
        /\ swept.state = "IDLE" /\ swept.pool = h.pool \cup gone
        /\ swept.refs = [o \in Objects |-> IF o \in gone THEN {} ELSE h.refs[o]]
        /\ swept.old = (h.old \cup {o \in M : h.age[o] = 1}) \ gone
        /\ swept.remembered = h.remembered \ gone
    BY <1>8, <2>2, <2>3 DEF Destroy, HeapType
  <2> QED
    BY <1>8, <2>4 DEF HeapType
<1> HIDE DEF swept2
<1>a. mode \in {"YOUNG", "FULL"}
  OBVIOUS
<1> DEFINE g == CollectGarbage(h, r, mode)
<1> HIDE DEF kept, gone
<1>10. /\ g \in HeapType
       /\ g.state = "IDLE" /\ g.marked = {} /\ g.gray = {}
       /\ g.objects = kept /\ g.pool = h.pool \cup gone
       /\ g.refs = swept2.refs /\ g.old = swept2.old
       /\ g.remembered = IF mode = "FULL" THEN {} ELSE swept2.remembered \cap swept2.old
  <2>1. g = EndCollection(swept2, mode)
    BY <1>7
  <2> HIDE DEF g, M, S
  <2>2. swept2 \in HeapType
    BY <1>9
  <2>3. SameButBookkeeping(swept2, g, mode)
    BY <1>a, <2>1, <2>2, EndCollectionKeeps
  <2> QED
    BY <1>9, <2>3 DEF SameButBookkeeping
<1>11. kept \cup (h.pool \cup gone) = h.objects \cup h.pool
  BY <1>1, <1>3, <1>8 DEF gone, kept
<1>12. mode = "YOUNG" => swept2.remembered \cap swept2.old = h.remembered
  <2>1. SUFFICES ASSUME mode = "YOUNG" PROVE h.remembered \subseteq h.old \ gone
    BY <1>9
  <2>2. h.remembered \subseteq M
    BY <1>s, <1>2, <2>1
  <2> QED
    BY <1>1, <1>8, <2>2 DEF gone
<1>13. h.old \cap kept \subseteq swept2.old
  BY <1>9 DEF gone
<1>14. /\ \A o \in Objects : g.refs[o] \in {h.refs[o], {}}
       /\ \A o \in kept : g.refs[o] = h.refs[o]
  <2> HIDE DEF g
  <2>1. \A o \in Objects : g.refs[o] = IF o \in gone THEN {} ELSE h.refs[o]
    BY <1>9, <1>10
  <2>2. \A o \in kept : o \in Objects /\ o \notin gone
    BY <1>8 DEF gone
  <2> QED
    BY <2>1, <2>2
<1> HIDE DEF g, gone, kept, M
<1>15. M \subseteq kept
  BY <1>8
<1> QED
  BY <1>10, <1>11, <1>12, <1>13, <1>14, <1>15 DEF Collected, g, kept, M, S

LEMMA CollectedIsSound ==
    ASSUME NEW h, NEW r, Sound(h, r), NEW mode \in {"YOUNG", "FULL"},
           NEW g, Collected(h, r, mode, g)
    PROVE  Sound(g, r)
<1> DEFINE S == Sources(h, r, mode)
           M == Reach(h.refs, S, {})
<1>1. /\ r \in SUBSET Objects /\ h.remembered \in SUBSET Objects
      /\ h.refs \in [Objects -> SUBSET Objects]
      /\ h.remembered \subseteq h.old
      /\ h.refs[StaticMethod] = {} /\ StaticMethod \in h.objects \cup h.pool
  BY DEF Sound, HeapType
<1>2. /\ S \in SUBSET Objects /\ S = IF mode = "YOUNG" THEN r \cup h.remembered ELSE r
  BY <1>1 DEF Sources
<1>3. S \subseteq M /\ \A p \in M : h.refs[p] \subseteq M
  BY <1>1, <1>2, ReachHasSource, ReachIsClosed
<1> HIDE DEF M, S
<1>4. /\ g \in HeapType
      /\ g.state = "IDLE" /\ g.marked = {} /\ g.gray = {}
      /\ M \subseteq g.objects
      /\ g.objects \cup g.pool = h.objects \cup h.pool
      /\ g.remembered = IF mode = "FULL" THEN {} ELSE h.remembered
      /\ h.old \cap g.objects \subseteq g.old
      /\ \A o \in Objects : g.refs[o] \in {h.refs[o], {}}
      /\ \A o \in g.objects : g.refs[o] = h.refs[o]
  BY DEF Collected, M, S
<1>5. r \cup g.remembered \subseteq M
  BY <1>2, <1>3, <1>4
<1>6. g.remembered \subseteq g.old
  BY <1>1, <1>4, <1>5
<1>7. \A p \in M : g.refs[p] \subseteq M
  BY <1>3, <1>4
<1>8. g.refs[StaticMethod] = {}
  BY <1>1, <1>4 DEF Objects
<1>9. M \in SUBSET g.objects
  BY <1>4
<1> QED
  BY <1>1, <1>4, <1>5, <1>6, <1>7, <1>8, <1>9, SoundByClosure

LEMMA MaybeCollectIsSound ==
    ASSUME NEW h, NEW r, Sound(h, r)
    PROVE  Sound(MaybeCollectGarbage(h, r), r)
<1>1. \A mode \in {"YOUNG", "FULL"} : Sound(CollectGarbage(h, r, mode), r)
  BY CollectGarbageCollects, CollectedIsSound
<1> QED
  BY <1>1 DEF MaybeCollectGarbage

-----------------------------------------------------------------------------
(* Every instruction keeps the heap sound                                  *)

\* What the program or the remembered set can reach is closed.
LEMMA TraceableIsClosed ==
    ASSUME NEW h, NEW r, Sound(h, r)
    PROVE  LET T == Reach(h.refs, r \cup h.remembered, {})
           IN  /\ T \in SUBSET h.objects /\ T \subseteq Objects
               /\ r \cup h.remembered \subseteq T
               /\ \A p \in T : h.refs[p] \subseteq T
<1>1. /\ r \cup h.remembered \in SUBSET Objects
      /\ h.refs \in [Objects -> SUBSET Objects]
  BY DEF Sound, HeapType
<1> DEFINE T == Reach(h.refs, r \cup h.remembered, {})
<1>2. T \subseteq Objects /\ r \cup h.remembered \subseteq T
  BY <1>1, ReachHasSource
<1>3. \A p \in T \ {} : h.refs[p] \subseteq T
  BY <1>1, ReachIsClosed
<1>4. T \in SUBSET h.objects
  BY DEF Sound
<1> QED
  BY <1>2, <1>3, <1>4

\* A new object refers to objects of the stack and to static methods that still
\* exist.
LEMMA AllocateIsSound ==
    ASSUME NEW h, NEW r, Sound(h, r), NEW c \in Cells,
           h.pool \cap Cells # {} \/ c = h.fresh,
           NEW children, children \subseteq r \cup ({StaticMethod} \ h.pool)
    PROVE  Sound(Allocate(h, c, children), r \cup {c})
<1> DEFINE T == Reach(h.refs, r \cup h.remembered, {})
           g == Allocate(h, c, children)
           X == T \cup {c} \cup ({StaticMethod} \ h.pool)
<1>1. /\ h \in HeapType /\ r \in SUBSET Objects
      /\ h.state = "IDLE" /\ h.marked = {} /\ h.gray = {}
      /\ h.remembered \subseteq h.old
      /\ h.refs[StaticMethod] = {} /\ StaticMethod \in h.objects \cup h.pool
  BY DEF Sound
<1>2. /\ T \in SUBSET h.objects /\ T \subseteq Objects
      /\ r \cup h.remembered \subseteq T
      /\ \A p \in T : h.refs[p] \subseteq T
  BY TraceableIsClosed
<1> HIDE DEF T
<1>3. c \in Objects /\ c # StaticMethod /\ StaticMethod \in Objects
  BY HeapAssumption DEF Cells, Objects, StaticMethod
<1>4. children \in SUBSET Objects
  BY <1>1, <1>3
<1>5. /\ g \in HeapType
      /\ g.state = "IDLE" /\ g.marked = {} /\ g.gray = {}
      /\ g.remembered = h.remembered \ {c} /\ g.old = h.old \ {c}
      /\ g.objects = h.objects \cup {c} /\ g.pool = h.pool \ {c}
      /\ g.refs = [h.refs EXCEPT ![c] = children]
  <2> DEFINE behind == [o \in Objects |-> IF o = c THEN h.objects ELSE h.behind[o] \ {c}]
             fresh == IF c = h.fresh THEN h.fresh + 1 ELSE h.fresh
             refs == [h.refs EXCEPT ![c] = children]
             age == [h.age EXCEPT ![c] = 0]
  <2>1. behind \in [Objects -> SUBSET Objects]
    BY <1>1 DEF HeapType
  <2>2. fresh \in 1 .. MaxCells + 1
    BY <1>1, HeapAssumption DEF HeapType, Cells
  <2>3. refs \in [Objects -> SUBSET Objects] /\ age \in [Objects -> {0, 1}]
    BY <1>1, <1>3, <1>4 DEF HeapType
  <2>4. g = [h EXCEPT !.objects = h.objects \cup {c}, !.behind = behind,
                      !.pool = h.pool \ {c}, !.fresh = fresh, !.refs = refs,
                      !.marked = h.marked \ {c}, !.old = h.old \ {c}, !.age = age,
                      !.remembered = h.remembered \ {c}, !.bytes = h.bytes + 1]
    BY <1>1 DEF Allocate, HeapType
  <2> DEFINE objects == h.objects \cup {c}
             pool == h.pool \ {c}
             marked == h.marked \ {c}
             old == h.old \ {c}
             remembered == h.remembered \ {c}
             bytes == h.bytes + 1
  <2>a. /\ objects \in SUBSET Objects /\ pool \in SUBSET Objects
        /\ marked \in SUBSET Objects /\ old \in SUBSET Objects
        /\ remembered \in SUBSET Objects
    BY <1>1, <1>3 DEF HeapType
  <2>b. bytes \in Nat
    BY <1>1 DEF HeapType
  <2>c. g = [h EXCEPT !.objects = objects, !.behind = behind,
                      !.pool = pool, !.fresh = fresh, !.refs = refs,
                      !.marked = marked, !.old = old, !.age = age,
                      !.remembered = remembered, !.bytes = bytes]
    BY <2>4
  <2> HIDE DEF g, behind, fresh, refs, age, objects, pool, marked, old, remembered, bytes
  <2>5. g \in HeapType
    BY <1>1, <2>1, <2>2, <2>3, <2>a, <2>b, <2>c DEF HeapType
  <2>6. g.marked = {}
    BY <1>1, <2>4 DEF HeapType
  <2>7. /\ g.state = h.state /\ g.gray = h.gray
        /\ g.remembered = remembered /\ g.old = old
        /\ g.objects = objects /\ g.pool = pool /\ g.refs = refs
    BY <1>1, <2>c DEF HeapType
  <2> QED
    BY <1>1, <2>5, <2>6, <2>7 DEF remembered, old, objects, pool, refs
<1> HIDE DEF g
<1>6. X \in SUBSET g.objects
  BY <1>1, <1>2, <1>5
<1>7. (r \cup {c}) \cup g.remembered \subseteq X
  BY <1>2, <1>5
<1>8. children \subseteq X
  BY <1>2
<1>9. \A p \in X : g.refs[p] \subseteq X
  <2>1. h.refs \in [Objects -> SUBSET Objects]
    BY <1>1 DEF HeapType
  <2> SUFFICES ASSUME NEW p \in X PROVE g.refs[p] \subseteq X
    OBVIOUS
  <2>2. CASE p = c
    BY <1>3, <1>5, <1>8, <2>1, <2>2
  <2>3. CASE p # c /\ p \in T
    BY <1>2, <1>5, <2>1, <2>3
  <2>4. CASE p # c /\ p = StaticMethod
    BY <1>1, <1>3, <1>5, <2>1, <2>4
  <2> QED
    BY <2>2, <2>3, <2>4
<1>10. g.refs[StaticMethod] = {} /\ StaticMethod \in g.objects \cup g.pool
  <2>1. h.refs \in [Objects -> SUBSET Objects]
    BY <1>1 DEF HeapType
  <2> QED
    BY <1>1, <1>3, <1>5, <2>1
<1>11. r \cup {c} \in SUBSET Objects /\ g.remembered \subseteq g.old
  BY <1>1, <1>3, <1>5
<1> HIDE DEF X
<1>12. Sound(g, r \cup {c})
  BY <1>5, <1>6, <1>7, <1>9, <1>10, <1>11, SoundByClosure
<1> QED
  BY <1>12 DEF g

\* Assignments and removals, with or without the write barrier: references to
\* what was reachable, from what was.
LEMMA RelinkIsSound ==
    ASSUME NEW h, NEW r, Sound(h, r), NEW o \in r, o # StaticMethod,
           NEW children \in SUBSET Objects,
           children \subseteq h.refs[o] \cup r,
           NEW barrier, barrier \subseteq h.old \cap {o},
           NEW g, g = [h EXCEPT !.refs[o] = children,
                                !.remembered = h.remembered \cup barrier]
    PROVE  Sound(g, r)
<1> DEFINE T == Reach(h.refs, r \cup h.remembered, {})
<1>1. /\ h \in HeapType /\ r \in SUBSET Objects
      /\ h.state = "IDLE" /\ h.marked = {} /\ h.gray = {}
      /\ h.remembered \subseteq h.old
      /\ h.refs[StaticMethod] = {} /\ StaticMethod \in h.objects \cup h.pool
      /\ h.refs \in [Objects -> SUBSET Objects]
  BY DEF Sound, HeapType
<1>2. /\ T \in SUBSET h.objects
      /\ r \cup h.remembered \subseteq T
      /\ \A p \in T : h.refs[p] \subseteq T
  BY TraceableIsClosed
<1> HIDE DEF T
<1> DEFINE refs == [h.refs EXCEPT ![o] = children]
<1>3. /\ refs \in [Objects -> SUBSET Objects]
      /\ \A p \in Objects : refs[p] = IF p = o THEN children ELSE h.refs[p]
  BY <1>1
<1> HIDE DEF refs
<1>4. h.remembered \cup barrier \in SUBSET Objects
  BY <1>1 DEF HeapType
<1>5. g = [h EXCEPT !.refs = refs, !.remembered = h.remembered \cup barrier]
  BY <1>1 DEF HeapType, refs
<1>6. /\ g \in HeapType
      /\ g.state = "IDLE" /\ g.marked = {} /\ g.gray = {}
      /\ g.remembered = h.remembered \cup barrier /\ g.old = h.old
      /\ g.objects = h.objects /\ g.pool = h.pool /\ g.refs = refs
  <2> DEFINE h1 == [h EXCEPT !.refs = refs]
             g1 == [h1 EXCEPT !.remembered = h.remembered \cup barrier]
  <2>1. g = g1
    BY <1>5
  <2>2. h1 \in HeapType
    BY <1>1, <1>3, FieldUpdates
  <2> HIDE DEF h1
  <2>3. g1 \in HeapType
    BY <1>4, <2>2, FieldUpdates
  <2>4. /\ g.state = h.state /\ g.marked = h.marked /\ g.gray = h.gray
        /\ g.remembered = h.remembered \cup barrier /\ g.old = h.old
        /\ g.objects = h.objects /\ g.pool = h.pool /\ g.refs = refs
    BY <1>1, <1>5 DEF HeapType
  <2> HIDE DEF g1
  <2> QED
    BY <1>1, <2>1, <2>3, <2>4
<1>7. T \in SUBSET g.objects /\ r \cup g.remembered \subseteq T
  BY <1>2, <1>6
<1>8. \A p \in T : g.refs[p] \subseteq T
  <2>1. T \subseteq Objects
    BY <1>1, <1>2 DEF HeapType
  <2> QED
    BY <1>2, <1>3, <1>6, <2>1
<1>9. g.refs[StaticMethod] = {} /\ StaticMethod \in g.objects \cup g.pool
  BY <1>1, <1>3, <1>6 DEF Objects
<1>10. g.remembered \subseteq g.old
  BY <1>1, <1>6
<1> QED
  BY <1>1, <1>6, <1>7, <1>8, <1>9, <1>10, SoundByClosure

\* gcCollect's first collection leaves exactly what is reachable, and further
\* ones change nothing about that.
Exact(h, r) == h.objects = Reach(h.refs, r, {})

LEMMA CollectedIsExact ==
    ASSUME NEW h, NEW r, Sound(h, r), NEW mode \in {"YOUNG", "FULL"},
           mode = "FULL" \/ (Exact(h, r) /\ h.remembered = {}),
           NEW g, Collected(h, r, mode, g)
    PROVE  Exact(g, r) /\ (h.remembered = {} \/ mode = "FULL" => g.remembered = {})
<1> DEFINE M == Reach(h.refs, r, {})
           N == Reach(g.refs, r, {})
<1>1. /\ r \in SUBSET Objects /\ h.refs \in [Objects -> SUBSET Objects]
  BY DEF Sound, HeapType
<1>2. Sources(h, r, mode) = r
  BY DEF Sources
<1>3. /\ g \in HeapType
      /\ M \subseteq g.objects
      /\ g.objects = M \cup (h.objects \cap Spared(h, mode))
      /\ g.remembered = IF mode = "FULL" THEN {} ELSE h.remembered
      /\ \A o \in g.objects : g.refs[o] = h.refs[o]
  BY <1>2 DEF Collected
<1>4. g.objects = M
  <2>1. CASE mode = "FULL"
    BY <1>3, <2>1 DEF Spared
  <2>2. CASE h.objects = M
    BY <1>3, <2>2
  <2> QED
    BY <2>1, <2>2 DEF Exact
<1>5. /\ M \in SUBSET Objects /\ r \subseteq M
      /\ \A p \in M \ {} : h.refs[p] \subseteq M
  BY <1>1, ReachHasSource, ReachIsClosed
<1>6. g.refs \in [Objects -> SUBSET Objects]
  BY <1>3 DEF HeapType
<1>7. /\ N \in SUBSET Objects /\ r \subseteq N
      /\ \A p \in N \ {} : g.refs[p] \subseteq N
  BY <1>1, <1>6, ReachHasSource, ReachIsClosed
<1>8. N \subseteq M
  <2>1. \A p \in M \ {} : g.refs[p] \subseteq M
    BY <1>3, <1>4, <1>5
  <2>2. \A X \in SUBSET Objects :
           r \subseteq X /\ (\A p \in X \ {} : g.refs[p] \subseteq X) => N \subseteq X
    BY ReachIsLeast
  <2> HIDE DEF M, N
  <2> QED
    BY <1>5, <2>1, <2>2
<1>9. M \subseteq N
  <2>1. \A p \in N \ {} : h.refs[p] \subseteq N
    BY <1>3, <1>4, <1>7, <1>8
  <2>2. \A X \in SUBSET Objects :
           r \subseteq X /\ (\A p \in X \ {} : h.refs[p] \subseteq X) => M \subseteq X
    BY ReachIsLeast
  <2> HIDE DEF M, N
  <2> QED
    BY <1>7, <2>1, <2>2
<1>10. Exact(g, r)
  BY <1>4, <1>8, <1>9 DEF Exact
<1> QED
  BY <1>3, <1>10

LEMMA GcCollectExact ==
    ASSUME NEW h, NEW r, Sound(h, r)
    PROVE  Exact(MaybeCollectGarbage(CollectGarbage(h, r, "FULL"), r), r)
<1> DEFINE g == CollectGarbage(h, r, "FULL")
<1>1. Collected(h, r, "FULL", g)
  BY CollectGarbageCollects
<1> HIDE DEF g
<1>2. Sound(g, r) /\ Exact(g, r) /\ g.remembered = {}
  BY <1>1, CollectedIsSound, CollectedIsExact
<1>3. \A mode \in {"YOUNG", "FULL"} : Exact(CollectGarbage(g, r, mode), r)
  BY <1>2, CollectGarbageCollects, CollectedIsExact
<1>4. Exact(MaybeCollectGarbage(g, r), r)
  BY <1>2, <1>3 DEF MaybeCollectGarbage
<1> QED
  BY <1>4 DEF g

-----------------------------------------------------------------------------
(* The steps                                                               *)

\* While no incremental collection has begun, its step at the beginning of an
\* instruction does nothing.
LEMMA StepIsIdle ==
    ASSUME HeapInv, Run, ~incremental'
    PROVE  ~incremental /\ Sound(heap, roots) /\ Instruction(heap)
<1>1. ~incremental /\ ~(BeginStep(heap).state # "IDLE")
  BY DEF Run
<1>2. Sound(heap, roots)
  BY <1>1 DEF HeapInv
<1>3. heap.state = "IDLE" /\ heap \in HeapType
  BY <1>2 DEF Sound
<1>4. BeginStep(heap) = heap
  <2>1. [heap EXCEPT !.mode = "FULL", !.state = "MARKING"].state = "MARKING"
    BY <1>3 DEF HeapType
  <2>2. MarkRemembered([heap EXCEPT !.mode = "YOUNG", !.state = "MARKING"]).state = "MARKING"
    BY <1>3 DEF MarkRemembered, Mark, HeapType
  <2> QED
    BY <1>1, <1>3, <2>1, <2>2 DEF BeginStep
<1>5. CollectGarbageStep(heap) = heap
  BY <1>3, <1>4 DEF CollectGarbageStep
<1>6. Instruction(heap)
  BY <1>5 DEF Run
<1> QED
  BY <1>1, <1>2, <1>6

LEMMA InstructionIsSound ==
    ASSUME Sound(heap, roots), Instruction(heap)
    PROVE  Sound(heap', roots')
<1>1. /\ heap \in HeapType /\ roots \in SUBSET Objects
      /\ heap.refs \in [Objects -> SUBSET Objects]
  BY DEF Sound, HeapType
<1>2. ASSUME NEW c \in Cells, NEW children \in SUBSET Objects,
             New(heap, c, children) \/ NewSum(heap, c, children)
      PROVE  Sound(heap', roots')
  <2>1. /\ heap.pool \cap Cells # {} \/ c = heap.fresh
        /\ children \subseteq roots \cup ({StaticMethod} \ heap.pool)
        /\ roots' = roots \cup {c}
    BY <1>2 DEF New, NewSum, Create, CanAllocate
  <2>2. Sound(Allocate(heap, c, children), roots')
    BY <2>1, AllocateIsSound
  <2>3. CASE New(heap, c, children)
    BY <2>2, <2>3, MaybeCollectIsSound DEF New
  <2>4. CASE NewSum(heap, c, children)
    BY <2>2, <2>4 DEF NewSum
  <2> QED
    BY <1>2, <2>3, <2>4
<1>3. ASSUME NEW o \in roots \ {StaticMethod}, NEW c \in roots,
             Store(heap, o, c) \/ Push(heap, o, c)
      PROVE  Sound(heap', roots')
  <2> DEFINE children == heap.refs[o] \cup {c}
  <2>1. children \in SUBSET Objects /\ children \subseteq heap.refs[o] \cup roots
    BY <1>1
  <2>2. Link(heap, o, c) = [heap EXCEPT !.refs[o] = children,
                                        !.remembered = heap.remembered \cup {}]
    BY <1>1 DEF Link, HeapType
  <2>3. Sound(Link(heap, o, c), roots)
    <3> HIDE DEF children
    <3>1. {} \subseteq heap.old \cap {o}
      OBVIOUS
    <3> QED
      BY <2>1, <2>2, <3>1, RelinkIsSound
  <2>4. Sound(WriteBarrier(Link(heap, o, c), o, c), roots)
    <3>1. CASE Link(heap, o, c).old # heap.old
      BY <1>1, <3>1 DEF Link, HeapType
    <3>2. CASE o \in heap.old /\ c \notin heap.old /\ Link(heap, o, c).old = heap.old
      <4>1. WriteBarrier(Link(heap, o, c), o, c) =
               [heap EXCEPT !.refs[o] = children,
                            !.remembered = heap.remembered \cup {o}]
        BY <1>1, <3>2 DEF WriteBarrier, Link, HeapType
      <4>2. {o} \subseteq heap.old \cap {o}
        BY <3>2
      <4> HIDE DEF children
      <4> QED
        BY <2>1, <4>1, <4>2, RelinkIsSound
    <3>3. CASE ~(o \in heap.old /\ c \notin heap.old) /\ Link(heap, o, c).old = heap.old
      BY <2>3, <3>3 DEF WriteBarrier
    <3> QED
      BY <3>1, <3>2, <3>3
  <2>5. CASE Store(heap, o, c)
    BY <2>4, <2>5 DEF Store
  <2>6. CASE Push(heap, o, c)
    BY <2>3, <2>6, MaybeCollectIsSound DEF Push
  <2> QED
    BY <1>3, <2>5, <2>6
<1>4. ASSUME NEW o \in roots \ {StaticMethod}, NEW c \in heap.refs[o],
             Unlink(heap, o, c)
      PROVE  Sound(heap', roots')
  <2> DEFINE children == heap.refs[o] \ {c}
  <2>1. children \in SUBSET Objects /\ children \subseteq heap.refs[o] \cup roots
    BY <1>1
  <2>2. /\ heap' = [heap EXCEPT !.refs[o] = children,
                                !.remembered = heap.remembered \cup {}]
        /\ roots' = roots
    BY <1>1, <1>4 DEF Unlink, HeapType
  <2> HIDE DEF children
  <2>3. {} \subseteq heap.old \cap {o}
    OBVIOUS
  <2> QED
    BY <2>1, <2>2, <2>3, RelinkIsSound
<1>5. ASSUME NEW o \in roots, NEW c \in heap.refs[o], Load(heap, c)
      PROVE  Sound(heap', roots')
  <2>1. heap' = heap /\ roots' = roots \cup {c}
    BY <1>5 DEF Load
  <2> DEFINE T == Reach(heap.refs, roots \cup heap.remembered, {})
  <2>2. /\ T \in SUBSET heap.objects
        /\ roots \cup heap.remembered \subseteq T
        /\ \A p \in T : heap.refs[p] \subseteq T
    BY TraceableIsClosed
  <2> HIDE DEF T
  <2>3. (roots \cup {c}) \cup heap.remembered \subseteq T
    BY <2>2
  <2>4. roots \cup {c} \in SUBSET Objects
    BY <1>1
  <2>5. Sound(heap, roots \cup {c})
    BY <1>1, <2>2, <2>3, <2>4, SoundByClosure DEF Sound
  <2> QED
    BY <2>1, <2>5
<1>6. ASSUME NEW o \in roots, Drop(heap, o)
      PROVE  Sound(heap', roots')
  <2>1. heap' = heap /\ roots' = roots \ {o}
    BY <1>6 DEF Drop
  <2> DEFINE T == Reach(heap.refs, roots \cup heap.remembered, {})
  <2>2. /\ T \in SUBSET heap.objects
        /\ roots \cup heap.remembered \subseteq T
        /\ \A p \in T : heap.refs[p] \subseteq T
    BY TraceableIsClosed
  <2> HIDE DEF T
  <2>3. (roots \ {o}) \cup heap.remembered \subseteq T
    BY <2>2
  <2>4. roots \ {o} \in SUBSET Objects
    BY <1>1
  <2>5. Sound(heap, roots \ {o})
    BY <1>1, <2>2, <2>3, <2>4, SoundByClosure DEF Sound
  <2> QED
    BY <2>1, <2>5
<1>7. CASE GcCollect(heap)
  <2>1. Sound(CollectGarbage(heap, roots, "FULL"), roots)
    BY CollectGarbageCollects, CollectedIsSound
  <2> QED
    BY <1>7, <2>1, MaybeCollectIsSound DEF GcCollect
<1>8. CASE Other(heap)
  BY <1>8 DEF Other
<1> QED
  BY <1>2, <1>3, <1>4, <1>5, <1>6, <1>7, <1>8 DEF Instruction

LEMMA HeapInvInit == Init => HeapInv
<1> SUFFICES ASSUME Init PROVE Sound(heap, roots)
  BY DEF HeapInv
<1>1. 0 \in Objects /\ MaxCells + 1 \notin Cells /\ 1 \in 1 .. MaxCells + 1
  BY HeapAssumption DEF Objects, Cells, StaticMethod
<1>2. heap \in HeapType
  <2> DEFINE none == [o \in Objects |-> {}]
             zero == [o \in Objects |-> 0]
  <2>1. none \in [Objects -> SUBSET Objects] /\ zero \in [Objects -> {0, 1}]
    OBVIOUS
  <2>2. BaseYoung \in Nat /\ BaseFull \in Nat /\ {StaticMethod} \in SUBSET Objects
    BY HeapAssumption DEF Objects
  <2> HIDE DEF none, zero
  <2> QED
    BY <1>1, <2>1, <2>2 DEF Init, HeapType, none, zero
<1>3. /\ heap.state = "IDLE" /\ heap.marked = {} /\ heap.gray = {}
      /\ heap.remembered = {} /\ heap.old = {} /\ heap.refs = [o \in Objects |-> {}]
      /\ heap.objects = {StaticMethod} /\ roots = {}
  BY DEF Init
<1>4. heap.refs[StaticMethod] = {}
  BY <1>3 DEF Objects
<1> DEFINE X == {}
<1>5. X \in SUBSET heap.objects /\ roots \cup heap.remembered \subseteq X
      /\ \A p \in X : heap.refs[p] \subseteq X
  BY <1>3
<1> QED
  BY <1>2, <1>3, <1>4, <1>5, SoundByClosure

LEMMA HeapInvNext == HeapInv /\ [Next]_vars => HeapInv'
<1> SUFFICES ASSUME HeapInv, [Next]_vars, ~incremental' PROVE Sound(heap', roots')
  BY DEF HeapInv
<1>1. CASE Run
  BY <1>1, StepIsIdle, InstructionIsSound
<1>2. CASE StepCorrupts
  BY <1>2 DEF StepCorrupts, HeapInv
<1>3. CASE FetchDestroyed
  BY <1>3 DEF FetchDestroyed, HeapInv
<1>4. CASE UNCHANGED vars
  BY <1>4 DEF vars, HeapInv
<1> QED
  BY <1>1, <1>2, <1>3, <1>4 DEF Next

-----------------------------------------------------------------------------

THEOREM HeapInvariant == Spec => []HeapInv
  BY HeapInvInit, HeapInvNext, PTL DEF Spec

\* Stop-the-world collections are safe: until an incremental collection begins,
\* nothing the program or the remembered set can reach has been destroyed.
THEOREM StopTheWorldIsSound == Spec => []StopTheWorldIsSafe
<1>1. HeapInv => StopTheWorldIsSafe
  BY DEF HeapInv, Sound, StopTheWorldIsSafe, Traceable
<1> QED
  BY <1>1, HeapInvariant, PTL

\* No stop-the-world collection leaves a mark behind.
THEOREM NoMarkIsLeft == Spec => []MarksAreCleared
<1>1. HeapInv => MarksAreCleared
  BY DEF HeapInv, Sound, MarksAreCleared
<1> QED
  BY <1>1, HeapInvariant, PTL

\* gcCollect() leaves the objects the program can reach, and no others.
THEOREM GcCollectLeavesNoGarbage == Spec => GcCollectIsExact
<1>1. ASSUME HeapInv, [Next]_vars, GcCollect(heap), ~incremental'
      PROVE  heap'.objects = Reach(heap'.refs, roots', {})
  <2>1. ~incremental
    BY <1>1 DEF Next, Run, StepCorrupts, FetchDestroyed, vars
  <2>2. Sound(heap, roots)
    BY <1>1, <2>1 DEF HeapInv
  <2>3. Exact(heap', roots)
    BY <1>1, <2>2, GcCollectExact DEF GcCollect
  <2> QED
    BY <1>1, <2>3 DEF Exact, GcCollect
<1>2. HeapInv /\ [Next]_vars =>
         [GcCollect(heap) /\ ~incremental' => heap'.objects = Reach(heap'.refs, roots', {})]_vars
  BY <1>1
<1> QED
  BY <1>2, HeapInvariant, PTL DEF Spec, GcCollectIsExact

-----------------------------------------------------------------------------
(* Every heap, also in an incremental collection                           *)

\* Of two objects on the list, one is behind the other.  What was destroyed is
\* not on the list, and cells from fresh on were never used, nor does a sweep
\* stand at one.
Listed(h) ==
    /\ \A o, p \in h.objects : o = p \/ o \in h.behind[p] \/ p \in h.behind[o]
    /\ \A o \in h.objects : o \notin h.behind[o]
    /\ \A o, p \in h.objects : p \in h.behind[o] => h.behind[p] \cap h.objects \subseteq h.behind[o]
    /\ h.objects \cap h.pool = {}
    /\ \A o \in h.objects \cup h.pool : o < h.fresh
    /\ h.sweepAt # Null => h.sweepAt < h.fresh

Heaps == {h \in HeapType : Listed(h) /\ h.oldBytes < h.nextFull}

\* An incremental collection can end one minor collection late.
HeapIsTyped ==
    /\ TypeOK
    /\ heap \in Heaps
    /\ FirstIncremental => heap.sinceFull <= MinorLimit

SameList(h, g) ==
    /\ g.objects = h.objects /\ g.behind = h.behind /\ g.pool = h.pool
    /\ g.fresh = h.fresh /\ g.sweepAt = h.sweepAt

SameCounts(h, g) ==
    /\ g.oldBytes = h.oldBytes /\ g.nextFull = h.nextFull
    /\ g.sinceFull = h.sinceFull /\ g.state = h.state

LEMMA SameListIsListed ==
    ASSUME NEW h, NEW g, Listed(h), SameList(h, g)
    PROVE  Listed(g)
  BY DEF Listed, SameList

LEMMA QuietIsHeap ==
    ASSUME NEW h \in Heaps, NEW g \in HeapType, SameList(h, g), SameCounts(h, g)
    PROVE  g \in Heaps
<1>1. Listed(h) /\ h.oldBytes < h.nextFull
  BY DEF Heaps
<1>2. Listed(g)
  BY <1>1, SameListIsListed
<1> QED
  BY <1>1, <1>2 DEF Heaps, SameCounts

LEMMA MoreUpdates ==
    ASSUME NEW g \in HeapType
    PROVE  /\ \A x \in {"IDLE", "MARKING", "SWEEPING"} : [g EXCEPT !.state = x] \in HeapType
           /\ \A x \in {"YOUNG", "FULL"} : [g EXCEPT !.mode = x] \in HeapType
           /\ \A x \in Objects \cup {Null} :
                 /\ [g EXCEPT !.sweepAt = x] \in HeapType
                 /\ [g EXCEPT !.sweepPrev = x] \in HeapType
<1>1. \A x \in {"IDLE", "MARKING", "SWEEPING"} : [g EXCEPT !.state = x] \in HeapType
  BY DEF HeapType
<1>2. \A x \in {"YOUNG", "FULL"} : [g EXCEPT !.mode = x] \in HeapType
  BY DEF HeapType
<1>3. \A x \in Objects \cup {Null} :
         /\ [g EXCEPT !.sweepAt = x] \in HeapType
         /\ [g EXCEPT !.sweepPrev = x] \in HeapType
  BY DEF HeapType
<1> QED
  BY <1>1, <1>2, <1>3

LEMMA MarkIs ==
    ASSUME NEW h \in HeapType, NEW S \in SUBSET Objects
    PROVE  /\ Mark(h, S) \in HeapType
           /\ SameList(h, Mark(h, S)) /\ SameCounts(h, Mark(h, S)) /\ Mark(h, S).mode = h.mode
<1> DEFINE m == h.marked \cup S
           y == h.gray \cup (S \ h.marked)
           h1 == [h EXCEPT !.marked = m]
           g == [h1 EXCEPT !.gray = y]
<1>1. m \in SUBSET Objects /\ y \in SUBSET Objects
  BY DEF HeapType
<1>2. Mark(h, S) = [h EXCEPT !.marked = m, !.gray = y]
  BY DEF Mark
<1> HIDE DEF m, y
<1>3. Mark(h, S) = g
  BY <1>2
<1>4. h1 \in HeapType
  BY <1>1, FieldUpdates
<1>5. SameList(h, g) /\ SameCounts(h, g) /\ g.mode = h.mode
  BY DEF HeapType, SameList, SameCounts
<1> HIDE DEF h1
<1>6. g \in HeapType
  BY <1>1, <1>4, FieldUpdates
<1> QED
  BY <1>3, <1>5, <1>6

LEMMA TraceIs ==
    ASSUME NEW h \in HeapType
    PROVE  /\ Trace(h) \in HeapType
           /\ SameList(h, Trace(h)) /\ SameCounts(h, Trace(h)) /\ Trace(h).mode = h.mode
<1> DEFINE R == Reach(h.refs, h.gray, h.marked \ h.gray)
           m == h.marked \cup R
           h1 == [h EXCEPT !.marked = m]
           g == [h1 EXCEPT !.gray = {}]
<1>1. R \in SUBSET Objects
  BY DEF Reach
<1>2. Trace(h) = [h EXCEPT !.marked = m, !.gray = {}]
  BY DEF Trace
<1> HIDE DEF R
<1>3. m \in SUBSET Objects
  BY <1>1 DEF HeapType
<1> HIDE DEF m
<1>4. Trace(h) = g
  BY <1>2
<1>5. h1 \in HeapType
  BY <1>3, FieldUpdates
<1>6. SameList(h, g) /\ SameCounts(h, g) /\ g.mode = h.mode
  BY DEF HeapType, SameList, SameCounts
<1> HIDE DEF h1
<1>7. g \in HeapType
  BY <1>5, FieldUpdates
<1> QED
  BY <1>4, <1>6, <1>7

LEMMA SurviveIs ==
    ASSUME NEW h \in HeapType, NEW S \in SUBSET Objects
    PROVE  /\ Survive(h, S) \in HeapType
           /\ SameList(h, Survive(h, S)) /\ SameCounts(h, Survive(h, S))
<1> DEFINE m == h.marked \ S
           old == h.old \cup {o \in S : h.age[o] = 1}
           age == [o \in Objects |-> IF o \in S THEN 1 ELSE h.age[o]]
           h1 == [h EXCEPT !.marked = m]
           h2 == [h1 EXCEPT !.old = old]
           g == [h2 EXCEPT !.age = age]
<1>1. m \in SUBSET Objects /\ old \in SUBSET Objects /\ age \in [Objects -> {0, 1}]
  BY DEF HeapType
<1>2. Survive(h, S) = [h EXCEPT !.marked = m, !.old = old, !.age = age]
  BY DEF Survive
<1> HIDE DEF m, old, age
<1>3. Survive(h, S) = g
  BY <1>2
<1>4. SameList(h, g) /\ SameCounts(h, g)
  BY DEF HeapType, SameList, SameCounts
<1>5. h1 \in HeapType
  BY <1>1, FieldUpdates
<1> HIDE DEF h1
<1>6. h2 \in HeapType
  BY <1>1, <1>5, FieldUpdates
<1> HIDE DEF h2
<1>7. g \in HeapType
  BY <1>1, <1>6, FieldUpdates
<1> QED
  BY <1>3, <1>4, <1>7

LEMMA DestroyIs ==
    ASSUME NEW h \in HeapType, NEW S \in SUBSET Objects
    PROVE  LET g == Destroy(h, S)
           IN  /\ g \in HeapType /\ SameCounts(h, g)
               /\ g.objects = h.objects /\ g.pool = h.pool \cup S /\ g.fresh = h.fresh
               /\ g.sweepAt = h.sweepAt
               /\ g.behind = [o \in Objects |-> IF o \in S THEN {} ELSE h.behind[o] \ S]
<1> DEFINE pool == h.pool \cup S
           behind == [o \in Objects |-> IF o \in S THEN {} ELSE h.behind[o] \ S]
           refs == [o \in Objects |-> IF o \in S THEN {} ELSE h.refs[o]]
           old == h.old \ S
           age == [o \in Objects |-> IF o \in S THEN 0 ELSE h.age[o]]
           rem == h.remembered \ S
           h1 == [h EXCEPT !.pool = pool]
           h2 == [h1 EXCEPT !.behind = behind]
           h3 == [h2 EXCEPT !.refs = refs]
           h4 == [h3 EXCEPT !.old = old]
           h5 == [h4 EXCEPT !.age = age]
           g == [h5 EXCEPT !.remembered = rem]
<1>1. /\ pool \in SUBSET Objects /\ old \in SUBSET Objects /\ rem \in SUBSET Objects
      /\ behind \in [Objects -> SUBSET Objects] /\ refs \in [Objects -> SUBSET Objects]
      /\ age \in [Objects -> {0, 1}]
  BY DEF HeapType
<1>2. Destroy(h, S) = [h EXCEPT !.pool = pool, !.behind = behind, !.refs = refs, !.old = old,
                                !.age = age, !.remembered = rem]
  BY DEF Destroy
<1> HIDE DEF pool, behind, refs, old, age, rem
<1>3. Destroy(h, S) = g
  BY <1>2
<1>4. /\ SameCounts(h, g) /\ g.objects = h.objects /\ g.fresh = h.fresh /\ g.sweepAt = h.sweepAt
      /\ g.pool = pool /\ g.behind = behind
  BY DEF HeapType, SameCounts
<1>5. h1 \in HeapType
  BY <1>1, FieldUpdates
<1> HIDE DEF h1
<1>6. h2 \in HeapType
  BY <1>1, <1>5, FieldUpdates
<1> HIDE DEF h2
<1>7. h3 \in HeapType
  BY <1>1, <1>6, FieldUpdates
<1> HIDE DEF h3
<1>8. h4 \in HeapType
  BY <1>1, <1>7, FieldUpdates
<1> HIDE DEF h4
<1>9. h5 \in HeapType
  BY <1>1, <1>8, FieldUpdates
<1> HIDE DEF h5
<1>10. g \in HeapType
  BY <1>1, <1>9, FieldUpdates
<1> QED
  BY <1>3, <1>4, <1>10 DEF pool, behind

\* The list without some objects, as destruction leaves it: K stays.
LEMMA DestroyedIsListed ==
    ASSUME NEW h \in HeapType, Listed(h), NEW S \in SUBSET Objects, NEW K \in SUBSET (h.objects \ S),
           \A o \in S : o < h.fresh,
           NEW g, g.sweepAt # Null => g.sweepAt < h.fresh, g.objects = K, g.pool = h.pool \cup S, g.fresh = h.fresh,
           g.behind = [o \in Objects |-> IF o \in S THEN {} ELSE h.behind[o] \ S]
    PROVE  Listed(g)
<1>1. K \subseteq Objects /\ h.objects \subseteq Objects
  BY DEF HeapType
<1>2. \A o \in K : g.behind[o] = h.behind[o] \ S
  BY <1>1
<1>3. \A o, p \in K : o = p \/ o \in g.behind[p] \/ p \in g.behind[o]
  BY <1>2 DEF Listed
<1>4. \A o \in K : o \notin g.behind[o]
  BY <1>2 DEF Listed
<1>5. \A o, p \in K : p \in g.behind[o] => g.behind[p] \cap K \subseteq g.behind[o]
  BY <1>2 DEF Listed
<1>6. K \cap (h.pool \cup S) = {} /\ \A o \in K \cup (h.pool \cup S) : o < h.fresh
  BY DEF Listed
<1> QED
  BY <1>3, <1>4, <1>5, <1>6 DEF Listed

LEMMA SweepIs ==
    ASSUME NEW h \in HeapType, Listed(h), NEW mode \in {"YOUNG", "FULL"}
    PROVE  Sweep(h, mode) \in HeapType /\ Listed(Sweep(h, mode)) /\ SameCounts(h, Sweep(h, mode))
<1> DEFINE marked == h.objects \cap h.marked
           kept == marked \cup (h.objects \cap Spared(h, mode))
           gone == h.objects \ kept
           k == Survive(h, marked)
           d == Destroy(k, gone)
           g == [d EXCEPT !.objects = kept]
<1>1. Sweep(h, mode) = g
  BY DEF Sweep
<1>2. /\ marked \in SUBSET Objects /\ kept \in SUBSET Objects /\ gone \in SUBSET Objects
      /\ gone \in SUBSET h.objects /\ kept \in SUBSET (h.objects \ gone)
  BY DEF HeapType
<1> HIDE DEF marked, kept, gone
<1>3. k \in HeapType /\ SameList(h, k) /\ SameCounts(h, k)
  BY <1>2, SurviveIs
<1> HIDE DEF k
<1>4. /\ d \in HeapType /\ SameCounts(k, d)
      /\ d.objects = k.objects /\ d.pool = k.pool \cup gone /\ d.fresh = k.fresh
      /\ d.sweepAt = k.sweepAt
      /\ d.behind = [o \in Objects |-> IF o \in gone THEN {} ELSE k.behind[o] \ gone]
  BY <1>2, <1>3, DestroyIs
<1> HIDE DEF d
<1>5. g \in HeapType
  BY <1>2, <1>4, FieldUpdates
<1>6. /\ g.objects = kept /\ g.pool = d.pool /\ g.fresh = d.fresh /\ g.behind = d.behind
      /\ g.sweepAt = d.sweepAt /\ SameCounts(d, g)
  BY <1>4 DEF HeapType, SameCounts
<1> HIDE DEF g
<1>7. /\ g.pool = h.pool \cup gone /\ g.fresh = h.fresh /\ g.sweepAt = h.sweepAt
      /\ g.behind = [o \in Objects |-> IF o \in gone THEN {} ELSE h.behind[o] \ gone]
  BY <1>3, <1>4, <1>6 DEF SameList
<1>8. Listed(g)
  <2>1. (\A o \in gone : o < h.fresh) /\ (g.sweepAt # Null => g.sweepAt < h.fresh)
    BY <1>2, <1>7 DEF Listed
  <2> QED
    BY <1>2, <1>6, <1>7, <2>1, DestroyedIsListed
<1>9. SameCounts(h, g)
  BY <1>3, <1>4, <1>6 DEF SameCounts
<1> QED
  BY <1>1, <1>5, <1>8, <1>9

\* Refreshed, the threshold is past the old generation.
LEMMA EndCollectionIs ==
    ASSUME NEW h \in HeapType, Listed(h), NEW mode \in {"YOUNG", "FULL"}
    PROVE  LET g == EndCollection(h, mode)
           IN  /\ g \in Heaps /\ g.state = h.state
               /\ g.sinceFull = IF mode = "FULL" THEN 0 ELSE h.sinceFull + 1
<1> DEFINE rem == IF mode = "FULL" THEN {} ELSE h.remembered \cap h.old
           since == IF mode = "FULL" THEN 0 ELSE h.sinceFull + 1
           h1 == [h EXCEPT !.remembered = rem]
           k == [h1 EXCEPT !.sinceFull = since]
           g == EndCollection(h, mode)
<1>1. g \in HeapType
  BY EndCollectionKeeps DEF SameButBookkeeping
<1>2. rem \in SUBSET Objects /\ since \in Nat
  BY DEF HeapType
<1>3. [h EXCEPT !.remembered = IF mode = "FULL" THEN {} ELSE @ \cap h.old,
                !.sinceFull = IF mode = "FULL" THEN 0 ELSE @ + 1] = [h EXCEPT !.remembered = rem, !.sinceFull = since]
  BY DEF HeapType
<1> HIDE DEF rem
<1>4. g = RefreshAccounting(k)
  BY <1>3 DEF EndCollection
<1>5. /\ k.objects = h.objects /\ k.behind = h.behind /\ k.pool = h.pool /\ k.fresh = h.fresh
      /\ k.sinceFull = since /\ k.state = h.state /\ k.old = h.old /\ k.sweepAt = h.sweepAt
  BY DEF HeapType
<1>6. k \in HeapType
  <2>1. h1 \in HeapType
    BY <1>2, FieldUpdates
  <2> HIDE DEF h1, since
  <2> QED
    BY <1>2, <2>1, FieldUpdates
<1> HIDE DEF k, since
<1> DEFINE oldCount == Cardinality(k.objects \cap k.old)
           youngCount == Cardinality(k.objects \ k.old)
           young == Larger(BaseYoung, 2 * youngCount + SlackYoung)
           full == Larger(BaseFull, 2 * oldCount + SlackFull)
           total == oldCount + youngCount
<1>7. RefreshAccounting(k) = [k EXCEPT !.bytes = total, !.oldBytes = oldCount,
                                       !.nextYoung = young, !.nextFull = full]
  BY DEF RefreshAccounting
<1>8. oldCount \in Nat
  BY <1>6, CountsAreNatural DEF HeapType
<1> HIDE DEF oldCount, youngCount
<1>9. oldCount < full
  BY <1>8, HeapAssumption DEF Larger
<1> HIDE DEF young, full, total
<1>10. /\ SameList(k, RefreshAccounting(k))
       /\ RefreshAccounting(k).sinceFull = k.sinceFull /\ RefreshAccounting(k).state = k.state
       /\ RefreshAccounting(k).oldBytes = oldCount /\ RefreshAccounting(k).nextFull = full
  BY <1>6, <1>7 DEF HeapType, SameList
<1> HIDE DEF g
<1>11. SameList(h, g) /\ g.oldBytes < g.nextFull
  BY <1>4, <1>5, <1>9, <1>10 DEF SameList
<1>12. Listed(g)
  BY <1>11, SameListIsListed
<1>13. g.state = h.state /\ g.sinceFull = since
  BY <1>4, <1>5, <1>10
<1> QED
  BY <1>1, <1>11, <1>12, <1>13 DEF Heaps, since, g

LEMMA CollectGarbageIs ==
    ASSUME NEW h \in Heaps, NEW r \in SUBSET Objects, NEW mode \in {"YOUNG", "FULL"}
    PROVE  LET g == CollectGarbage(h, r, mode)
           IN  /\ g \in Heaps /\ g.state = h.state
               /\ g.sinceFull = IF mode = "FULL" THEN 0 ELSE h.sinceFull + 1
<1> DEFINE a == Mark(h, r)
           b == IF mode = "YOUNG" THEN MarkRemembered(a) ELSE a
           c == Trace(b)
           d == Sweep(c, mode)
<1>0. h \in HeapType /\ Listed(h)
  BY DEF Heaps
<1>1. CollectGarbage(h, r, mode) = EndCollection(d, mode)
  BY DEF CollectGarbage
<1>2. a \in HeapType /\ SameList(h, a) /\ SameCounts(h, a)
  BY <1>0, MarkIs
<1> HIDE DEF a
<1>3. b \in HeapType /\ SameList(a, b) /\ SameCounts(a, b)
  <2>1. a.remembered \cap a.old \in SUBSET Objects
    BY <1>2 DEF HeapType
  <2>2. CASE mode = "YOUNG"
    BY <1>2, <2>1, <2>2, MarkIs DEF MarkRemembered
  <2>3. CASE mode = "FULL"
    BY <1>2, <2>3 DEF SameList, SameCounts
  <2> QED
    BY <2>2, <2>3
<1> HIDE DEF b
<1>4. c \in HeapType /\ SameList(b, c) /\ SameCounts(b, c)
  BY <1>3, TraceIs
<1> HIDE DEF c
<1>5. Listed(c) /\ SameCounts(h, c)
  BY <1>0, <1>2, <1>3, <1>4, SameListIsListed DEF SameCounts
<1>6. d \in HeapType /\ Listed(d) /\ SameCounts(c, d)
  BY <1>4, <1>5, SweepIs
<1> HIDE DEF d
<1>7. d.state = h.state /\ d.sinceFull = h.sinceFull
  BY <1>5, <1>6 DEF SameCounts
<1> QED
  BY <1>1, <1>6, <1>7, EndCollectionIs

\* Only a full collection is made when the limit of minor ones is reached.
LEMMA MaybeCollectIs ==
    ASSUME NEW h \in Heaps, NEW r \in SUBSET Objects
    PROVE  LET g == MaybeCollectGarbage(h, r)
           IN  /\ g \in Heaps /\ g.state = h.state
               /\ g.sinceFull <= h.sinceFull \/ g.sinceFull <= MinorLimit
<1>1. h.sinceFull \in Nat
  BY DEF Heaps, HeapType
<1>2. CASE ShouldCollectFull(h)
  BY <1>1, <1>2, CollectGarbageIs DEF MaybeCollectGarbage
<1>3. CASE ~ShouldCollectFull(h) /\ ShouldCollectYoung(h)
  <2>1. h.sinceFull + 1 <= MinorLimit
    BY <1>1, <1>3, HeapAssumption DEF ShouldCollectFull
  <2> QED
    BY <1>3, <2>1, CollectGarbageIs DEF MaybeCollectGarbage
<1>4. CASE ~ShouldCollectFull(h) /\ ~ShouldCollectYoung(h)
  BY <1>1, <1>4 DEF MaybeCollectGarbage
<1> QED
  BY <1>2, <1>3, <1>4

\* A new object is put at the front of the list.
LEMMA AllocateIs ==
    ASSUME NEW h \in Heaps, NEW c \in Cells, CanAllocate(h, c), NEW children \in SUBSET Objects
    PROVE  LET g == Allocate(h, c, children)
           IN  g \in Heaps /\ g.state = h.state /\ g.sinceFull = h.sinceFull
<1> DEFINE objects == h.objects \cup {c}
           behind == [o \in Objects |-> IF o = c THEN h.objects ELSE h.behind[o] \ {c}]
           pool == h.pool \ {c}
           fresh == IF c = h.fresh THEN h.fresh + 1 ELSE h.fresh
           refs == [h.refs EXCEPT ![c] = children]
           marked == h.marked \ {c}
           old == h.old \ {c}
           age == [h.age EXCEPT ![c] = 0]
           rem == h.remembered \ {c}
           bytes == h.bytes + 1
           g == Allocate(h, c, children)
<1>1. h \in HeapType /\ Listed(h) /\ h.oldBytes < h.nextFull
  BY DEF Heaps
<1>2. c \in Objects /\ c \in Nat /\ h.fresh \in Nat
  BY <1>1, HeapAssumption DEF HeapType, Cells, Objects
<1>3. /\ objects \in SUBSET Objects /\ pool \in SUBSET Objects /\ marked \in SUBSET Objects
      /\ old \in SUBSET Objects /\ rem \in SUBSET Objects /\ bytes \in Nat
      /\ behind \in [Objects -> SUBSET Objects] /\ refs \in [Objects -> SUBSET Objects]
      /\ age \in [Objects -> {0, 1}]
  BY <1>1, <1>2 DEF HeapType
<1>4. fresh \in 1 .. MaxCells + 1
  BY <1>1, HeapAssumption DEF HeapType, Cells
<1>5. c \notin h.objects /\ \A o \in objects \cup pool : o < fresh
  <2>1. c \notin h.objects /\ c < fresh
    BY <1>1, <1>2 DEF CanAllocate, Listed
  <2>2. \A o \in h.objects \cup h.pool : o \in Nat /\ o < h.fresh
    BY <1>1, HeapAssumption DEF HeapType, Listed, Objects, Cells, StaticMethod
  <2> QED
    BY <1>2, <2>1, <2>2
<1>6. g = [h EXCEPT !.objects = objects, !.behind = behind, !.pool = pool, !.fresh = fresh,
                    !.refs = refs, !.marked = marked, !.old = old, !.age = age,
                    !.remembered = rem, !.bytes = bytes]
  BY <1>1 DEF Allocate, HeapType
<1> HIDE DEF objects, behind, pool, fresh, refs, marked, old, age, rem, bytes, g
<1>7. g \in HeapType
  <2> DEFINE k == [h EXCEPT !.objects = objects, !.behind = behind, !.pool = pool, !.fresh = fresh,
                            !.refs = refs]
  <2>1. k \in HeapType
    BY <1>1, <1>3, <1>4 DEF HeapType
  <2>2. g = [k EXCEPT !.marked = marked, !.old = old, !.age = age, !.remembered = rem, !.bytes = bytes]
    BY <1>6
  <2> HIDE DEF k
  <2> QED
    BY <1>3, <2>1, <2>2 DEF HeapType
<1>8. /\ g.objects = objects /\ g.behind = behind /\ g.pool = pool /\ g.fresh = fresh
      /\ g.sweepAt = h.sweepAt /\ SameCounts(h, g)
  BY <1>1, <1>6 DEF HeapType, SameCounts
<1>9. Listed(g)
  <2>1. h.objects \subseteq Objects /\ c \in Objects
    BY <1>1, <1>2 DEF HeapType
  <2>2. behind[c] = h.objects /\ \A o \in h.objects : behind[o] = h.behind[o] \ {c}
    BY <1>5, <2>1 DEF behind
  <2>3. \A o, p \in objects : o = p \/ o \in behind[p] \/ p \in behind[o]
    BY <1>1, <1>5, <2>2 DEF objects, Listed
  <2>4. \A o \in objects : o \notin behind[o]
    BY <1>1, <1>5, <2>2 DEF objects, Listed
  <2>5. \A o, p \in objects : p \in behind[o] => behind[p] \cap objects \subseteq behind[o]
    BY <1>1, <1>5, <2>2 DEF objects, Listed
  <2>6. objects \cap pool = {}
    BY <1>1 DEF objects, pool, Listed
  <2>7. g.sweepAt # Null => g.sweepAt < fresh
    <3>1. g.sweepAt # Null => h.sweepAt \in Nat /\ h.sweepAt < h.fresh
      BY <1>1, <1>8, HeapAssumption DEF HeapType, Listed, Objects, Cells, StaticMethod
    <3> QED
      BY <1>2, <1>8, <3>1 DEF fresh
  <2> QED
    BY <1>5, <1>8, <2>3, <2>4, <2>5, <2>6, <2>7 DEF Listed
<1>10. g \in Heaps
  BY <1>1, <1>7, <1>8, <1>9 DEF Heaps, SameCounts
<1> QED
  BY <1>8, <1>10 DEF SameCounts, g

LEMMA RelinkIs ==
    ASSUME NEW h \in Heaps, NEW o \in Objects, NEW children \in SUBSET Objects
    PROVE  LET g == [h EXCEPT !.refs[o] = children]
           IN  g \in Heaps /\ g.state = h.state /\ g.sinceFull = h.sinceFull
<1> DEFINE refs == [h.refs EXCEPT ![o] = children]
           g == [h EXCEPT !.refs = refs]
<1>1. h \in HeapType
  BY DEF Heaps
<1>2. refs \in [Objects -> SUBSET Objects]
  BY <1>1 DEF HeapType
<1>3. [h EXCEPT !.refs[o] = children] = g
  BY <1>1 DEF HeapType
<1> HIDE DEF refs
<1>4. SameList(h, g) /\ SameCounts(h, g)
  BY <1>1 DEF HeapType, SameList, SameCounts
<1>5. g \in HeapType
  BY <1>1, <1>2, FieldUpdates
<1> HIDE DEF g
<1>6. g \in Heaps
  BY <1>4, <1>5, QuietIsHeap
<1> QED
  BY <1>3, <1>4, <1>6 DEF SameCounts

LEMMA WriteBarrierIs ==
    ASSUME NEW h \in Heaps, NEW o \in Objects, NEW c
    PROVE  LET g == WriteBarrier(h, o, c)
           IN  g \in Heaps /\ g.state = h.state /\ g.sinceFull = h.sinceFull
<1> DEFINE rem == h.remembered \cup {o}
           g == [h EXCEPT !.remembered = rem]
<1>1. h \in HeapType /\ rem \in SUBSET Objects
  BY DEF Heaps, HeapType
<1>2. WriteBarrier(h, o, c) \in {g, h}
  BY <1>1 DEF WriteBarrier, HeapType
<1> HIDE DEF rem
<1>3. SameList(h, g) /\ SameCounts(h, g)
  BY <1>1 DEF HeapType, SameList, SameCounts
<1>4. g \in HeapType
  BY <1>1, FieldUpdates
<1> HIDE DEF g
<1>5. g \in Heaps
  BY <1>3, <1>4, QuietIsHeap
<1> QED
  BY <1>2, <1>3, <1>5 DEF SameCounts

\* What an instruction makes of the heap h that the step of the incremental
\* collection has left.
LEMMA InstructionIs ==
    ASSUME NEW h \in Heaps, heap \in HeapType, roots \in SUBSET Objects, Instruction(h)
    PROVE  /\ heap' \in Heaps /\ roots' \in SUBSET Objects /\ heap'.state = h.state
           /\ heap'.sinceFull <= h.sinceFull \/ heap'.sinceFull <= MinorLimit
<1>1. h \in HeapType /\ h.sinceFull \in Nat
  BY DEF Heaps, HeapType
<1>2. ASSUME NEW c \in Cells, NEW children \in SUBSET Objects, New(h, c, children) \/ NewSum(h, c, children)
      PROVE  /\ heap' \in Heaps /\ roots' \in SUBSET Objects /\ heap'.state = h.state
             /\ heap'.sinceFull <= h.sinceFull \/ heap'.sinceFull <= MinorLimit
  <2>1. CanAllocate(h, c) /\ roots' = roots \cup {c}
    BY <1>2 DEF New, NewSum, Create
  <2>2. roots' \in SUBSET Objects
    BY <2>1 DEF Objects
  <2> DEFINE a == Allocate(h, c, children)
  <2>3. a \in Heaps /\ a.state = h.state /\ a.sinceFull = h.sinceFull
    BY <2>1, AllocateIs
  <2>4. heap' = a \/ heap' = MaybeCollectGarbage(a, roots')
    BY <1>2 DEF New, NewSum
  <2> HIDE DEF a
  <2> QED
    BY <1>1, <2>2, <2>3, <2>4, MaybeCollectIs
<1>3. ASSUME NEW o \in roots, NEW c \in roots, Store(h, o, c) \/ Push(h, o, c)
      PROVE  /\ heap' \in Heaps /\ roots' \in SUBSET Objects /\ heap'.state = h.state
             /\ heap'.sinceFull <= h.sinceFull \/ heap'.sinceFull <= MinorLimit
  <2> DEFINE a == Link(h, o, c)
             children == h.refs[o] \cup {c}
  <2>1. o \in Objects /\ children \in SUBSET Objects
    BY <1>1 DEF HeapType
  <2>2. a = [h EXCEPT !.refs[o] = children]
    BY <1>1, <2>1 DEF Link, HeapType
  <2> HIDE DEF children
  <2>3. a \in Heaps /\ a.state = h.state /\ a.sinceFull = h.sinceFull
    BY <2>1, <2>2, RelinkIs
  <2>4. roots' = roots /\ (heap' = WriteBarrier(a, o, c) \/ heap' = MaybeCollectGarbage(a, roots))
    BY <1>3 DEF Store, Push
  <2> HIDE DEF a
  <2> QED
    BY <1>1, <2>1, <2>3, <2>4, WriteBarrierIs, MaybeCollectIs
<1>4. ASSUME NEW o \in roots, NEW c \in heap.refs[o], Unlink(h, o, c) \/ Load(h, c)
      PROVE  /\ heap' \in Heaps /\ roots' \in SUBSET Objects /\ heap'.state = h.state
             /\ heap'.sinceFull <= h.sinceFull \/ heap'.sinceFull <= MinorLimit
  <2> DEFINE children == h.refs[o] \ {c}
  <2>1. o \in Objects /\ c \in Objects /\ children \in SUBSET Objects
    BY <1>1 DEF HeapType
  <2>2. CASE Unlink(h, o, c)
    <3>1. heap' = [h EXCEPT !.refs[o] = children] /\ roots' = roots
      BY <1>1, <2>1, <2>2 DEF Unlink, HeapType
    <3> HIDE DEF children
    <3> QED
      BY <1>1, <2>1, <3>1, RelinkIs
  <2>3. CASE Load(h, c)
    BY <1>1, <2>1, <2>3 DEF Load
  <2> QED
    BY <1>4, <2>2, <2>3
<1>5. ASSUME NEW o \in roots, Drop(h, o)
      PROVE  /\ heap' \in Heaps /\ roots' \in SUBSET Objects /\ heap'.state = h.state
             /\ heap'.sinceFull <= h.sinceFull \/ heap'.sinceFull <= MinorLimit
  BY <1>1, <1>5 DEF Drop
<1>6. CASE GcCollect(h)
  <2> DEFINE a == CollectGarbage(h, roots, "FULL")
  <2>1. a \in Heaps /\ a.state = h.state /\ a.sinceFull = 0
    BY CollectGarbageIs
  <2>2. heap' = MaybeCollectGarbage(a, roots) /\ roots' = roots
    BY <1>6 DEF GcCollect
  <2> HIDE DEF a
  <2>3. heap' \in Heaps /\ heap'.state = a.state /\ (heap'.sinceFull <= 0 \/ heap'.sinceFull <= MinorLimit)
    BY <2>1, <2>2, MaybeCollectIs
  <2>4. heap'.sinceFull <= 0 => heap'.sinceFull <= MinorLimit
    BY <2>3, HeapAssumption DEF Heaps, HeapType
  <2> QED
    BY <2>1, <2>2, <2>3, <2>4
<1>7. CASE Other(h)
  BY <1>1, <1>7 DEF Other
<1> QED
  BY <1>2, <1>3, <1>4, <1>5, <1>6, <1>7 DEF Instruction

-----------------------------------------------------------------------------
(* The incremental collection                                              *)

\* The list is finite and in order, thus each part of it has a first object.
LEMMA FirstIs ==
    ASSUME NEW h \in Heaps, NEW part \in SUBSET h.objects
    PROVE  FirstOf(h, part) = Null \/ FirstOf(h, part) \in part
<1> DEFINE T == {part \ h.behind[o] : o \in part}
           R == StrictSubsetOrdering(Objects)
<1>1. h \in HeapType /\ Listed(h) /\ part \in SUBSET Objects
  BY DEF Heaps, HeapType
<1>2. CASE part = {}
  BY <1>2 DEF FirstOf
<1>3. CASE part # {}
  <2>1. IsFiniteSet(Objects)
    <3>1. IsFiniteSet(Cells)
      BY HeapAssumption, FS_Interval DEF Cells
    <3> QED
      BY <3>1, FS_AddElement DEF Objects
  <2>2. IsWellFoundedOn(R, SUBSET Objects)
    BY <2>1, FS_StrictSubsetOrderingWellFounded, FS_FiniteSubsetsOfFinite
  <2>3. T \subseteq SUBSET Objects /\ T # {}
    BY <1>1, <1>3
  <2>4. \E m \in T : \A y \in T : ~(<<y, m>> \in R)
    <3> HIDE DEF R, T
    <3> QED
      BY <2>2, <2>3, WFMin
  <2>5. PICK o \in part : \A p \in part : ~(<<part \ h.behind[p], part \ h.behind[o]>> \in R)
    BY <2>4
  <2>6. ASSUME NEW p \in part, p # o, p \notin h.behind[o] PROVE FALSE
    <3>1. o \in h.behind[p] /\ h.behind[o] \cap h.objects \subseteq h.behind[p] /\ o \notin h.behind[o]
      BY <1>1, <2>6 DEF Listed
    <3>2. part \ h.behind[p] \subseteq part \ h.behind[o] /\ o \in part \ h.behind[o] /\ o \notin part \ h.behind[p]
      BY <3>1
    <3>3. <<part \ h.behind[p], part \ h.behind[o]>> \in (SUBSET Objects) \X (SUBSET Objects)
      BY <1>1
    <3>4. <<part \ h.behind[p], part \ h.behind[o]>> \in R
      BY <3>2, <3>3 DEF StrictSubsetOrdering
    <3> QED
      BY <2>5, <3>4
  <2>7. part \ {o} \subseteq h.behind[o]
    BY <2>6
  <2> QED
    BY <1>3, <2>7 DEF FirstOf
<1> QED
  BY <1>2, <1>3

Moved(h, s, p) == [h EXCEPT !.sweepAt = s, !.sweepPrev = p]

LEMMA MovedIsHeap ==
    ASSUME NEW h \in HeapType, Listed(h), NEW s \in h.objects \cup {Null}, NEW p \in Objects \cup {Null}
    PROVE  Moved(h, s, p) \in HeapType /\ Listed(Moved(h, s, p)) /\ SameCounts(h, Moved(h, s, p))
<1> DEFINE k == [h EXCEPT !.sweepAt = s]
           g == [k EXCEPT !.sweepPrev = p]
<1>1. Moved(h, s, p) = g
  BY DEF Moved
<1>2. s \in Objects \cup {Null}
  BY DEF HeapType
<1>3. /\ g.objects = h.objects /\ g.behind = h.behind /\ g.pool = h.pool /\ g.fresh = h.fresh
      /\ g.sweepAt = s /\ SameCounts(h, g)
  BY DEF HeapType, SameCounts
<1>4. k \in HeapType
  BY <1>2, MoreUpdates
<1> HIDE DEF k
<1>5. g \in HeapType
  BY <1>4, MoreUpdates
<1> HIDE DEF g
<1>6. Listed(g)
  BY <1>3 DEF Listed
<1> QED
  BY <1>1, <1>3, <1>5, <1>6

\* The heaps that the turns of a step can make of h.
Turned(h) == {g \in Heaps : SameCounts(h, g)}

LEMMA BlackenIs ==
    ASSUME NEW h \in Heaps
    PROVE  Blacken(h) \in Turned(h)
<1>1. h \in HeapType
  BY DEF Heaps
<1>2. CASE h.gray = {}
  BY <1>2 DEF Blacken, Turned, SameCounts
<1>3. CASE h.gray # {}
  <2>1. PICK o \in h.gray : o = CHOOSE x \in h.gray : TRUE
    BY <1>3
  <2> DEFINE gray == h.gray \ {o}
             k == [h EXCEPT !.gray = gray]
  <2>2. Blacken(h) = Mark(k, h.refs[o])
    BY <1>3, <2>1 DEF Blacken
  <2>3. gray \in SUBSET Objects /\ h.refs[o] \in SUBSET Objects
    BY <1>1 DEF HeapType
  <2> HIDE DEF gray
  <2>4. SameList(h, k) /\ SameCounts(h, k)
    BY <1>1 DEF HeapType, SameList, SameCounts
  <2>5. k \in HeapType
    BY <1>1, <2>3, FieldUpdates
  <2> HIDE DEF k
  <2>6. Mark(k, h.refs[o]) \in HeapType /\ SameList(k, Mark(k, h.refs[o])) /\ SameCounts(k, Mark(k, h.refs[o]))
    BY <2>3, <2>5, MarkIs
  <2>7. k \in Heaps
    BY <2>4, <2>5, QuietIsHeap
  <2>8. Mark(k, h.refs[o]) \in Heaps
    BY <2>6, <2>7, QuietIsHeap
  <2> QED
    BY <2>2, <2>4, <2>6, <2>8 DEF Turned, SameCounts
<1> QED
  BY <1>2, <1>3

\* What is left of the list when it begins behind a destroyed object is in order.
LEMMA SweepOneIs ==
    ASSUME NEW h \in Heaps
    PROVE  SweepOne(h) \in Turned(h)
<1> DEFINE o == h.sweepAt
           rest == h.objects \cap h.behind[o]
           next == FirstOf(h, rest)
<1>1. h \in HeapType /\ Listed(h) /\ h.oldBytes < h.nextFull
  BY DEF Heaps
<1>2. CASE o = Null
  BY <1>2 DEF SweepOne, Turned, SameCounts
<1>3. ASSUME o # Null PROVE SweepOne(h) \in Turned(h)
  <2>1. o \in Objects /\ o < h.fresh /\ rest \in SUBSET h.objects
    BY <1>1, <1>3 DEF HeapType, Listed
  <2>2. next = Null \/ next \in rest
    BY <2>1, FirstIs
  <2>3. o \notin rest
    BY <1>1 DEF Listed
  <2>4. CASE o \in h.marked \cup Spared(h, h.mode)
    <3> DEFINE k == Survive(h, {o} \cap h.marked)
               g == Moved(k, next, o)
    <3>1. SweepOne(h) = g
      BY <1>3, <2>4 DEF SweepOne, Moved
    <3>2. {o} \cap h.marked \in SUBSET Objects
      BY <2>1
    <3>3. k \in HeapType /\ SameList(h, k) /\ SameCounts(h, k)
      BY <1>1, <3>2, SurviveIs
    <3>4. Listed(k) /\ k.objects = h.objects
      BY <1>1, <3>3, SameListIsListed DEF SameList
    <3>5. next \in k.objects \cup {Null} /\ o \in Objects \cup {Null}
      BY <2>1, <2>2, <3>4
    <3> HIDE DEF k, o, next
    <3>6. g \in HeapType /\ Listed(g) /\ SameCounts(k, g)
      BY <2>1, <3>3, <3>4, <3>5, MovedIsHeap
    <3> QED
      BY <1>1, <3>1, <3>3, <3>6 DEF Turned, Heaps, SameCounts
  <2>5. CASE o \notin h.marked \cup Spared(h, h.mode)
    <3> DEFINE S == {o}
               K == IF h.sweepPrev = Null THEN rest ELSE h.objects \ {o}
               d == Destroy(h, S)
               k == [d EXCEPT !.objects = K]
               g == [k EXCEPT !.sweepAt = next]
    <3>1. S \in SUBSET Objects
      BY <2>1
    <3>2. /\ d \in HeapType /\ SameCounts(h, d)
          /\ d.objects = h.objects /\ d.pool = h.pool \cup S /\ d.fresh = h.fresh
          /\ d.behind = [x \in Objects |-> IF x \in S THEN {} ELSE h.behind[x] \ S]
      BY <1>1, <3>1, DestroyIs
    <3>3. SweepOne(h) = [d EXCEPT !.objects = IF h.sweepPrev = Null THEN rest ELSE @ \ {o},
                                  !.sweepAt = next]
      BY <1>3, <2>5 DEF SweepOne
    <3> HIDE DEF rest, next, d
    <3>4. SweepOne(h) = g
      BY <3>2, <3>3
    <3>5. K \in SUBSET (h.objects \ S) /\ next \in Objects \cup {Null} /\ (next # Null => next < h.fresh)
      <4>1. rest \subseteq h.objects /\ h.objects \subseteq Objects /\ \A x \in h.objects : x < h.fresh
        BY <1>1 DEF rest, HeapType, Listed
      <4> QED
        BY <2>2, <2>3, <4>1
    <3>6. K \in SUBSET Objects
      BY <1>1, <3>5 DEF HeapType
    <3> HIDE DEF K, S
    <3>7. k \in HeapType
      BY <3>2, <3>6, FieldUpdates
    <3>8. /\ g.objects = K /\ g.pool = d.pool /\ g.fresh = d.fresh /\ g.behind = d.behind
          /\ g.sweepAt = next /\ SameCounts(d, g)
      BY <3>2 DEF HeapType, SameCounts
    <3> HIDE DEF k
    <3>9. g \in HeapType
      BY <3>5, <3>7, MoreUpdates
    <3> HIDE DEF g
    <3>10. \A x \in S : x < h.fresh
      BY <2>1 DEF S
    <3>11. /\ g.pool = h.pool \cup S /\ g.fresh = h.fresh
           /\ g.behind = [x \in Objects |-> IF x \in S THEN {} ELSE h.behind[x] \ S]
           /\ g.sweepAt # Null => g.sweepAt < h.fresh
      BY <3>2, <3>5, <3>8
    <3>12. Listed(g)
      BY <1>1, <3>1, <3>5, <3>8, <3>10, <3>11, DestroyedIsListed
    <3> QED
      BY <1>1, <3>2, <3>4, <3>8, <3>9, <3>12 DEF Turned, Heaps, SameCounts
  <2> QED
    BY <2>4, <2>5
<1> QED
  BY <1>2, <1>3

LEMMA LeastNatural ==
    ASSUME NEW S \in SUBSET Nat, S # {}
    PROVE  \E x \in S : \A y \in S : x <= y
<1> DEFINE R == StrictSubsetOrdering(Nat)
           F == FiniteSubsetsOf(Nat)
           T == {1 .. n : n \in S}
<1>1. IsWellFoundedOn(R, F)
  BY FS_StrictSubsetOrderingWellFounded
<1>2. T \subseteq F /\ T # {}
  <2>1. \A n \in Nat : IsFiniteSet(1 .. n) /\ 1 .. n \in SUBSET Nat
    BY FS_Interval
  <2> QED
    BY <2>1 DEF FiniteSubsetsOf
<1>3. \E x \in T : \A y \in T : ~(<<y, x>> \in R)
  <2> HIDE DEF R, F, T
  <2> QED
    BY <1>1, <1>2, WFMin
<1>4. PICK x \in S : \A y \in S : ~(<<1 .. y, 1 .. x>> \in R)
  BY <1>3
<1>5. ASSUME NEW y \in S, y < x PROVE FALSE
  <2>1. 1 .. y \subseteq 1 .. x
    BY <1>5
  <2>2. x \in 1 .. x /\ x \notin 1 .. y
    BY <1>5
  <2>3. <<1 .. y, 1 .. x>> \in (SUBSET Nat) \X (SUBSET Nat)
    OBVIOUS
  <2>4. <<1 .. y, 1 .. x>> \in R
    BY <2>1, <2>2, <2>3 DEF StrictSubsetOrdering
  <2> QED
    BY <2>4, <1>4
<1> QED
  BY <1>5

\* Induction, for a property that is given as a set.
LEMMA AllNaturals ==
    ASSUME NEW P \in SUBSET Nat, 0 \in P, \A n \in P : n + 1 \in P
    PROVE  P = Nat
<1> SUFFICES ASSUME P # Nat PROVE FALSE
  OBVIOUS
<1>1. Nat \ P \in SUBSET Nat /\ Nat \ P # {}
  OBVIOUS
<1>2. PICK x \in Nat \ P : \A y \in Nat \ P : x <= y
  BY <1>1, LeastNatural
<1>3. x # 0 /\ x - 1 \in Nat /\ ~(x <= x - 1) /\ (x - 1) + 1 = x
  BY <1>2
<1>4. x - 1 \in P
  BY <1>2, <1>3
<1> QED
  BY <1>2, <1>3, <1>4

\* A function on T can be iterated: what Repeated rests on.
Iterates(f, T, F, x) == f \in [Nat -> T] /\ f[0] = x /\ \A n \in Nat : f[n + 1] = F[f[n]]

LEMMA Iteration ==
    ASSUME NEW T, NEW F \in [T -> T], NEW x \in T
    PROVE  \E f : Iterates(f, T, F, x)
<1> DEFINE Upto(n) == {g \in [0 .. n -> T] : g[0] = x /\ \A i \in Nat : i < n => g[i + 1] = F[g[i]]}
           P == {n \in Nat : Upto(n) # {}}
<1>1. P = Nat
  <2>1. 0 \in P
    <3>1. [i \in 0 .. 0 |-> x] \in Upto(0)
      OBVIOUS
    <3> QED
      BY <3>1
  <2>2. ASSUME NEW n \in P PROVE n + 1 \in P
    <3>1. PICK g \in [0 .. n -> T] : g[0] = x /\ \A i \in Nat : i < n => g[i + 1] = F[g[i]]
      OBVIOUS
    <3> DEFINE h == [i \in 0 .. n + 1 |-> IF i = n + 1 THEN F[g[n]] ELSE g[i]]
    <3>2. h \in [0 .. n + 1 -> T]
      BY <3>1
    <3>3. h[0] = x
      BY <3>1
    <3>4. ASSUME NEW i \in Nat, i < n + 1 PROVE h[i + 1] = F[h[i]]
      <4>1. CASE i = n
        BY <4>1
      <4>2. CASE i # n
        BY <3>1, <3>4, <4>2
      <4> QED
        BY <4>1, <4>2
    <3> HIDE DEF h
    <3>5. h \in Upto(n + 1)
      BY <3>2, <3>3, <3>4
    <3> QED
      BY <3>5
  <2> HIDE DEF P
  <2> QED
    BY <2>1, <2>2, AllNaturals DEF P
<1> DEFINE c == [n \in Nat |-> CHOOSE g \in Upto(n) : TRUE]
           f == [n \in Nat |-> c[n][n]]
<1>2. \A n \in Nat : c[n] \in Upto(n)
  BY <1>1
<1> HIDE DEF P, c
<1>3. ASSUME NEW n \in Nat PROVE f[n] \in T
  BY <1>2
<1>4. f[0] = x
  BY <1>2
<1>5. ASSUME NEW n \in Nat PROVE f[n + 1] = F[f[n]]
  <2> DEFINE Q == {i \in Nat : i <= n => c[n][i] = c[n + 1][i]}
  <2>1. 0 \in Q
    BY <1>2
  <2>2. ASSUME NEW i \in Q PROVE i + 1 \in Q
    <3>1. CASE i + 1 <= n
      <4>1. c[n][i] = c[n + 1][i] /\ i < n /\ i < n + 1 /\ i \in Nat
        BY <3>1
      <4>2. c[n][i + 1] = F[c[n][i]]
        BY <1>2, <4>1
      <4>3. c[n + 1][i + 1] = F[c[n + 1][i]]
        BY <1>2, <4>1
      <4> QED
        BY <4>1, <4>2, <4>3
    <3>2. CASE ~(i + 1 <= n)
      BY <3>2
    <3> QED
      BY <3>1, <3>2
  <2>3. Q = Nat
    <3> HIDE DEF Q
    <3> QED
      BY <2>1, <2>2, AllNaturals DEF Q
  <2>4. c[n][n] = c[n + 1][n]
    BY <2>3
  <2>5. c[n + 1][n + 1] = F[c[n + 1][n]]
    BY <1>2
  <2> QED
    BY <2>4, <2>5
<1> HIDE DEF f
<1>6. f \in [Nat -> T]
  BY <1>3 DEF f
<1> QED
  BY <1>4, <1>5, <1>6 DEF Iterates

\* The turns of a step, all of them in T.
LEMMA RecursionIs ==
    ASSUME NEW T, NEW F \in [T -> T], NEW x \in T
    PROVE  \E f \in [0 .. WorkLimit -> T] :
              f = [n \in 0 .. WorkLimit |-> IF n = 0 THEN x ELSE F[f[n - 1]]]
<1>1. PICK c : Iterates(c, T, F, x)
  BY Iteration
<1> DEFINE f == [n \in 0 .. WorkLimit |-> c[n]]
<1>2. WorkLimit \in Nat
  BY HeapAssumption
<1>3. f \in [0 .. WorkLimit -> T]
  BY <1>1, <1>2 DEF Iterates
<1>4. ASSUME NEW n \in 0 .. WorkLimit PROVE f[n] = IF n = 0 THEN x ELSE F[f[n - 1]]
  <2>1. CASE n = 0
    BY <1>1, <1>2, <2>1 DEF Iterates
  <2>2. CASE n # 0
    <3>1. n - 1 \in Nat /\ n - 1 \in 0 .. WorkLimit /\ (n - 1) + 1 = n
      BY <1>2, <2>2
    <3>2. c[(n - 1) + 1] = F[c[n - 1]]
      BY <1>1, <3>1 DEF Iterates
    <3> QED
      BY <2>2, <3>1, <3>2
  <2> QED
    BY <2>1, <2>2
<1>5. f = [n \in 0 .. WorkLimit |-> IF n = 0 THEN x ELSE F[f[n - 1]]]
  BY <1>4
<1> HIDE DEF f
<1> QED
  BY <1>3, <1>5

\* What a recursive function on 0 .. WorkLimit has for its values.
LEMMA TurnsAreIn ==
    ASSUME NEW T, NEW F \in [T -> T], NEW x \in T, NEW g,
           g[0] = x,
           \A n \in 1 .. WorkLimit : g[n - 1] \in T => g[n] = F[g[n - 1]]
    PROVE  g[WorkLimit] \in T
<1> DEFINE P == {n \in Nat : n <= WorkLimit => g[n] \in T}
<1>1. WorkLimit \in Nat
  BY HeapAssumption
<1>2. 0 \in P
  OBVIOUS
<1>3. ASSUME NEW n \in P PROVE n + 1 \in P
  <2>1. CASE n + 1 <= WorkLimit
    <3>1. n + 1 \in 1 .. WorkLimit /\ (n + 1) - 1 = n /\ g[n] \in T
      BY <1>1, <2>1
    <3>2. g[n + 1] = F[g[n]]
      BY <3>1
    <3> QED
      BY <3>1, <3>2
  <2>2. CASE ~(n + 1 <= WorkLimit)
    BY <2>2
  <2> QED
    BY <2>1, <2>2
<1>4. P = Nat
  <2> HIDE DEF P
  <2> QED
    BY <1>2, <1>3, AllNaturals DEF P
<1> QED
  BY <1>1, <1>4

LEMMA BlackenedIs ==
    ASSUME NEW h \in Heaps
    PROVE  Repeated(Blacken, h) \in Turned(h)
<1> DEFINE T == Turned(h)
           F == [k \in T |-> Blacken(k)]
           G(g) == [n \in 0 .. WorkLimit |-> IF n = 0 THEN h ELSE Blacken(g[n - 1])]
           step == CHOOSE g : g = G(g)
<1>1. h \in T
  BY DEF Turned, SameCounts
<1>2. F \in [T -> T]
  <2>1. ASSUME NEW k \in T PROVE Blacken(k) \in T
    <3>1. k \in Heaps /\ SameCounts(h, k)
      BY DEF Turned
    <3>2. Blacken(k) \in Turned(k)
      BY <3>1, BlackenIs
    <3> QED
      BY <3>1, <3>2 DEF Turned, SameCounts
  <2> HIDE DEF T
  <2> QED
    BY <2>1
<1>3. PICK f \in [0 .. WorkLimit -> T] :
          f = [n \in 0 .. WorkLimit |-> IF n = 0 THEN h ELSE F[f[n - 1]]]
  <2> HIDE DEF T, F
  <2> QED
    BY <1>1, <1>2, RecursionIs
<1> HIDE DEF T
<1>w. WorkLimit \in Nat
  BY HeapAssumption
<1>4. f = G(f)
  <2>1. ASSUME NEW n \in 0 .. WorkLimit PROVE (IF n = 0 THEN h ELSE F[f[n - 1]]) = (IF n = 0 THEN h ELSE Blacken(f[n - 1]))
    <3>1. n # 0 => n - 1 \in 0 .. WorkLimit
      BY <1>w
    <3> QED
      BY <3>1
  <2> QED
    BY <1>3, <2>1
<1>5. step = G(step)
  BY <1>4
<1> HIDE DEF step
<1>6. step[0] = h
  BY <1>5, <1>w
<1>7. \A n \in 1 .. WorkLimit : step[n - 1] \in T => step[n] = F[step[n - 1]]
  <2> SUFFICES ASSUME NEW n \in 1 .. WorkLimit, step[n - 1] \in T PROVE step[n] = F[step[n - 1]]
    OBVIOUS
  <2>1. n \in 0 .. WorkLimit /\ n # 0
    BY <1>w
  <2>2. step[n] = Blacken(step[n - 1])
    BY <1>5, <2>1
  <2> QED
    BY <2>2
<1>8. step[WorkLimit] \in T
  <2> HIDE DEF F, G
  <2> QED
    BY <1>1, <1>2, <1>6, <1>7, TurnsAreIn
<1>9. Repeated(Blacken, h) = step[WorkLimit]
  BY Zenon DEF Repeated, step
<1> QED
  BY <1>8, <1>9 DEF T

LEMMA SweptIs ==
    ASSUME NEW h \in Heaps
    PROVE  Repeated(SweepOne, h) \in Turned(h)
<1> DEFINE T == Turned(h)
           F == [k \in T |-> SweepOne(k)]
           G(g) == [n \in 0 .. WorkLimit |-> IF n = 0 THEN h ELSE SweepOne(g[n - 1])]
           step == CHOOSE g : g = G(g)
<1>1. h \in T
  BY DEF Turned, SameCounts
<1>2. F \in [T -> T]
  <2>1. ASSUME NEW k \in T PROVE SweepOne(k) \in T
    <3>1. k \in Heaps /\ SameCounts(h, k)
      BY DEF Turned
    <3>2. SweepOne(k) \in Turned(k)
      BY <3>1, SweepOneIs
    <3> QED
      BY <3>1, <3>2 DEF Turned, SameCounts
  <2> HIDE DEF T
  <2> QED
    BY <2>1
<1>3. PICK f \in [0 .. WorkLimit -> T] :
          f = [n \in 0 .. WorkLimit |-> IF n = 0 THEN h ELSE F[f[n - 1]]]
  <2> HIDE DEF T, F
  <2> QED
    BY <1>1, <1>2, RecursionIs
<1> HIDE DEF T
<1>w. WorkLimit \in Nat
  BY HeapAssumption
<1>4. f = G(f)
  <2>1. ASSUME NEW n \in 0 .. WorkLimit PROVE (IF n = 0 THEN h ELSE F[f[n - 1]]) = (IF n = 0 THEN h ELSE SweepOne(f[n - 1]))
    <3>1. n # 0 => n - 1 \in 0 .. WorkLimit
      BY <1>w
    <3> QED
      BY <3>1
  <2> QED
    BY <1>3, <2>1
<1>5. step = G(step)
  BY <1>4
<1> HIDE DEF step
<1>6. step[0] = h
  BY <1>5, <1>w
<1>7. \A n \in 1 .. WorkLimit : step[n - 1] \in T => step[n] = F[step[n - 1]]
  <2> SUFFICES ASSUME NEW n \in 1 .. WorkLimit, step[n - 1] \in T PROVE step[n] = F[step[n - 1]]
    OBVIOUS
  <2>1. n \in 0 .. WorkLimit /\ n # 0
    BY <1>w
  <2>2. step[n] = SweepOne(step[n - 1])
    BY <1>5, <2>1
  <2> QED
    BY <2>2
<1>8. step[WorkLimit] \in T
  <2> HIDE DEF F, G
  <2> QED
    BY <1>1, <1>2, <1>6, <1>7, TurnsAreIn
<1>9. Repeated(SweepOne, h) = step[WorkLimit]
  BY Zenon DEF Repeated, step
<1> QED
  BY <1>8, <1>9 DEF T

LEMMA EndMarkingIs ==
    ASSUME NEW h \in Heaps
    PROVE  /\ EndMarking(h) \in Heaps /\ EndMarking(h).sinceFull = h.sinceFull
           /\ EndMarking(h).state \in {h.state, "SWEEPING"}
<1>1. h \in HeapType /\ Listed(h) /\ h.oldBytes < h.nextFull /\ h.objects \in SUBSET h.objects
  BY DEF Heaps
<1>2. CASE h.gray # {}
  BY <1>2 DEF EndMarking
<1>3. CASE h.gray = {}
  <2> DEFINE s == FirstOf(h, h.objects)
             k == Moved(h, s, Null)
             g == [k EXCEPT !.state = "SWEEPING"]
  <2>1. EndMarking(h) = [h EXCEPT !.state = "SWEEPING", !.sweepAt = s, !.sweepPrev = Null]
    BY <1>3 DEF EndMarking
  <2>2. s \in h.objects \cup {Null} /\ Null \in Objects \cup {Null}
    BY <1>1, FirstIs
  <2> HIDE DEF s
  <2>3. EndMarking(h) = g
    BY <1>1, <2>1 DEF Moved, HeapType
  <2>4. k \in HeapType /\ Listed(k) /\ SameCounts(h, k)
    BY <1>1, <2>2, MovedIsHeap
  <2> HIDE DEF k
  <2>5. /\ SameList(k, g) /\ g.state = "SWEEPING" /\ g.sinceFull = k.sinceFull
        /\ g.oldBytes = k.oldBytes /\ g.nextFull = k.nextFull
    BY <2>4 DEF HeapType, SameList
  <2>6. g \in HeapType
    BY <2>4, MoreUpdates
  <2> HIDE DEF g
  <2>7. Listed(g)
    BY <2>4, <2>5, SameListIsListed
  <2> QED
    BY <1>1, <2>3, <2>4, <2>5, <2>6, <2>7 DEF Heaps, SameCounts
<1> QED
  BY <1>2, <1>3

LEMMA EndSweepingIs ==
    ASSUME NEW h \in Heaps
    PROVE  LET g == EndSweeping(h)
           IN  /\ g \in Heaps
               /\ \/ g.sinceFull = h.sinceFull
                  \/ g.state = "IDLE" /\ g.sinceFull <= h.sinceFull + 1
<1>1. h \in HeapType /\ Listed(h) /\ h.sinceFull \in Nat /\ h.mode \in {"YOUNG", "FULL"}
  BY DEF Heaps, HeapType
<1>2. CASE h.sweepAt # Null
  BY <1>2 DEF EndSweeping
<1>3. CASE h.sweepAt = Null
  <2> DEFINE c == EndCollection(h, h.mode)
             k == [c EXCEPT !.state = "IDLE"]
             g == [k EXCEPT !.sweepPrev = Null]
  <2>1. c \in Heaps /\ c.sinceFull <= h.sinceFull + 1
    BY <1>1, EndCollectionIs
  <2>2. EndSweeping(h) = g
    BY <1>3 DEF EndSweeping
  <2> HIDE DEF c
  <2>3. c \in HeapType /\ Listed(c) /\ c.oldBytes < c.nextFull
    BY <2>1 DEF Heaps
  <2>4. /\ SameList(c, g) /\ g.state = "IDLE" /\ g.sinceFull = c.sinceFull
        /\ g.oldBytes = c.oldBytes /\ g.nextFull = c.nextFull
    BY <2>3 DEF HeapType, SameList
  <2>5. k \in HeapType
    BY <2>3, MoreUpdates
  <2> HIDE DEF k
  <2>6. g \in HeapType
    BY <2>5, MoreUpdates
  <2> HIDE DEF g
  <2>7. Listed(g)
    BY <2>3, <2>4, SameListIsListed
  <2> QED
    BY <2>1, <2>2, <2>3, <2>4, <2>6, <2>7 DEF Heaps
<1> QED
  BY <1>2, <1>3

LEMMA BeginStepIs ==
    ASSUME NEW h \in Heaps
    PROVE  LET g == BeginStep(h)
           IN  /\ g \in Heaps /\ g.sinceFull = h.sinceFull
               /\ g.state \in {"IDLE", "MARKING", "SWEEPING"}
               /\ IF h.state = "IDLE" THEN g.state # "SWEEPING" ELSE g = h
<1>1. h \in HeapType /\ Listed(h) /\ h.state \in {"IDLE", "MARKING", "SWEEPING"}
  BY DEF Heaps, HeapType
<1>2. ASSUME NEW m \in {"YOUNG", "FULL"}
      PROVE  LET g == [h EXCEPT !.mode = m, !.state = "MARKING"]
             IN  g \in Heaps /\ g.sinceFull = h.sinceFull /\ g.state = "MARKING"
  <2> DEFINE k == [h EXCEPT !.mode = m]
             g == [k EXCEPT !.state = "MARKING"]
  <2>1. /\ SameList(h, g) /\ g.state = "MARKING" /\ g.sinceFull = h.sinceFull
        /\ g.oldBytes = h.oldBytes /\ g.nextFull = h.nextFull
    BY <1>1 DEF HeapType, SameList
  <2>2. k \in HeapType
    BY <1>1, MoreUpdates
  <2>3. g = [h EXCEPT !.mode = m, !.state = "MARKING"]
    OBVIOUS
  <2> HIDE DEF k
  <2>4. g \in HeapType
    BY <2>2, MoreUpdates
  <2> HIDE DEF g
  <2>5. Listed(g)
    BY <1>1, <2>1, SameListIsListed
  <2>6. h.oldBytes < h.nextFull
    BY DEF Heaps
  <2>7. g \in Heaps
    BY <2>1, <2>4, <2>5, <2>6 DEF Heaps
  <2> QED
    BY <2>1, <2>3, <2>7
<1>3. CASE h.state # "IDLE"
  BY <1>1, <1>3 DEF BeginStep
<1>4. CASE h.state = "IDLE" /\ ShouldCollectFull(h)
  BY <1>2, <1>4 DEF BeginStep
<1>5. CASE h.state = "IDLE" /\ ~ShouldCollectFull(h) /\ ShouldCollectYoung(h)
  <2> DEFINE k == [h EXCEPT !.mode = "YOUNG", !.state = "MARKING"]
             S == k.remembered \cap k.old
  <2>1. k \in Heaps /\ k.sinceFull = h.sinceFull /\ k.state = "MARKING"
    BY <1>2
  <2>2. BeginStep(h) = Mark(k, S)
    BY <1>5 DEF BeginStep, MarkRemembered
  <2> HIDE DEF k
  <2>3. k \in HeapType /\ S \in SUBSET Objects
    BY <2>1 DEF Heaps, HeapType
  <2> HIDE DEF S
  <2>4. Mark(k, S) \in HeapType /\ SameList(k, Mark(k, S)) /\ SameCounts(k, Mark(k, S))
    BY <2>3, MarkIs
  <2>5. Mark(k, S) \in Heaps
    BY <2>1, <2>4, QuietIsHeap
  <2> QED
    BY <1>5, <2>1, <2>2, <2>4, <2>5 DEF SameCounts
<1>6. CASE h.state = "IDLE" /\ ~ShouldCollectFull(h) /\ ~ShouldCollectYoung(h)
  BY <1>6 DEF BeginStep
<1> QED
  BY <1>3, <1>4, <1>5, <1>6

\* Only the end of an incremental collection counts as a collection.
LEMMA CollectGarbageStepIs ==
    ASSUME NEW h \in Heaps
    PROVE  LET g == CollectGarbageStep(h)
           IN  /\ g \in Heaps
               /\ \/ g.sinceFull = h.sinceFull
                  \/ h.state # "IDLE" /\ g.state = "IDLE" /\ g.sinceFull <= h.sinceFull + 1
<1> DEFINE b == BeginStep(h)
<1>1. /\ b \in Heaps /\ b.sinceFull = h.sinceFull
      /\ b.state \in {"IDLE", "MARKING", "SWEEPING"}
      /\ b.state = "SWEEPING" => h.state # "IDLE"
  BY BeginStepIs
<1>2. CollectGarbageStep(h) = CASE b.state = "IDLE"     -> b
                                [] b.state = "MARKING"  -> MarkSome(b)
                                [] b.state = "SWEEPING" -> SweepSome(b)
  BY DEF CollectGarbageStep
<1> HIDE DEF b
<1>3. CASE b.state = "IDLE"
  BY <1>1, <1>2, <1>3
<1>4. CASE b.state = "MARKING"
  <2> DEFINE k == Repeated(Blacken, b)
  <2>1. k \in Heaps /\ k.sinceFull = b.sinceFull
    BY <1>1, BlackenedIs DEF Turned, SameCounts
  <2>2. CollectGarbageStep(h) = EndMarking(k)
    BY <1>2, <1>4 DEF MarkSome
  <2> HIDE DEF k
  <2> QED
    BY <1>1, <2>1, <2>2, EndMarkingIs
<1>5. CASE b.state = "SWEEPING"
  <2> DEFINE k == Repeated(SweepOne, b)
  <2>1. k \in Heaps /\ k.sinceFull = b.sinceFull
    BY <1>1, SweptIs DEF Turned, SameCounts
  <2>2. CollectGarbageStep(h) = EndSweeping(k)
    BY <1>2, <1>5 DEF SweepSome
  <2> HIDE DEF k
  <2> QED
    BY <1>1, <1>5, <2>1, <2>2, EndSweepingIs
<1> QED
  BY <1>1, <1>3, <1>4, <1>5

-----------------------------------------------------------------------------

LEMMA HeapIsTypedInit == Init => HeapIsTyped
<1> SUFFICES ASSUME Init PROVE HeapIsTyped
  OBVIOUS
<1>1. /\ StaticMethod \in Objects /\ StaticMethod < 1 /\ 1 \in 1 .. MaxCells + 1
      /\ BaseYoung \in Nat /\ BaseFull \in Nat /\ 0 < BaseFull /\ MinorLimit \in Nat
  BY HeapAssumption DEF Objects, StaticMethod
<1>2. heap \in HeapType
  BY <1>1 DEF Init, HeapType
<1>3. /\ heap.objects = {StaticMethod} /\ heap.pool = {} /\ heap.fresh = 1 /\ heap.sweepAt = Null
      /\ heap.behind = [o \in Objects |-> {}]
      /\ heap.oldBytes = 0 /\ heap.nextFull = BaseFull /\ heap.sinceFull = 0
  BY DEF Init
<1>4. Listed(heap)
  BY <1>1, <1>3 DEF Listed
<1>5. heap \in Heaps /\ heap.sinceFull <= MinorLimit /\ heap.sinceFull <= MinorLimit + 1
  BY <1>1, <1>2, <1>3, <1>4 DEF Heaps
<1>6. roots \in SUBSET Objects /\ incremental \in BOOLEAN /\ corrupt \in BOOLEAN
  BY DEF Init
<1> QED
  BY <1>2, <1>5, <1>6 DEF HeapIsTyped, TypeOK

LEMMA HeapIsTypedNext == HeapIsTyped /\ [Next]_vars => HeapIsTyped'
<1> SUFFICES ASSUME HeapIsTyped, [Next]_vars PROVE HeapIsTyped'
  OBVIOUS
<1>1. /\ heap \in Heaps /\ heap \in HeapType /\ heap.sinceFull \in Nat /\ MinorLimit \in Nat
      /\ heap.sinceFull <= MinorLimit + 1
      /\ roots \in SUBSET Objects /\ incremental \in BOOLEAN /\ corrupt \in BOOLEAN
      /\ FirstIncremental => heap.sinceFull <= MinorLimit
  BY HeapAssumption DEF HeapIsTyped, TypeOK, HeapType
<1>2. CASE Run
  <2> DEFINE h == CollectGarbageStep(heap)
  <2>1. PICK g : g = h
    OBVIOUS
  <2>2. /\ g \in Heaps /\ g.sinceFull \in Nat
        /\ \/ g.sinceFull = heap.sinceFull
           \/ heap.state # "IDLE" /\ g.state = "IDLE" /\ g.sinceFull <= heap.sinceFull + 1
    BY <1>1, <2>1, CollectGarbageStepIs DEF Heaps, HeapType
  <2>3. Instruction(g) /\ FirstIncremental
    BY <1>2, <2>1 DEF Run
  <2>4. /\ heap' \in Heaps /\ roots' \in SUBSET Objects /\ heap'.state = g.state
        /\ heap'.sinceFull <= g.sinceFull \/ heap'.sinceFull <= MinorLimit
    BY <1>1, <2>2, <2>3, InstructionIs
  <2>5. heap' \in HeapType /\ heap'.sinceFull \in Nat
    BY <2>4 DEF Heaps, HeapType
  <2>6. /\ incremental' = (incremental \/ BeginStep(heap).state # "IDLE") /\ corrupt' = corrupt
    BY <1>2 DEF Run
  <2>7. incremental' \in BOOLEAN /\ corrupt' \in BOOLEAN
    BY <1>1, <2>6
  <2>8. heap'.sinceFull <= MinorLimit + 1
    BY <1>1, <2>2, <2>3, <2>4, <2>5
  <2>9. CASE g.sinceFull = heap.sinceFull
    <3>1. heap'.sinceFull <= MinorLimit
      BY <1>1, <2>3, <2>4, <2>5, <2>9
    <3> QED
      BY <2>4, <2>5, <2>7, <2>8, <3>1 DEF HeapIsTyped, TypeOK
  <2>10. CASE heap.state # "IDLE" /\ g.state = "IDLE"
    <3>1. BeginStep(heap) = heap
      BY <1>1, <2>10, BeginStepIs
    <3>2. incremental' /\ heap'.state = "IDLE"
      BY <2>4, <2>6, <2>10, <3>1
    <3>3. ~FirstIncremental'
      BY <3>2 DEF FirstIncremental
    <3> QED
      BY <2>4, <2>5, <2>7, <2>8, <3>3 DEF HeapIsTyped, TypeOK
  <2> QED
    BY <2>2, <2>9, <2>10
<1>3. CASE StepCorrupts \/ FetchDestroyed
  BY <1>1, <1>3 DEF StepCorrupts, FetchDestroyed, HeapIsTyped, TypeOK, FirstIncremental
<1>4. CASE UNCHANGED vars
  BY <1>1, <1>4 DEF vars, HeapIsTyped, TypeOK, FirstIncremental
<1> QED
  BY <1>2, <1>3, <1>4 DEF Next

\* The heap is well formed, in an incremental collection, too, and the threshold
\* of old bytes never causes a full collection (shouldCollectFull): whenever
\* refreshAccounting measures the old generation it raises the threshold past it,
\* and nothing else adds to the measure.
THEOREM HeapIsWellFormed == Spec => []WellFormed
<1>1. HeapIsTyped => WellFormed
  <2> SUFFICES ASSUME HeapIsTyped PROVE WellFormed
    OBVIOUS
  <2>1. heap \in HeapType /\ heap.oldBytes < heap.nextFull
    BY DEF HeapIsTyped, Heaps
  <2>2. ~(heap.oldBytes >= heap.nextFull)
    BY <2>1 DEF HeapType
  <2> QED
    BY <2>2 DEF HeapIsTyped, WellFormed, FullCollectionsAreCounted, ShouldCollectFull
<1> QED
  BY <1>1, HeapIsTypedInit, HeapIsTypedNext, PTL DEF Spec
=============================================================================
