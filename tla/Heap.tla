-------------------------------- MODULE Heap --------------------------------
(***************************************************************************)
(* The garbage-collected heap of one VM thread (src/src/heap.cpp) under a  *)
(* program: allocation with pools, the generations and their remembered    *)
(* set, the stop-the-world collections, and the incremental one the VM     *)
(* steps before every instruction (src/src/vm.cpp).                        *)
(*                                                                         *)
(* heap is the Heap object with the marks, generations and references of   *)
(* its objects, a record on which the functions of the code are operators; *)
(* a step of the specification is one instruction: its collectGarbageStep, *)
(* its effect on the objects, its collection if it ends with one.  Objects *)
(* are memory cells, of one type and of size 1: the code does not look at  *)
(* types but to find the references and the pool.  StaticMethod stands for *)
(* the native method objects (g_arrayPushMethod ...) that only a C++       *)
(* static points to, and that have a pool of their own; accesses to the    *)
(* methods of arrays and strings fetch it.  It refers to nothing.           *)
(***************************************************************************)
EXTENDS Naturals, FiniteSets

CONSTANTS
    MaxCells,               \* bound: memory cells for objects
    MaxRefs,                \* bound: references of one object
    WorkLimit,              \* 2, at the call of collectGarbageStep in the VM
    MinorLimit,             \* 8, in shouldCollectFull
    BaseYoung, BaseFull,    \* g_baseYoungBytes, g_baseFullBytes
    SlackYoung, SlackFull   \* 4096 and 65536, in refreshAccounting

ASSUME HeapAssumption ==
    /\ MaxCells \in Nat
    /\ MaxRefs \in Nat
    /\ WorkLimit \in Nat \ {0}
    /\ MinorLimit \in Nat \ {0}
    /\ BaseYoung \in Nat \ {0} /\ BaseFull \in Nat \ {0}
    /\ SlackYoung \in Nat \ {0} /\ SlackFull \in Nat \ {0}

StaticMethod == 0
Cells == 1 .. MaxCells
Objects == Cells \cup {StaticMethod}
Null == MaxCells + 1

VARIABLES
    heap,          \* the Heap
    roots,         \* what VM::markRoots visits: globals, stacks, frames, tasks
    incremental,   \* history: an incremental collection was begun
    corrupt        \* a freed object was used: the behaviour is undefined

vars == <<heap, roots, incremental, corrupt>>

HeapType ==
    [ objects    : SUBSET Objects,              \* the list, and for an object ...
      behind     : [Objects -> SUBSET Objects], \* ... of it, those behind it
      pool       : SUBSET Objects,              \* destroyed, for reuse
      fresh      : 1 .. MaxCells + 1,           \* the next cell of operator new
      refs       : [Objects -> SUBSET Objects],
      marked     : SUBSET Objects,
      gray       : SUBSET Objects,              \* grayStack
      old        : SUBSET Objects,              \* isOldGeneration
      age        : [Objects -> {0, 1}],         \* of a young object
      remembered : SUBSET Objects,              \* rememberedSet
      bytes      : Nat,
      oldBytes   : Nat,
      nextYoung  : Nat,
      nextFull   : Nat,
      sinceFull  : Nat,                         \* minorCollectionsSinceFull
      state      : {"IDLE", "MARKING", "SWEEPING"},
      mode       : {"YOUNG", "FULL"},
      sweepAt    : Objects \cup {Null},         \* sweepPointer
      sweepPrev  : Objects \cup {Null} ]

\* Two collections, an incremental and a stop-the-world one, can pass the limit
\* of minor collections together.
TypeOK ==
    /\ heap \in HeapType
    /\ heap.sinceFull <= MinorLimit + 1
    /\ roots \in SUBSET Objects
    /\ incremental \in BOOLEAN
    /\ corrupt \in BOOLEAN

\* What is reachable from S when the references of Black are not followed.
Reach(refs, S, Black) ==
    {o \in Objects :
        \A Y \in SUBSET (Objects \ S) :
            (\A p \in (S \cup Y) \ Black : refs[p] \subseteq S \cup Y) => o \in S \cup Y}

-----------------------------------------------------------------------------
(* Accounting, allocation, write barrier                                   *)

Larger(a, b) == IF a >= b THEN a ELSE b

\* Mutant: the full threshold does not follow the old generation.
MutRefreshAccounting(h) ==
    LET oldCount   == Cardinality(h.objects \cap h.old)
        youngCount == Cardinality(h.objects \ h.old)
    IN  [h EXCEPT !.bytes = oldCount + youngCount,
                  !.oldBytes = oldCount,
                  !.nextYoung = Larger(BaseYoung, 2 * youngCount + SlackYoung),
                  !.nextFull = BaseFull]

RefreshAccounting(h) ==
    LET oldCount   == Cardinality(h.objects \cap h.old)
        youngCount == Cardinality(h.objects \ h.old)
    IN  [h EXCEPT !.bytes = oldCount + youngCount,
                  !.oldBytes = oldCount,
                  !.nextYoung = Larger(BaseYoung, 2 * youngCount + SlackYoung),
                  !.nextFull = Larger(BaseFull, 2 * oldCount + SlackFull)]

ShouldCollectYoung(h) ==
    (IF h.bytes > h.oldBytes THEN h.bytes - h.oldBytes ELSE h.bytes) >= h.nextYoung

ShouldCollectFull(h) == h.oldBytes >= h.nextFull \/ h.sinceFull >= MinorLimit

\* allocate* and linkObject: a cell of the pool if there is one, else a new
\* one, with new fields, at the front of the list.
CanAllocate(h, c) ==
    /\ c \in Cells
    /\ IF h.pool \cap Cells # {} THEN c \in h.pool ELSE c = h.fresh

Allocate(h, c, children) ==
    [h EXCEPT !.objects = @ \cup {c},
              !.behind = [o \in Objects |-> IF o = c THEN h.objects ELSE @[o] \ {c}],
              !.pool = @ \ {c},
              !.fresh = IF c = @ THEN @ + 1 ELSE @,
              !.refs[c] = children,
              !.marked = @ \ {c},
              !.old = @ \ {c},
              !.age[c] = 0,
              !.remembered = @ \ {c},
              !.bytes = @ + 1]

WriteBarrier(h, owner, child) ==
    IF owner \in h.old /\ child \notin h.old
    THEN [h EXCEPT !.remembered = @ \cup {owner}]
    ELSE h

-----------------------------------------------------------------------------
(* Collecting                                                              *)

\* markObject, for every object of S
Mark(h, S) ==
    [h EXCEPT !.marked = @ \cup S, !.gray = @ \cup (S \ h.marked)]

\* markRememberedObjects
MarkRemembered(h) == Mark(h, h.remembered \cap h.old)

\* Mutant: marking stops at old objects, as the remembered set would allow if
\* it were complete.
MutTrace(h) ==
    [h EXCEPT !.marked = @ \cup Reach(h.refs, h.gray, (h.marked \ h.gray) \cup (h.old \ h.remembered)),
              !.gray = {}]

\* traceReferences: black objects are not visited again.
Trace(h) ==
    [h EXCEPT !.marked = @ \cup Reach(h.refs, h.gray, h.marked \ h.gray), !.gray = {}]

\* The survivors of a sweep lose their mark and grow older.
Survive(h, S) ==
    [h EXCEPT !.marked = @ \ S,
              !.old = @ \cup {o \in S : h.age[o] = 1},
              !.age = [o \in Objects |-> IF o \in S THEN 1 ELSE @[o]]]

\* The destructors run; references and flags are set anew by the next use of
\* the memory.
Destroy(h, S) ==
    [h EXCEPT !.pool = @ \cup S,
              !.behind = [o \in Objects |-> IF o \in S THEN {} ELSE @[o] \ S],
              !.refs = [o \in Objects |-> IF o \in S THEN {} ELSE @[o]],
              !.old = @ \ S,
              !.age = [o \in Objects |-> IF o \in S THEN 0 ELSE @[o]],
              !.remembered = @ \ S]

Spared(h, mode) == IF mode = "YOUNG" THEN h.old ELSE {}

\* Mutant: a full collection spares the old generation, too.
MutSweep(h, mode) ==
    LET marked == h.objects \cap h.marked
        kept   == marked \cup (h.objects \cap h.old)
    IN  [Destroy(Survive(h, marked), h.objects \ kept) EXCEPT !.objects = kept]

\* Mutant: the mark of an old survivor is not cleared.
MutSweepKeepsMarks(h, mode) ==
    LET marked == h.objects \cap h.marked
        kept   == marked \cup (h.objects \cap Spared(h, mode))
    IN  [Destroy(Survive(h, marked), h.objects \ kept)
            EXCEPT !.objects = kept, !.marked = marked \cap h.old]

Sweep(h, mode) ==
    LET marked == h.objects \cap h.marked
        kept   == marked \cup (h.objects \cap Spared(h, mode))
    IN  [Destroy(Survive(h, marked), h.objects \ kept) EXCEPT !.objects = kept]

\* The bookkeeping at the end of a collection.
EndCollection(h, mode) ==
    RefreshAccounting(
        [h EXCEPT !.remembered = IF mode = "FULL" THEN {} ELSE @ \cap h.old,
                  !.sinceFull = IF mode = "FULL" THEN 0 ELSE @ + 1])

\* VM::collectGarbage with the roots r
CollectGarbage(h, r, mode) ==
    LET rooted == Mark(h, r)
        grayed == IF mode = "YOUNG" THEN MarkRemembered(rooted) ELSE rooted
    IN  EndCollection(Sweep(Trace(grayed), mode), mode)

MaybeCollectGarbage(h, r) ==
    IF ShouldCollectFull(h) THEN CollectGarbage(h, r, "FULL")
    ELSE IF ShouldCollectYoung(h) THEN CollectGarbage(h, r, "YOUNG")
    ELSE h

-----------------------------------------------------------------------------
(* The incremental collection                                              *)

BeginStep(h) ==
    IF h.state # "IDLE" THEN h
    ELSE IF ShouldCollectFull(h) THEN [h EXCEPT !.mode = "FULL", !.state = "MARKING"]
    ELSE IF ShouldCollectYoung(h)
         THEN MarkRemembered([h EXCEPT !.mode = "YOUNG", !.state = "MARKING"])
    ELSE h

Blacken(h) ==
    IF h.gray = {} THEN h
    ELSE LET o == CHOOSE o \in h.gray : TRUE
         IN  Mark([h EXCEPT !.gray = @ \ {o}], h.refs[o])

\* The first object of a part of the list.
FirstOf(h, part) ==
    IF part = {} THEN Null
    ELSE CHOOSE o \in part : part \ {o} \subseteq h.behind[o]

EndMarking(h) ==
    IF h.gray # {} THEN h
    ELSE [h EXCEPT !.state = "SWEEPING",
                   !.sweepAt = FirstOf(h, h.objects),
                   !.sweepPrev = Null]

\* One object of the sweep.  When nothing before it was kept, the list begins
\* behind it from now on, also without what was allocated since the sweep began.
SweepOne(h) ==
    LET o    == h.sweepAt
        rest == h.objects \cap h.behind[o]
        next == FirstOf(h, rest)
    IN  IF o = Null THEN h
        ELSE IF o \in h.marked \cup Spared(h, h.mode)
        THEN [Survive(h, {o} \cap h.marked) EXCEPT !.sweepAt = next, !.sweepPrev = o]
        ELSE [Destroy(h, {o})
                EXCEPT !.objects = IF h.sweepPrev = Null THEN rest ELSE @ \ {o},
                       !.sweepAt = next]

EndSweeping(h) ==
    IF h.sweepAt # Null THEN h
    ELSE [EndCollection(h, h.mode) EXCEPT !.state = "IDLE", !.sweepPrev = Null]

\* A collection between two steps may have destroyed the objects that the sweep
\* stands at.
SweepLost(h) ==
    h.state = "SWEEPING" /\ (h.sweepAt \in h.pool \/ h.sweepPrev \in h.pool)

\* WorkLimit times
Repeated(F(_), h) ==
    LET f[n \in 0 .. WorkLimit] == IF n = 0 THEN h ELSE F(f[n - 1])
    IN  f[WorkLimit]

MarkSome(h)  == EndMarking(Repeated(Blacken, h))
SweepSome(h) == EndSweeping(Repeated(SweepOne, h))

CollectGarbageStep(h) ==
    LET begun == BeginStep(h)
    IN  CASE begun.state = "IDLE"     -> begun
          [] begun.state = "MARKING"  -> MarkSome(begun)
          [] begun.state = "SWEEPING" -> SweepSome(begun)

-----------------------------------------------------------------------------
(* The program                                                             *)

Init ==
    /\ heap = [ objects    |-> {StaticMethod},
                behind     |-> [o \in Objects |-> {}],
                pool       |-> {},
                fresh      |-> 1,
                refs       |-> [o \in Objects |-> {}],
                marked     |-> {},
                gray       |-> {},
                old        |-> {},
                age        |-> [o \in Objects |-> 0],
                remembered |-> {},
                bytes      |-> 1,
                oldBytes   |-> 0,
                nextYoung  |-> BaseYoung,
                nextFull   |-> BaseFull,
                sinceFull  |-> 0,
                state      |-> "IDLE",
                mode       |-> "FULL",
                sweepAt    |-> Null,
                sweepPrev  |-> Null ]
    /\ roots = {}
    /\ incremental = FALSE
    /\ corrupt = FALSE

\* A program that holds, or reaches, a destroyed object has no defined
\* behaviour: the model ends.
Usable ==
    /\ ~corrupt
    /\ Reach(heap.refs, roots, {}) \cap heap.pool = {}

\* Every instruction begins with a step of the incremental collection, which may
\* read a destroyed object ...
StepCorrupts ==
    /\ Usable
    /\ SweepLost(heap)
    /\ corrupt' = TRUE
    /\ UNCHANGED <<heap, roots, incremental>>

\* A method of an array is fetched after its object was destroyed.
FetchDestroyed ==
    /\ Usable
    /\ StaticMethod \in heap.pool
    /\ corrupt' = TRUE
    /\ UNCHANGED <<heap, roots, incremental>>

\* ... and goes on with the heap h that the step leaves.
\* A new object of some objects on the stack, and of a static method perhaps:
Create(h, c, children) ==
    /\ CanAllocate(h, c)
    /\ children \subseteq roots \cup ({StaticMethod} \ heap.pool)
    /\ Cardinality(children) <= MaxRefs
    /\ roots' = roots \cup {c}

\* most instructions that allocate end with maybeCollectGarbage, ...
New(h, c, children) ==
    /\ Create(h, c, children)
    /\ heap' = MaybeCollectGarbage(Allocate(h, c, children), roots')

\* ... the addition of two arrays does not.
NewSum(h, c, children) ==
    /\ Create(h, c, children)
    /\ heap' = Allocate(h, c, children)

CanLink(o, c) == Cardinality(heap.refs[o] \cup {c}) <= MaxRefs
Link(h, o, c) == [h EXCEPT !.refs[o] = @ \cup {c}]

\* Assignment of a field or an element
Store(h, o, c) ==
    /\ CanLink(o, c)
    /\ heap' = WriteBarrier(Link(h, o, c), o, c)
    /\ UNCHANGED roots

\* array.push(x), a native without a write barrier
Push(h, o, c) ==
    /\ CanLink(o, c)
    /\ heap' = MaybeCollectGarbage(Link(h, o, c), roots)
    /\ UNCHANGED roots

\* A field is overwritten, an element removed.
Unlink(h, o, c) ==
    /\ heap' = [h EXCEPT !.refs[o] = @ \ {c}]
    /\ UNCHANGED roots

Load(h, c) == heap' = h /\ roots' = roots \cup {c}
Drop(h, o) == heap' = h /\ roots' = roots \ {o}
Other(h)   == heap' = h /\ UNCHANGED roots

\* gcCollect(), and the end of callNative
GcCollect(h) ==
    /\ heap' = MaybeCollectGarbage(CollectGarbage(h, roots, "FULL"), roots)
    /\ UNCHANGED roots

Instruction(h) ==
    \/ \E c \in Cells, children \in SUBSET Objects :
          New(h, c, children) \/ NewSum(h, c, children)
    \/ \E o \in roots \ {StaticMethod} :
          \/ \E c \in roots : Store(h, o, c) \/ Push(h, o, c)
          \/ \E c \in heap.refs[o] : Unlink(h, o, c) \/ Load(h, c)
    \/ \E o \in roots : Drop(h, o)
    \/ GcCollect(h) \/ Other(h)

\* Bound: the model ends with the first incremental collection.
FirstIncremental == incremental => heap.state # "IDLE"

Run ==
    /\ Usable
    /\ ~SweepLost(heap)
    /\ FirstIncremental
    /\ LET h == CollectGarbageStep(heap) IN
          Instruction(h)
    /\ incremental' = (incremental \/ BeginStep(heap).state # "IDLE")
    /\ UNCHANGED corrupt

Next == Run \/ StepCorrupts \/ FetchDestroyed

Spec == Init /\ [][Next]_vars
-----------------------------------------------------------------------------
(* Properties                                                              *)

Live == Reach(heap.refs, roots, {})
Traceable == Reach(heap.refs, roots \cup heap.remembered, {})

\* Stop-the-world collection, young or full, never destroys what the program or
\* a later collection can reach, although the remembered set is incomplete:
\* a full collection forgets it, objects grow old before their children do, and
\* push has no write barrier.
StopTheWorldIsSafe == ~incremental => Traceable \subseteq heap.objects

\* Between collections no object carries a mark: a mark left over would hide
\* the object from the next one, and what it refers to would be destroyed.
MarksAreCleared == ~incremental => heap.marked = {} /\ heap.gray = {}

\* gcCollect() leaves no garbage.
GcCollectIsExact ==
    [][GcCollect(heap) /\ ~incremental' => heap'.objects = Reach(heap'.refs, roots', {})]_vars

\* The threshold of old bytes never causes a full collection: it is raised past
\* the old generation whenever that is measured.  Only the count of minor
\* collections does.
FullCollectionsAreCounted == ShouldCollectFull(heap) => heap.sinceFull >= MinorLimit

\* The state is well formed, and only counted minor collections make a full one.
WellFormed == TypeOK /\ FullCollectionsAreCounted

-----------------------------------------------------------------------------
(* What a document says, and the code does not                             *)

\* README.md:135, collectGarbageStep amortizes the pauses of the collector
\* across execution cycles: what the program can reach is not destroyed by it.
NoLiveObjectFreed == Live \cap heap.pool = {}
=============================================================================
