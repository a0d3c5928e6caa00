---------------------------- MODULE VmStackProofs ----------------------------
(* Theorems about VmStack for every set of tasks, cells and values, every  *)
(* capacity and every bound.  The invariant is a predicate of a state s of *)
(* the VM, the lives l of its tasks, the values v of its variables and the *)
(* cells z that are lost, so that each function of the VM can be shown to  *)
(* keep it.                                                                *)
EXTENDS VmStack, FiniteSetTheorems, SequenceTheorems, TLAPS

VmStates ==
    [stack : [Tasks -> Seq(Values)], cap : [Tasks -> Nat], gen : [Tasks -> Nat],
     frames : [Tasks -> Seq([slots : Pointers, base : Pointers])],
     handlers : [Tasks -> Seq([frame : Nat, level : Pointers])],
     open : [Tasks -> Seq(Cells)],
     place : [Cells -> Places], closed : [Cells -> Values], used : SUBSET Cells]

Fits(s) == \A t \in Tasks : Len(s.stack[t]) <= s.cap[t] /\ Len(s.frames[t]) <= MaxFrames

\* The frames of t nest: each begins above the locals of those below it.
FramesNest(s, t) ==
    LET f == s.frames[t]
    IN  /\ f # <<>> /\ f[1].base.index = 0
        /\ \A i \in DOMAIN f :
              /\ f[i].base.index <= f[i].slots.index
              /\ f[i].slots.index <= Top(s, t)
              /\ \A j \in DOMAIN f : i < j => f[i].slots.index <= f[j].base.index

\* The try blocks of t nest in its frames and in each other.
HandlersNest(s, t) ==
    LET f == s.frames[t]
        q == s.handlers[t]
    IN  \A k \in DOMAIN q :
          /\ q[k].frame \in DOMAIN f
          /\ f[q[k].frame].slots.index <= q[k].level.index
          /\ q[k].level.index <= Top(s, t)
          /\ \A i \in DOMAIN f : q[k].frame < i => q[k].level.index <= f[i].base.index
          /\ \A j \in DOMAIN q : j < k =>
                q[j].frame <= q[k].frame /\ q[j].level.index <= q[k].level.index

\* The open cells of t stand from the top down.  They are locals of its frames,
\* but for the lost ones; those stay above the locals of the first frame, too, so
\* that its end closes them.
OpenInOrder(s, t, z) ==
    LET q == s.open[t]
    IN  \A k \in DOMAIN q :
          /\ s.place[q[k]].task = t
          /\ q[k] \in z \/ s.place[q[k]].index < Top(s, t)
          /\ \A j \in DOMAIN q : j < k => s.place[q[j]].index > s.place[q[k]].index
          /\ \A i \in DOMAIN s.frames[t] :
                \/ s.place[q[k]].index < s.frames[t][i].base.index
                \/ s.place[q[k]].index >= s.frames[t][i].slots.index
                \/ q[k] \in z /\ i # 1

Descending(s, t) ==
    \A j, k \in DOMAIN s.open[t] :
        j < k => s.place[s.open[t][j]].index > s.place[s.open[t][k]].index

\* All that points into the storage of t points to where it is.
Current(s, t) ==
    /\ \A i \in DOMAIN s.frames[t] :
          s.frames[t][i].slots.gen = s.gen[t] /\ s.frames[t][i].base.gen = s.gen[t]
    /\ \A k \in DOMAIN s.handlers[t] : s.handlers[t][k].level.gen = s.gen[t]
    /\ \A k \in DOMAIN s.open[t] : s.place[s.open[t][k]].gen = s.gen[t]

Empty(s, t) ==
    s.stack[t] = <<>> /\ s.frames[t] = <<>> /\ s.handlers[t] = <<>> /\ s.open[t] = <<>>

TaskInv(s, t, z) == FramesNest(s, t) /\ HandlersNest(s, t) /\ OpenInOrder(s, t, z) /\ Current(s, t)

\* Where a cell is, and that the value there is that of its variable if it is
\* not lost.
CellInv(s, l, v, z, c) ==
    IF s.place[c] = Own
    THEN c \in s.used => c \in z \/ s.closed[c] = v[c]
    ELSE LET t == s.place[c].task
         IN  /\ c \in s.used
             /\ \/ l[t] = "failed"
                \/ /\ l[t] = "live" /\ c \in Elements(s.open[t])
                   /\ c \in z \/ Slot(s, t, s.place[c].index) = v[c]

\* The stack st of t keeps the values of its open upvalues.
OpenAreIn(s, t, z, st) ==
    \A k \in DOMAIN s.open[t] :
        LET i == s.place[s.open[t][k]].index
        IN  s.open[t][k] \in z \/ (i < Top(s, t) /\ i < Len(st) /\ st[i + 1] = s.stack[t][i + 1])

Good(s, l, v, z) ==
    /\ s \in VmStates /\ Fits(s)
    /\ \A t \in Tasks : IF l[t] = "live" THEN TaskInv(s, t, z) ELSE Empty(s, t)
    /\ \A c \in Cells : CellInv(s, l, v, z, c)

Lives == [Tasks -> {"unborn", "live", "completed", "failed"}]
Variables == [Cells -> Values]

VmInv ==
    /\ Good(m, life, variable, lost)
    /\ life \in Lives /\ variable \in Variables /\ lost \in SUBSET Cells
    /\ ended \in {"no", "moved", "abandoned"}

-----------------------------------------------------------------------------
(* Numbers, sequences                                                      *)

LEMMA LeastNatural ==
    ASSUME NEW S \in SUBSET Nat, S # {}
    PROVE  \E x \in S : \A y \in S : x <= y
<1> DEFINE R == StrictSubsetOrdering(Nat)
           F == FiniteSubsetsOf(Nat)
           T == {1 .. n : n \in S}
<1>1. IsWellFoundedOn(R, F)
  BY FS_StrictSubsetOrderingWellFounded
<1>2. T \subseteq F /\ T # {}
  <2>1. \A n \in Nat : IsFiniteSet(1 .. n) /\ 1 .. n \in SUBSET Nat
    BY FS_Interval
  <2> QED
    BY <2>1 DEF FiniteSubsetsOf
<1>3. \E x \in T : \A y \in T : ~(<<y, x>> \in R)
  <2> HIDE DEF R, F, T
  <2> QED
    BY <1>1, <1>2, WFMin
<1>4. PICK x \in S : \A y \in S : ~(<<1 .. y, 1 .. x>> \in R)
  BY <1>3
<1>5. ASSUME NEW y \in S, y < x PROVE FALSE
  <2>1. 1 .. y \subseteq 1 .. x
    BY <1>5
  <2>2. x \in 1 .. x /\ x \notin 1 .. y
    BY <1>5
  <2>3. <<1 .. y, 1 .. x>> \in (SUBSET Nat) \X (SUBSET Nat)
    OBVIOUS
  <2>4. <<1 .. y, 1 .. x>> \in R
    BY <2>1, <2>2, <2>3 DEF StrictSubsetOrdering
  <2> QED
    BY <2>4, <1>4
<1> QED
  BY <1>5

LEMMA MinIs ==
    ASSUME NEW S \in SUBSET Nat, S # {}
    PROVE  Min(S) \in S /\ \A y \in S : Min(S) <= y
  BY LeastNatural DEF Min

LEMMA MaxIs ==
    ASSUME NEW S \in SUBSET Nat, S # {}, NEW n \in Nat, \A y \in S : y <= n
    PROVE  Max(S) \in S /\ \A y \in S : y <= Max(S)
<1> DEFINE U == {x \in Nat : \A y \in S : y <= x}
<1>1. PICK x \in U : \A z \in U : x <= z
  <2>1. n \in U /\ U \in SUBSET Nat
    OBVIOUS
  <2> HIDE DEF U
  <2> QED
    BY <2>1, LeastNatural
<1>2. x \in S
  <2>1. CASE x = 0
    <3>1. PICK y \in S : y <= 0
      BY <2>1, <1>1
    <3> QED
      BY <3>1, <2>1
  <2>2. CASE x # 0 /\ x \notin S
    <3>1. x - 1 \in U
      BY <2>2
    <3> QED
      BY <3>1, <1>1
  <2> QED
    BY <2>1, <2>2
<1> QED
  BY <1>2 DEF Max

\* The part of 1 .. n that a decreasing property holds of is counted by its end.
LEMMA InitialSegment ==
    ASSUME NEW n \in Nat, NEW S \in SUBSET (1 .. n),
           \A i \in S : \A j \in 1 .. n : j < i => j \in S
    PROVE  Cardinality(S) \in 0 .. n /\ S = 1 .. Cardinality(S)
<1> DEFINE G == (1 .. n + 1) \ S
<1>1. n + 1 \in G /\ G \in SUBSET Nat
  OBVIOUS
<1>2. PICK x \in G : \A y \in G : x <= y
  <2> HIDE DEF G
  <2> QED
    BY <1>1, LeastNatural
<1>3. S = 1 .. x - 1
  <2>1. \A y \in 1 .. x - 1 : y \in S
    BY <1>2
  <2>2. \A y \in S : y < x
    <3>1. ASSUME NEW y \in S, ~(y < x) PROVE FALSE
      <4>1. y # x /\ x < y /\ x \in 1 .. n
        BY <1>2, <3>1
      <4> QED
        BY <4>1, <1>2
    <3> QED
      BY <3>1
  <2>3. x \in Nat
    BY <1>2
  <2>4. \A y \in S : y \in 1 .. x - 1
    BY <2>2, <2>3
  <2> QED
    BY <2>1, <2>4
<1>4. Cardinality(1 .. x - 1) = x - 1
  <2>1. x \in Nat \ {0} /\ x - 1 \in Int /\ 1 \in Int
    BY <1>2
  <2> DEFINE k == x - 1
  <2>2. Cardinality(1 .. k) = IF 1 > k THEN 0 ELSE k - 1 + 1
    BY <2>1, FS_Interval
  <2> QED
    BY <2>1, <2>2
<1> QED
  BY <1>2, <1>3, <1>4

-----------------------------------------------------------------------------
(* States of the VM, field by field                                        *)

LEMMA StateFields ==
    ASSUME NEW s \in VmStates
    PROVE  /\ s.stack \in [Tasks -> Seq(Values)] /\ s.cap \in [Tasks -> Nat] /\ s.gen \in [Tasks -> Nat]
           /\ s.frames \in [Tasks -> Seq([slots : Pointers, base : Pointers])]
           /\ s.handlers \in [Tasks -> Seq([frame : Nat, level : Pointers])]
           /\ s.open \in [Tasks -> Seq(Cells)]
           /\ s.place \in [Cells -> Places] /\ s.closed \in [Cells -> Values] /\ s.used \in SUBSET Cells
           /\ s = [stack |-> s.stack, cap |-> s.cap, gen |-> s.gen, frames |-> s.frames,
                   handlers |-> s.handlers, open |-> s.open, place |-> s.place,
                   closed |-> s.closed, used |-> s.used]
  BY DEF VmStates

LEMMA TaskFields ==
    ASSUME NEW s \in VmStates, NEW t \in Tasks
    PROVE  /\ s.stack[t] \in Seq(Values) /\ Top(s, t) \in Nat /\ DOMAIN s.stack[t] = 1 .. Top(s, t)
           /\ s.cap[t] \in Nat /\ s.gen[t] \in Nat
           /\ s.frames[t] \in Seq([slots : Pointers, base : Pointers])
           /\ Len(s.frames[t]) \in Nat /\ DOMAIN s.frames[t] = 1 .. Len(s.frames[t])
           /\ \A i \in DOMAIN s.frames[t] :
                 /\ s.frames[t][i] \in [slots : Pointers, base : Pointers]
                 /\ s.frames[t][i].slots.index \in Nat /\ s.frames[t][i].base.index \in Nat
           /\ s.handlers[t] \in Seq([frame : Nat, level : Pointers])
           /\ Len(s.handlers[t]) \in Nat /\ DOMAIN s.handlers[t] = 1 .. Len(s.handlers[t])
           /\ \A k \in DOMAIN s.handlers[t] :
                 /\ s.handlers[t][k] \in [frame : Nat, level : Pointers]
                 /\ s.handlers[t][k].frame \in Nat /\ s.handlers[t][k].level.index \in Nat
           /\ s.open[t] \in Seq(Cells) /\ Len(s.open[t]) \in Nat /\ DOMAIN s.open[t] = 1 .. Len(s.open[t])
           /\ \A k \in DOMAIN s.open[t] : s.open[t][k] \in Cells
<1> DEFINE F == [slots : Pointers, base : Pointers]
           H == [frame : Nat, level : Pointers]
<1>1. /\ s.stack[t] \in Seq(Values) /\ s.cap[t] \in Nat /\ s.gen[t] \in Nat
      /\ s.frames[t] \in Seq(F) /\ s.handlers[t] \in Seq(H) /\ s.open[t] \in Seq(Cells)
  <2> HIDE DEF F, H
  <2> QED
    BY StateFields, ZenonT(30) DEF F, H
<1>2. \A i \in DOMAIN s.frames[t] : s.frames[t][i] \in F
  <2> HIDE DEF F
  <2> QED
    BY <1>1
<1>3. \A k \in DOMAIN s.handlers[t] : s.handlers[t][k] \in H
  <2> HIDE DEF H
  <2> QED
    BY <1>1
<1>4. \A f \in F : f.slots.index \in Nat /\ f.base.index \in Nat
  BY DEF Pointers
<1>5. \A h \in H : h.frame \in Nat /\ h.level.index \in Nat
  BY DEF Pointers
<1>6. /\ Top(s, t) \in Nat /\ DOMAIN s.stack[t] = 1 .. Top(s, t)
      /\ Len(s.open[t]) \in Nat /\ DOMAIN s.open[t] = 1 .. Len(s.open[t])
      /\ \A k \in DOMAIN s.open[t] : s.open[t][k] \in Cells
  BY <1>1 DEF Top
<1>7. /\ Len(s.frames[t]) \in Nat /\ DOMAIN s.frames[t] = 1 .. Len(s.frames[t])
      /\ Len(s.handlers[t]) \in Nat /\ DOMAIN s.handlers[t] = 1 .. Len(s.handlers[t])
  <2> HIDE DEF F, H
  <2> QED
    BY <1>1
<1> HIDE DEF F, H
<1>8. /\ \A i \in DOMAIN s.frames[t] :
           /\ s.frames[t][i] \in F
           /\ s.frames[t][i].slots.index \in Nat /\ s.frames[t][i].base.index \in Nat
      /\ \A k \in DOMAIN s.handlers[t] :
           /\ s.handlers[t][k] \in H
           /\ s.handlers[t][k].frame \in Nat /\ s.handlers[t][k].level.index \in Nat
  BY <1>2, <1>3, <1>4, <1>5
<1> QED
  BY <1>1, <1>6, <1>7, <1>8 DEF F, H

LEMMA PlaceFields ==
    ASSUME NEW s \in VmStates, NEW c \in Cells
    PROVE  /\ s.place[c] \in Places /\ s.place[c].index \in Nat /\ s.place[c].gen \in Nat
           /\ s.place[c] = Own \/ s.place[c].task \in Tasks
           /\ s.place[c].task = NoTask => s.place[c] = Own
           /\ s.place[c] = Own => s.place[c].task = NoTask
<1>1. s.place[c] \in Places
  BY StateFields
<1>2. ASSUME NEW p \in Places
      PROVE  /\ p.index \in Nat /\ p.gen \in Nat /\ (p = Own \/ p.task \in Tasks)
             /\ p = Own => p.task = NoTask
  BY DEF Places, Own
<1> QED
  BY <1>1, <1>2, StackAssumption

LEMMA FunctionIsSeq ==
    ASSUME NEW S, NEW h \in Nat, NEW f \in [1 .. h -> S]
    PROVE  f \in Seq(S) /\ Len(f) = h
  OBVIOUS

-----------------------------------------------------------------------------
(* ensureTaskStackCapacity moves a stack and all that points into it       *)

LEMMA MoveKeepsTypes ==
    ASSUME NEW s \in VmStates, NEW t \in Tasks
    PROVE  /\ \A f \in [slots : Pointers, base : Pointers] :
                 /\ MoveFrame(s, f, t) \in [slots : Pointers, base : Pointers]
                 /\ MoveFrame(s, f, t).slots.index = f.slots.index
                 /\ MoveFrame(s, f, t).base.index = f.base.index
                 /\ MoveFrame(s, f, t).slots.gen = s.gen[t] + 1
                 /\ MoveFrame(s, f, t).base.gen = s.gen[t] + 1
           /\ \A h \in [frame : Nat, level : Pointers] :
                 /\ MoveHandler(s, h, t) \in [frame : Nat, level : Pointers]
                 /\ MoveHandler(s, h, t).frame = h.frame
                 /\ MoveHandler(s, h, t).level.index = h.level.index
                 /\ MoveHandler(s, h, t).level.gen = s.gen[t] + 1
           /\ \A p \in Places : p # Own /\ p.task \in Tasks =>
                 /\ Moved(s, p, t) \in Places /\ Moved(s, p, t) # Own
                 /\ Moved(s, p, t).task = p.task
                 /\ Moved(s, p, t).index = p.index
                 /\ Moved(s, p, t).gen = s.gen[t] + 1
<1>1. s.gen[t] + 1 \in Nat
  BY TaskFields
<1>2. ASSUME NEW p \in Pointers
      PROVE  /\ Moved(s, p, t) \in Pointers
             /\ Moved(s, p, t).index = p.index /\ Moved(s, p, t).gen = s.gen[t] + 1
  BY <1>1 DEF Moved, Pointers
<1>3. ASSUME NEW f \in [slots : Pointers, base : Pointers]
      PROVE  /\ MoveFrame(s, f, t) \in [slots : Pointers, base : Pointers]
             /\ MoveFrame(s, f, t).slots.index = f.slots.index
             /\ MoveFrame(s, f, t).base.index = f.base.index
             /\ MoveFrame(s, f, t).slots.gen = s.gen[t] + 1
             /\ MoveFrame(s, f, t).base.gen = s.gen[t] + 1
  BY <1>2 DEF MoveFrame
<1>4. ASSUME NEW h \in [frame : Nat, level : Pointers]
      PROVE  /\ MoveHandler(s, h, t) \in [frame : Nat, level : Pointers]
             /\ MoveHandler(s, h, t).frame = h.frame
             /\ MoveHandler(s, h, t).level.index = h.level.index
             /\ MoveHandler(s, h, t).level.gen = s.gen[t] + 1
  <2>1. MoveHandler(s, h, t) = [frame |-> h.frame, level |-> Moved(s, h.level, t)]
    BY DEF MoveHandler
  <2> QED
    BY <2>1, <1>2
<1>5. ASSUME NEW p \in Places, p # Own, p.task \in Tasks
      PROVE  /\ Moved(s, p, t) \in Places /\ Moved(s, p, t) # Own
             /\ Moved(s, p, t).task = p.task
             /\ Moved(s, p, t).index = p.index
             /\ Moved(s, p, t).gen = s.gen[t] + 1
  <2>1. p \in [task : Tasks, gen : Nat, index : Nat]
    BY <1>5 DEF Places
  <2>2. Moved(s, p, t) = [task |-> p.task, gen |-> s.gen[t] + 1, index |-> p.index]
    BY <2>1 DEF Moved
  <2>3. Moved(s, p, t) \in [task : Tasks, gen : Nat, index : Nat]
    BY <2>1, <2>2, <1>1
  <2> QED
    BY <2>1, <2>2, <2>3, StackAssumption DEF Places, Own
<1> QED
  BY <1>3, <1>4, <1>5

LEMMA EnsureMoves ==
    ASSUME NEW s \in VmStates, NEW t \in Tasks, NEW n \in Nat, Needs(s, t, n),
           \A k \in DOMAIN s.open[t] : s.place[s.open[t][k]].task = t,
           NEW r, r = Ensure(s, t, n)
    PROVE  /\ r \in VmStates
           /\ r.stack = s.stack /\ r.open = s.open /\ r.closed = s.closed /\ r.used = s.used
           /\ r.cap[t] >= n /\ r.cap[t] >= s.cap[t]
           /\ \A u \in Tasks : u # t => /\ r.cap[u] = s.cap[u] /\ r.gen[u] = s.gen[u]
                                        /\ r.frames[u] = s.frames[u] /\ r.handlers[u] = s.handlers[u]
           /\ r.gen[t] = s.gen[t] + 1
           /\ r.frames[t] = [i \in DOMAIN s.frames[t] |-> MoveFrame(s, s.frames[t][i], t)]
           /\ r.handlers[t] = [k \in DOMAIN s.handlers[t] |-> MoveHandler(s, s.handlers[t][k], t)]
           /\ r.place = [c \in Cells |-> MovePlace(s, c, t)]
<1> DEFINE K == Max({n, MinCapacity, 2 * s.cap[t]})
           fr == [i \in DOMAIN s.frames[t] |-> MoveFrame(s, s.frames[t][i], t)]
           ha == [k \in DOMAIN s.handlers[t] |-> MoveHandler(s, s.handlers[t][k], t)]
           pl == [c \in Cells |-> MovePlace(s, c, t)]
           F == [slots : Pointers, base : Pointers]
           H == [frame : Nat, level : Pointers]
<1>1. r = [s EXCEPT !.cap[t] = K, !.gen[t] = @ + 1, !.frames[t] = fr, !.handlers[t] = ha, !.place = pl]
  BY DEF Ensure
<1>2. K \in Nat /\ K >= n
  <2>1. 2 * s.cap[t] \in Nat /\ MinCapacity \in Nat
    BY StackAssumption, StateFields
  <2>2. PICK k \in Nat : \A y \in {n, MinCapacity, 2 * s.cap[t]} : y <= k
    <3>1. n + MinCapacity + 2 * s.cap[t] \in Nat
      BY <2>1
    <3>2. \A y \in {n, MinCapacity, 2 * s.cap[t]} : y <= n + MinCapacity + 2 * s.cap[t]
      BY <2>1
    <3> QED
      BY <3>1, <3>2
  <2> DEFINE S == {n, MinCapacity, 2 * s.cap[t]}
  <2>3. S \in SUBSET Nat /\ S # {} /\ n \in S
    BY <2>1
  <2> HIDE DEF S
  <2>4. Max(S) \in S /\ \A y \in S : y <= Max(S)
    BY <2>2, <2>3, MaxIs DEF S
  <2> QED
    BY <2>3, <2>4 DEF S
<1>3. K >= s.cap[t]
  BY <1>2, TaskFields DEF Needs
<1>4. fr \in Seq(F)
  <2> DEFINE h == Len(s.frames[t])
  <2>1. h \in Nat /\ DOMAIN s.frames[t] = 1 .. h
    BY TaskFields
  <2>2. \A i \in 1 .. h : MoveFrame(s, s.frames[t][i], t) \in F
    BY <2>1, MoveKeepsTypes, TaskFields
  <2> HIDE DEF F, h
  <2>3. fr \in [1 .. h -> F]
    BY <2>1, <2>2
  <2> HIDE DEF fr
  <2> QED
    BY <2>1, <2>3, FunctionIsSeq
<1>5. ha \in Seq(H)
  <2> DEFINE h == Len(s.handlers[t])
  <2>1. h \in Nat /\ DOMAIN s.handlers[t] = 1 .. h
    BY TaskFields
  <2>2. \A i \in 1 .. h : MoveHandler(s, s.handlers[t][i], t) \in H
    BY <2>1, MoveKeepsTypes, TaskFields
  <2> HIDE DEF H, h
  <2>3. ha \in [1 .. h -> H]
    BY <2>1, <2>2
  <2> HIDE DEF ha
  <2> QED
    BY <2>1, <2>3, FunctionIsSeq
<1>6. pl \in [Cells -> Places]
  <2>1. ASSUME NEW c \in Cells PROVE MovePlace(s, c, t) \in Places
    <3>1. CASE c \in Elements(s.open[t]) /\ s.place[c].gen = s.gen[t]
      <4>1. MovePlace(s, c, t) = Moved(s, s.place[c], t)
        BY <3>1 DEF MovePlace
      <4>2. s.place[c].task = t
        BY <3>1 DEF Elements
      <4>3. s.place[c] \in Places /\ s.place[c] # Own
        BY <4>2, PlaceFields, StackAssumption
      <4> QED
        BY <4>1, <4>2, <4>3, MoveKeepsTypes
    <3>2. CASE ~(c \in Elements(s.open[t]) /\ s.place[c].gen = s.gen[t])
      BY <3>2, PlaceFields DEF MovePlace
    <3> QED
      BY <3>1, <3>2
  <2> QED
    BY <2>1
<1> HIDE DEF K, fr, ha, pl, F, H
<1>7. /\ s.stack \in [Tasks -> Seq(Values)] /\ s.cap \in [Tasks -> Nat] /\ s.gen \in [Tasks -> Nat]
      /\ s.frames \in [Tasks -> Seq(F)] /\ s.handlers \in [Tasks -> Seq(H)]
      /\ s.open \in [Tasks -> Seq(Cells)] /\ s.closed \in [Cells -> Values] /\ s.used \in SUBSET Cells
  BY StateFields DEF F, H
<1>8. r = [stack |-> s.stack, cap |-> [s.cap EXCEPT ![t] = K], gen |-> [s.gen EXCEPT ![t] = @ + 1],
           frames |-> [s.frames EXCEPT ![t] = fr], handlers |-> [s.handlers EXCEPT ![t] = ha],
           open |-> s.open, place |-> pl, closed |-> s.closed, used |-> s.used]
  <2>1. s = [stack |-> s.stack, cap |-> s.cap, gen |-> s.gen, frames |-> s.frames,
             handlers |-> s.handlers, open |-> s.open, place |-> s.place,
             closed |-> s.closed, used |-> s.used]
    BY StateFields
  <2> QED
    BY <1>1, <2>1
<1>9. /\ [s.cap EXCEPT ![t] = K] \in [Tasks -> Nat] /\ [s.gen EXCEPT ![t] = @ + 1] \in [Tasks -> Nat]
      /\ [s.frames EXCEPT ![t] = fr] \in [Tasks -> Seq(F)]
      /\ [s.handlers EXCEPT ![t] = ha] \in [Tasks -> Seq(H)]
  <2>1. [s.cap EXCEPT ![t] = K] \in [Tasks -> Nat]
    BY <1>2, <1>7
  <2>2. [s.gen EXCEPT ![t] = @ + 1] \in [Tasks -> Nat]
    BY <1>7
  <2>3. [s.frames EXCEPT ![t] = fr] \in [Tasks -> Seq(F)]
    BY <1>4, <1>7
  <2>4. [s.handlers EXCEPT ![t] = ha] \in [Tasks -> Seq(H)]
    BY <1>5, <1>7
  <2> QED
    BY <2>1, <2>2, <2>3, <2>4
<1>10. r \in VmStates
  <2> DEFINE cp == [s.cap EXCEPT ![t] = K]
             gn == [s.gen EXCEPT ![t] = @ + 1]
             fs == [s.frames EXCEPT ![t] = fr]
             hs == [s.handlers EXCEPT ![t] = ha]
  <2>1. /\ cp \in [Tasks -> Nat] /\ gn \in [Tasks -> Nat]
        /\ fs \in [Tasks -> Seq(F)] /\ hs \in [Tasks -> Seq(H)]
        /\ r = [stack |-> s.stack, cap |-> cp, gen |-> gn, frames |-> fs, handlers |-> hs,
                open |-> s.open, place |-> pl, closed |-> s.closed, used |-> s.used]
    BY <1>8, <1>9
  <2> HIDE DEF cp, gn, fs, hs
  <2>2. r \in [stack : [Tasks -> Seq(Values)], cap : [Tasks -> Nat], gen : [Tasks -> Nat],
               frames : [Tasks -> Seq(F)], handlers : [Tasks -> Seq(H)], open : [Tasks -> Seq(Cells)],
               place : [Cells -> Places], closed : [Cells -> Values], used : SUBSET Cells]
    BY <1>6, <1>7, <2>1, SMTT(30)
  <2> QED
    BY <2>2 DEF VmStates, F, H
<1>11. /\ r.stack = s.stack /\ r.open = s.open /\ r.closed = s.closed /\ r.used = s.used
       /\ r.place = pl
       /\ r.cap = [s.cap EXCEPT ![t] = K] /\ r.gen = [s.gen EXCEPT ![t] = @ + 1]
       /\ r.frames = [s.frames EXCEPT ![t] = fr] /\ r.handlers = [s.handlers EXCEPT ![t] = ha]
  BY <1>8
<1>12. /\ r.cap[t] = K /\ r.gen[t] = s.gen[t] + 1 /\ r.frames[t] = fr /\ r.handlers[t] = ha
       /\ \A u \in Tasks : u # t => /\ r.cap[u] = s.cap[u] /\ r.gen[u] = s.gen[u]
                                    /\ r.frames[u] = s.frames[u] /\ r.handlers[u] = s.handlers[u]
  BY <1>7, <1>11
<1> QED
  BY <1>2, <1>3, <1>10, <1>11, <1>12 DEF fr, ha, pl
\* r is s but for the capacities and for where the storage of the stacks is.
Same(s, r) ==
    /\ r.stack = s.stack /\ r.open = s.open /\ r.closed = s.closed /\ r.used = s.used
    /\ \A u \in Tasks :
          /\ DOMAIN r.frames[u] = DOMAIN s.frames[u]
          /\ \A i \in DOMAIN s.frames[u] :
                /\ r.frames[u][i].slots.index = s.frames[u][i].slots.index
                /\ r.frames[u][i].base.index = s.frames[u][i].base.index
          /\ DOMAIN r.handlers[u] = DOMAIN s.handlers[u]
          /\ \A k \in DOMAIN s.handlers[u] :
                /\ r.handlers[u][k].frame = s.handlers[u][k].frame
                /\ r.handlers[u][k].level.index = s.handlers[u][k].level.index
    /\ \A c \in Cells :
          r.place[c].task = s.place[c].task /\ r.place[c].index = s.place[c].index

\* Nothing in use points to slot x of t or above, but for empty frames and
\* try blocks that begin there: the stack may be cut to x slots.
Free(s, t, x, z) ==
    /\ x \in 0 .. Top(s, t)
    /\ \A i \in DOMAIN s.frames[t] : s.frames[t][i].slots.index <= x
    /\ \A k \in DOMAIN s.handlers[t] : s.handlers[t][k].level.index <= x
    /\ \A k \in DOMAIN s.open[t] : s.open[t][k] \in z \/ s.place[s.open[t][k]].index < x

LEMMA SameLengths ==
    ASSUME NEW s \in VmStates, NEW r \in VmStates, Same(s, r), NEW u \in Tasks
    PROVE  /\ Top(r, u) = Top(s, u)
           /\ Len(r.frames[u]) = Len(s.frames[u]) /\ Len(r.handlers[u]) = Len(s.handlers[u])
           /\ r.frames[u] = <<>> <=> s.frames[u] = <<>>
           /\ r.handlers[u] = <<>> <=> s.handlers[u] = <<>>
<1>1. Top(r, u) = Top(s, u)
  BY DEF Same, Top
<1>2. ASSUME NEW S, NEW p \in Seq(S), NEW q \in Seq(S), DOMAIN p = DOMAIN q
      PROVE  Len(p) = Len(q) /\ (p = <<>> <=> q = <<>>)
  BY <1>2
<1> DEFINE F == [slots : Pointers, base : Pointers]
           H == [frame : Nat, level : Pointers]
<1>3. /\ r.frames[u] \in Seq(F) /\ s.frames[u] \in Seq(F)
      /\ r.handlers[u] \in Seq(H) /\ s.handlers[u] \in Seq(H)
  BY TaskFields
<1>4. DOMAIN r.frames[u] = DOMAIN s.frames[u] /\ DOMAIN r.handlers[u] = DOMAIN s.handlers[u]
  BY DEF Same
<1> HIDE DEF F, H
<1> QED
  BY <1>1, <1>2, <1>3, <1>4

LEMMA SameNests ==
    ASSUME NEW z, NEW s \in VmStates, NEW r \in VmStates, Same(s, r), NEW u \in Tasks
    PROVE  /\ FramesNest(s, u) => FramesNest(r, u)
           /\ HandlersNest(s, u) => HandlersNest(r, u)
           /\ OpenInOrder(s, u, z) => OpenInOrder(r, u, z)
           /\ Empty(s, u) => Empty(r, u)
           /\ \A x : Free(s, u, x, z) => Free(r, u, x, z)
<1>1. /\ DOMAIN r.frames[u] = DOMAIN s.frames[u]
      /\ \A i \in DOMAIN s.frames[u] :
            /\ r.frames[u][i].slots.index = s.frames[u][i].slots.index
            /\ r.frames[u][i].base.index = s.frames[u][i].base.index
      /\ DOMAIN r.handlers[u] = DOMAIN s.handlers[u]
      /\ \A k \in DOMAIN s.handlers[u] :
            /\ r.handlers[u][k].frame = s.handlers[u][k].frame
            /\ r.handlers[u][k].level.index = s.handlers[u][k].level.index
  BY DEF Same
<1>2. r.open[u] = s.open[u] /\ r.stack[u] = s.stack[u]
  BY DEF Same
<1>3. \A k \in DOMAIN s.open[u] : s.open[u][k] \in Cells
  BY TaskFields
<1>4. \A c \in Cells : r.place[c].task = s.place[c].task /\ r.place[c].index = s.place[c].index
  BY DEF Same
<1>5. /\ Top(r, u) = Top(s, u)
      /\ r.frames[u] = <<>> <=> s.frames[u] = <<>>
      /\ r.handlers[u] = <<>> <=> s.handlers[u] = <<>>
  BY SameLengths
<1>6. FramesNest(s, u) => FramesNest(r, u)
  <2>1. s.frames[u] # <<>> => 1 \in DOMAIN s.frames[u]
    BY TaskFields, EmptySeq
  <2> QED
    BY <1>1, <1>5, <2>1 DEF FramesNest
<1>7. HandlersNest(s, u) => HandlersNest(r, u)
  BY <1>1, <1>5 DEF HandlersNest
<1>8. OpenInOrder(s, u, z) => OpenInOrder(r, u, z)
  BY <1>1, <1>2, <1>3, <1>4, <1>5 DEF OpenInOrder
<1>9. Empty(s, u) => Empty(r, u)
  BY <1>2, <1>5 DEF Empty
<1>10. \A x : Free(s, u, x, z) => Free(r, u, x, z)
  BY <1>1, <1>2, <1>3, <1>4, <1>5 DEF Free
<1> QED
  BY <1>6, <1>7, <1>8, <1>9, <1>10

LEMMA GoodFacts ==
    ASSUME NEW l, NEW v, NEW z, NEW s, Good(s, l, v, z), NEW t \in Tasks
    PROVE  /\ s \in VmStates /\ Len(s.stack[t]) <= s.cap[t] /\ Len(s.frames[t]) <= MaxFrames
           /\ l[t] = "live" => TaskInv(s, t, z)
           /\ l[t] # "live" => Empty(s, t)
           /\ \A k \in DOMAIN s.open[t] : s.place[s.open[t][k]].task = t
<1>1. ASSUME TaskInv(s, t, z), NEW k \in DOMAIN s.open[t] PROVE s.place[s.open[t][k]].task = t
  BY <1>1 DEF TaskInv, OpenInOrder
<1>2. ASSUME Empty(s, t) PROVE DOMAIN s.open[t] = {}
  BY <1>2 DEF Empty
<1> QED
  BY <1>1, <1>2 DEF Good, Fits

\* Where the storage of a stack moves, the cells that are open on it move too.
LEMMA EnsureMovesPlaces ==
    ASSUME NEW s \in VmStates, NEW t \in Tasks, NEW c \in Cells,
           \A k \in DOMAIN s.open[t] : s.place[s.open[t][k]].task = t
    PROVE  /\ MovePlace(s, c, t).task = s.place[c].task /\ MovePlace(s, c, t).index = s.place[c].index
           /\ MovePlace(s, c, t) = Own <=> s.place[c] = Own
           /\ c \notin Elements(s.open[t]) => MovePlace(s, c, t) = s.place[c]
           /\ c \in Elements(s.open[t]) /\ s.place[c].gen = s.gen[t] =>
                  MovePlace(s, c, t).gen = s.gen[t] + 1
<1>1. CASE c \in Elements(s.open[t]) /\ s.place[c].gen = s.gen[t]
  <2>1. MovePlace(s, c, t) = Moved(s, s.place[c], t)
    BY <1>1 DEF MovePlace
  <2>2. s.place[c].task = t
    BY <1>1 DEF Elements
  <2>3. s.place[c] \in Places /\ s.place[c] # Own
    BY <2>2, PlaceFields, StackAssumption
  <2> QED
    BY <1>1, <2>1, <2>2, <2>3, MoveKeepsTypes
<1>2. CASE ~(c \in Elements(s.open[t]) /\ s.place[c].gen = s.gen[t])
  BY <1>2 DEF MovePlace
<1> QED
  BY <1>1, <1>2

\* Growth of the stack of t keeps the invariant, moves no index, and makes
\* room for n slots.
LEMMA EnsureKeeps ==
    ASSUME NEW l, NEW v, NEW z, NEW s, Good(s, l, v, z), NEW t \in Tasks, NEW n \in Nat,
           NEW r, r = Ensure(s, t, n)
    PROVE  Good(r, l, v, z) /\ Same(s, r) /\ n <= r.cap[t]
<1>1. CASE ~Needs(s, t, n)
  <2>1. r = s
    BY <1>1 DEF Ensure
  <2>2. n <= s.cap[t]
    BY <1>1, GoodFacts, TaskFields DEF Needs
  <2> QED
    BY <2>1, <2>2 DEF Same
<1>2. CASE Needs(s, t, n)
  <2>1. s \in VmStates /\ \A k \in DOMAIN s.open[t] : s.place[s.open[t][k]].task = t
    BY GoodFacts
  <2>2. /\ r \in VmStates
        /\ r.stack = s.stack /\ r.open = s.open /\ r.closed = s.closed /\ r.used = s.used
        /\ r.cap[t] >= n /\ r.cap[t] >= s.cap[t]
        /\ \A u \in Tasks : u # t => /\ r.cap[u] = s.cap[u] /\ r.gen[u] = s.gen[u]
                                     /\ r.frames[u] = s.frames[u] /\ r.handlers[u] = s.handlers[u]
        /\ r.gen[t] = s.gen[t] + 1
        /\ r.frames[t] = [i \in DOMAIN s.frames[t] |-> MoveFrame(s, s.frames[t][i], t)]
        /\ r.handlers[t] = [k \in DOMAIN s.handlers[t] |-> MoveHandler(s, s.handlers[t][k], t)]
        /\ r.place = [c \in Cells |-> MovePlace(s, c, t)]
    BY <1>2, <2>1, EnsureMoves
  <2>3. \A c \in Cells :
           /\ r.place[c].task = s.place[c].task /\ r.place[c].index = s.place[c].index
           /\ r.place[c] = Own <=> s.place[c] = Own
           /\ c \notin Elements(s.open[t]) => r.place[c] = s.place[c]
           /\ c \in Elements(s.open[t]) /\ s.place[c].gen = s.gen[t] => r.place[c].gen = s.gen[t] + 1
    BY <2>1, <2>2, EnsureMovesPlaces
  <2>4. \A i \in DOMAIN s.frames[t] :
           /\ r.frames[t][i].slots.index = s.frames[t][i].slots.index
           /\ r.frames[t][i].base.index = s.frames[t][i].base.index
           /\ r.frames[t][i].slots.gen = s.gen[t] + 1 /\ r.frames[t][i].base.gen = s.gen[t] + 1
    <3>1. ASSUME NEW i \in DOMAIN s.frames[t]
          PROVE  /\ r.frames[t][i] = MoveFrame(s, s.frames[t][i], t)
                 /\ s.frames[t][i] \in [slots : Pointers, base : Pointers]
      BY <2>1, <2>2, TaskFields
    <3> QED
      BY <2>1, <3>1, MoveKeepsTypes
  <2>5. \A k \in DOMAIN s.handlers[t] :
           /\ r.handlers[t][k].frame = s.handlers[t][k].frame
           /\ r.handlers[t][k].level.index = s.handlers[t][k].level.index
           /\ r.handlers[t][k].level.gen = s.gen[t] + 1
    <3>1. ASSUME NEW k \in DOMAIN s.handlers[t]
          PROVE  /\ r.handlers[t][k] = MoveHandler(s, s.handlers[t][k], t)
                 /\ s.handlers[t][k] \in [frame : Nat, level : Pointers]
      BY <2>1, <2>2, TaskFields
    <3> QED
      BY <2>1, <3>1, MoveKeepsTypes
  <2>6. DOMAIN r.frames[t] = DOMAIN s.frames[t] /\ DOMAIN r.handlers[t] = DOMAIN s.handlers[t]
    BY <2>2
  <2>7. Same(s, r)
    <3>1. ASSUME NEW u \in Tasks
          PROVE  /\ DOMAIN r.frames[u] = DOMAIN s.frames[u]
                 /\ \A i \in DOMAIN s.frames[u] :
                       /\ r.frames[u][i].slots.index = s.frames[u][i].slots.index
                       /\ r.frames[u][i].base.index = s.frames[u][i].base.index
                 /\ DOMAIN r.handlers[u] = DOMAIN s.handlers[u]
                 /\ \A k \in DOMAIN s.handlers[u] :
                       /\ r.handlers[u][k].frame = s.handlers[u][k].frame
                       /\ r.handlers[u][k].level.index = s.handlers[u][k].level.index
      <4>1. CASE u = t
        BY <2>4, <2>5, <2>6, <4>1
      <4>2. CASE u # t
        <5>1. r.frames[u] = s.frames[u] /\ r.handlers[u] = s.handlers[u]
          BY <2>2, <4>2
        <5> QED
          BY <5>1
      <4> QED
        BY <4>1, <4>2
    <3>2. \A c \in Cells : r.place[c].task = s.place[c].task /\ r.place[c].index = s.place[c].index
      BY <2>3
    <3> QED
      BY <2>2, <3>1, <3>2 DEF Same
  <2>8. Fits(r)
    <3>1. ASSUME NEW u \in Tasks
          PROVE  Len(r.stack[u]) <= r.cap[u] /\ Len(r.frames[u]) <= MaxFrames
      <4>1. /\ Len(r.stack[u]) = Len(s.stack[u]) /\ Len(r.frames[u]) = Len(s.frames[u])
            /\ Len(s.stack[u]) <= s.cap[u] /\ Len(s.frames[u]) <= MaxFrames
        BY <2>1, <2>2, <2>7, SameLengths, GoodFacts DEF Top
      <4>2. r.cap[u] >= s.cap[u]
        <5>1. s.cap[u] \in Nat /\ (u # t => r.cap[u] = s.cap[u]) /\ r.cap[t] >= s.cap[t]
          BY <2>1, <2>2, TaskFields
        <5> QED
          BY <5>1
      <4>3. Len(s.stack[u]) \in Nat /\ s.cap[u] \in Nat /\ r.cap[u] \in Nat
        BY <2>1, <2>2, TaskFields DEF Top
      <4> QED
        BY <4>1, <4>2, <4>3
    <3> QED
      BY <3>1 DEF Fits
  <2>9. ASSUME NEW u \in Tasks, Current(s, u), OpenInOrder(s, u, z) PROVE Current(r, u)
    <3>1. CASE u = t
      <4>1. ASSUME NEW k \in DOMAIN r.open[t] PROVE r.place[r.open[t][k]].gen = r.gen[t]
        <5>1. s.open[t][k] \in Cells /\ s.open[t][k] \in Elements(s.open[t])
          BY <2>1, <2>2, TaskFields DEF Elements
        <5>2. s.place[s.open[t][k]].gen = s.gen[t]
          BY <2>2, <2>9, <3>1 DEF Current
        <5> QED
          BY <2>2, <2>3, <5>1, <5>2
      <4> QED
        BY <2>2, <2>4, <2>5, <2>6, <3>1, <4>1, ZenonT(30) DEF Current
    <3>2. CASE u # t
      <4>1. ASSUME NEW k \in DOMAIN s.open[u] PROVE r.place[s.open[u][k]] = s.place[s.open[u][k]]
        <5>1. s.open[u][k] \in Cells /\ s.place[s.open[u][k]].task = u
          BY <2>1, <2>9, TaskFields DEF OpenInOrder
        <5>2. s.open[u][k] \notin Elements(s.open[t])
          BY <2>1, <3>2, <5>1 DEF Elements
        <5> QED
          BY <2>3, <5>1, <5>2
      <4> QED
        BY <2>2, <2>9, <3>2, <4>1, SMTT(30) DEF Current
    <3> QED
      BY <3>1, <3>2
  <2>10. ASSUME NEW u \in Tasks PROVE IF l[u] = "live" THEN TaskInv(r, u, z) ELSE Empty(r, u)
    <3>1. l[u] = "live" => TaskInv(s, u, z)
      BY GoodFacts
    <3>2. l[u] # "live" => Empty(s, u)
      BY GoodFacts
    <3> QED
      BY <2>1, <2>2, <2>7, <2>9, <3>1, <3>2, SameNests DEF TaskInv
  <2>11. ASSUME NEW c \in Cells PROVE CellInv(r, l, v, z, c)
    <3>1. CellInv(s, l, v, z, c)
      BY DEF Good
    <3> QED
      BY <2>2, <2>3, <3>1 DEF CellInv, Slot, Top
  <2> QED
    BY <2>2, <2>7, <2>8, <2>10, <2>11 DEF Good
<1> QED
  BY <1>1, <1>2

-----------------------------------------------------------------------------
(* Steps that change the stack, the frames and the handlers of one task    *)

Frames == Seq([slots : Pointers, base : Pointers])
Handlers == Seq([frame : Nat, level : Pointers])

With(s, t, st, fr, ha) == [s EXCEPT !.stack[t] = st, !.frames[t] = fr, !.handlers[t] = ha]

PutStack(s, t, st) == [s EXCEPT !.stack[t] = st]
PutFrames(s, t, fr) == [s EXCEPT !.frames[t] = fr]
PutHandlers(s, t, ha) == [s EXCEPT !.handlers[t] = ha]

LEMMA WithIs ==
    ASSUME NEW s \in VmStates, NEW t \in Tasks, NEW st \in Seq(Values), NEW fr \in Frames,
           NEW ha \in Handlers, NEW r, r = With(s, t, st, fr, ha)
    PROVE  /\ r \in VmStates
           /\ r.cap = s.cap /\ r.gen = s.gen /\ r.open = s.open /\ r.place = s.place
           /\ r.closed = s.closed /\ r.used = s.used
           /\ r.stack[t] = st /\ r.frames[t] = fr /\ r.handlers[t] = ha
           /\ \A u \in Tasks : u # t => /\ r.stack[u] = s.stack[u] /\ r.frames[u] = s.frames[u]
                                        /\ r.handlers[u] = s.handlers[u]
<1>1. /\ s.stack \in [Tasks -> Seq(Values)] /\ s.cap \in [Tasks -> Nat] /\ s.gen \in [Tasks -> Nat]
      /\ s.frames \in [Tasks -> Frames] /\ s.handlers \in [Tasks -> Handlers]
      /\ s.open \in [Tasks -> Seq(Cells)] /\ s.place \in [Cells -> Places]
      /\ s.closed \in [Cells -> Values] /\ s.used \in SUBSET Cells
  BY StateFields DEF Frames, Handlers
<1>2. s = [stack |-> s.stack, cap |-> s.cap, gen |-> s.gen, frames |-> s.frames,
           handlers |-> s.handlers, open |-> s.open, place |-> s.place,
           closed |-> s.closed, used |-> s.used]
  BY StateFields
<1> DEFINE ss == [s.stack EXCEPT ![t] = st]
           fs == [s.frames EXCEPT ![t] = fr]
           hs == [s.handlers EXCEPT ![t] = ha]
<1>3. r = [stack |-> ss, cap |-> s.cap, gen |-> s.gen, frames |-> fs,
           handlers |-> hs, open |-> s.open, place |-> s.place,
           closed |-> s.closed, used |-> s.used]
  BY <1>2 DEF With
<1>4. /\ ss \in [Tasks -> Seq(Values)] /\ ss[t] = st
      /\ \A u \in Tasks : u # t => ss[u] = s.stack[u]
  BY <1>1
<1>5. /\ fs \in [Tasks -> Frames] /\ fs[t] = fr
      /\ \A u \in Tasks : u # t => fs[u] = s.frames[u]
  BY <1>1
<1>6. /\ hs \in [Tasks -> Handlers] /\ hs[t] = ha
      /\ \A u \in Tasks : u # t => hs[u] = s.handlers[u]
  BY <1>1
<1> HIDE DEF ss, fs, hs
<1>7. r \in [stack : [Tasks -> Seq(Values)], cap : [Tasks -> Nat], gen : [Tasks -> Nat],
             frames : [Tasks -> Frames], handlers : [Tasks -> Handlers], open : [Tasks -> Seq(Cells)],
             place : [Cells -> Places], closed : [Cells -> Values], used : SUBSET Cells]
  BY <1>1, <1>3, <1>4, <1>5, <1>6
<1>8. r \in VmStates
  BY <1>7 DEF VmStates, Frames, Handlers
<1> QED
  BY <1>3, <1>4, <1>5, <1>6, <1>8

LEMMA WithParts ==
    ASSUME NEW s \in VmStates, NEW t \in Tasks
    PROVE  /\ \A st \in Seq(Values) :
                 PutStack(s, t, st) = With(s, t, st, s.frames[t], s.handlers[t])
           /\ \A fr \in Frames :
                 PutFrames(s, t, fr) = With(s, t, s.stack[t], fr, s.handlers[t])
           /\ \A ha \in Handlers :
                 PutHandlers(s, t, ha) = With(s, t, s.stack[t], s.frames[t], ha)
<1>1. s = [stack |-> s.stack, cap |-> s.cap, gen |-> s.gen, frames |-> s.frames,
           handlers |-> s.handlers, open |-> s.open, place |-> s.place,
           closed |-> s.closed, used |-> s.used]
  BY StateFields
<1>2. /\ [s.stack EXCEPT ![t] = s.stack[t]] = s.stack
      /\ [s.frames EXCEPT ![t] = s.frames[t]] = s.frames
      /\ [s.handlers EXCEPT ![t] = s.handlers[t]] = s.handlers
  BY StateFields
<1>3. ASSUME NEW st \in Seq(Values)
      PROVE  PutStack(s, t, st) = With(s, t, st, s.frames[t], s.handlers[t])
  BY <1>1, <1>2 DEF With, PutStack, PutFrames, PutHandlers
<1>4. ASSUME NEW fr \in Frames
      PROVE  PutFrames(s, t, fr) = With(s, t, s.stack[t], fr, s.handlers[t])
  BY <1>1, <1>2 DEF With, PutStack, PutFrames, PutHandlers
<1>5. ASSUME NEW ha \in Handlers
      PROVE  PutHandlers(s, t, ha) = With(s, t, s.stack[t], s.frames[t], ha)
  BY <1>1, <1>2 DEF With, PutStack, PutFrames, PutHandlers
<1> QED
  BY <1>3, <1>4, <1>5

\* A task that a step leaves alone, with the cells that are open on its stack.
LEMMA Stands ==
    ASSUME NEW z, NEW s \in VmStates, NEW r, NEW u \in Tasks,
           r.stack[u] = s.stack[u], r.frames[u] = s.frames[u], r.handlers[u] = s.handlers[u],
           r.open[u] = s.open[u], r.gen[u] = s.gen[u],
           \A k \in DOMAIN s.open[u] : r.place[s.open[u][k]] = s.place[s.open[u][k]]
    PROVE  /\ TaskInv(s, u, z) => TaskInv(r, u, z)
           /\ Empty(s, u) => Empty(r, u)
           /\ \A x : Free(s, u, x, z) => Free(r, u, x, z)
<1>1. Top(r, u) = Top(s, u)
  BY DEF Top
<1>2. FramesNest(s, u) => FramesNest(r, u)
  BY <1>1 DEF FramesNest
<1>3. HandlersNest(s, u) => HandlersNest(r, u)
  BY <1>1 DEF HandlersNest
<1>4. OpenInOrder(s, u, z) => OpenInOrder(r, u, z)
  BY <1>1 DEF OpenInOrder
<1>5. Current(s, u) => Current(r, u)
  BY DEF Current
<1>6. Empty(s, u) => Empty(r, u)
  BY DEF Empty
<1>7. \A x : Free(s, u, x, z) => Free(r, u, x, z)
  BY <1>1 DEF Free
<1> QED
  BY <1>2, <1>3, <1>4, <1>5, <1>6, <1>7 DEF TaskInv

LEMMA WithKeeps ==
    ASSUME NEW l, NEW v, NEW z, NEW s, Good(s, l, v, z), NEW t \in Tasks, l[t] = "live",
           NEW st \in Seq(Values), NEW fr \in Frames, NEW ha \in Handlers,
           NEW r, r = With(s, t, st, fr, ha),
           Len(st) <= s.cap[t], Len(fr) <= MaxFrames, TaskInv(r, t, z), OpenAreIn(s, t, z, st)
    PROVE  Good(r, l, v, z)
<1>1. /\ s \in VmStates /\ r \in VmStates
      /\ r.cap = s.cap /\ r.gen = s.gen /\ r.open = s.open /\ r.place = s.place
      /\ r.closed = s.closed /\ r.used = s.used
      /\ r.stack[t] = st /\ r.frames[t] = fr /\ r.handlers[t] = ha
      /\ \A u \in Tasks : u # t => /\ r.stack[u] = s.stack[u] /\ r.frames[u] = s.frames[u]
                                   /\ r.handlers[u] = s.handlers[u]
  BY GoodFacts, WithIs
<1>2. Fits(r)
  <2>1. ASSUME NEW u \in Tasks PROVE Len(r.stack[u]) <= r.cap[u] /\ Len(r.frames[u]) <= MaxFrames
    <3>1. CASE u = t
      BY <1>1, <3>1
    <3>2. CASE u # t
      BY <1>1, <3>2, GoodFacts
    <3> QED
      BY <3>1, <3>2
  <2> QED
    BY <2>1 DEF Fits
<1>3. ASSUME NEW u \in Tasks PROVE IF l[u] = "live" THEN TaskInv(r, u, z) ELSE Empty(r, u)
  <2>1. CASE u = t
    BY <2>1
  <2>2. CASE u # t
    BY <1>1, <2>2, GoodFacts, Stands, SMTT(30)
  <2> QED
    BY <2>1, <2>2
<1>4. ASSUME NEW c \in Cells PROVE CellInv(r, l, v, z, c)
  <2>1. CellInv(s, l, v, z, c)
    BY DEF Good
  <2>2. ASSUME s.place[c] # Own, l[s.place[c].task] = "live", c \in Elements(s.open[s.place[c].task]),
               c \in z \/ Slot(s, s.place[c].task, s.place[c].index) = v[c]
        PROVE  c \in z \/ Slot(r, s.place[c].task, s.place[c].index) = v[c]
    <3>1. s.place[c].task \in Tasks
      BY <1>1, <2>2, PlaceFields, SMTT(30)
    <3>2. CASE s.place[c].task = t
      <4>1. PICK k \in DOMAIN s.open[t] : c = s.open[t][k]
        BY <2>2, <3>2, SMTT(30) DEF Elements
      <4>2. \/ c \in z
            \/ LET i == s.place[c].index
               IN  i < Top(s, t) /\ i < Len(st) /\ st[i + 1] = s.stack[t][i + 1]
        BY <4>1 DEF OpenAreIn
      <4>3. r.stack[t] = st
        BY <1>1, SMTT(30)
      <4> QED
        BY <2>2, <3>2, <4>2, <4>3 DEF Slot, Top
    <3>3. CASE s.place[c].task # t
      <4>1. r.stack[s.place[c].task] = s.stack[s.place[c].task]
        BY <1>1, <3>1, <3>3
      <4> QED
        BY <2>2, <4>1, ZenonT(30) DEF Slot, Top
    <3> QED
      BY <3>2, <3>3, SMTT(30)
  <2> QED
    BY <1>1, <2>1, <2>2 DEF CellInv
<1> QED
  BY <1>1, <1>2, <1>3, <1>4 DEF Good

\* Values pushed: the stack of t grows, with room for what it grows by.
LEMMA LongerKeeps ==
    ASSUME NEW l, NEW v, NEW z, NEW s, Good(s, l, v, z), NEW t \in Tasks, l[t] = "live",
           NEW st \in Seq(Values), Len(st) >= Top(s, t), Len(st) <= s.cap[t],
           \A i \in 1 .. Top(s, t) : st[i] = s.stack[t][i],
           NEW r, r = PutStack(s, t, st)
    PROVE  /\ Good(r, l, v, z)
           /\ r.stack[t] = st /\ r.frames[t] = s.frames[t] /\ r.gen = s.gen /\ r.cap = s.cap
           /\ \A u \in Tasks, x \in Nat : Free(s, u, x, z) => Free(r, u, x, z)
<1>1. s \in VmStates /\ TaskInv(s, t, z) /\ Len(s.frames[t]) <= MaxFrames
  BY GoodFacts
<1>2. s.frames[t] \in Frames /\ s.handlers[t] \in Handlers /\ Top(s, t) \in Nat
  BY <1>1, TaskFields DEF Frames, Handlers
<1>3. r = With(s, t, st, s.frames[t], s.handlers[t])
  BY <1>1, WithParts
<1>4. /\ r \in VmStates
      /\ r.cap = s.cap /\ r.gen = s.gen /\ r.open = s.open /\ r.place = s.place
      /\ r.stack[t] = st /\ r.frames[t] = s.frames[t] /\ r.handlers[t] = s.handlers[t]
      /\ \A u \in Tasks : u # t => /\ r.stack[u] = s.stack[u] /\ r.frames[u] = s.frames[u]
                                   /\ r.handlers[u] = s.handlers[u]
  BY <1>1, <1>2, <1>3, WithIs
<1>5. Top(r, t) \in Nat /\ Top(r, t) >= Top(s, t)
  BY <1>4, TaskFields DEF Top
<1>6. TaskInv(r, t, z)
  <2>1. FramesNest(r, t)
    BY <1>1, <1>2, <1>4, <1>5, TaskFields, SMTT(30) DEF TaskInv, FramesNest
  <2>2. HandlersNest(r, t)
    <3>1. \A k \in DOMAIN s.handlers[t] : s.handlers[t][k].level.index \in Nat
      BY <1>1, TaskFields
    <3>2. HandlersNest(s, t)
      BY <1>1 DEF TaskInv
    <3> QED
      BY <1>2, <1>4, <1>5, <3>1, <3>2, SMTT(30) DEF HandlersNest
  <2>3. OpenInOrder(r, t, z)
    <3>1. \A k \in DOMAIN s.open[t] : s.place[s.open[t][k]].index \in Nat
      BY <1>1, TaskFields, PlaceFields
    <3> QED
      BY <1>1, <1>2, <1>4, <1>5, <3>1, SMTT(30) DEF TaskInv, OpenInOrder
  <2>4. Current(r, t)
    BY <1>1, <1>4 DEF TaskInv, Current
  <2> QED
    BY <2>1, <2>2, <2>3, <2>4 DEF TaskInv
<1>7. ASSUME NEW k \in DOMAIN s.open[t]
      PROVE  LET i == s.place[s.open[t][k]].index IN
             s.open[t][k] \in z \/ (i < Top(s, t) /\ i < Len(st) /\ st[i + 1] = s.stack[t][i + 1])
  <2> DEFINE i == s.place[s.open[t][k]].index
  <2>1. i \in Nat /\ (s.open[t][k] \in z \/ i < Top(s, t))
    BY <1>1, TaskFields, PlaceFields, SMTT(30) DEF TaskInv, OpenInOrder
  <2> HIDE DEF i
  <2>2. ASSUME i < Top(s, t) PROVE i < Len(st) /\ i + 1 \in 1 .. Top(s, t)
    BY <1>2, <1>4, <1>5, <2>1, <2>2 DEF Top
  <2> QED
    BY <2>1, <2>2 DEF i
<1>8. Good(r, l, v, z)
  <2>1. Len(s.frames[t]) <= MaxFrames
    BY <1>1, SMTT(30)
  <2>2. OpenAreIn(s, t, z, st)
    BY <1>7 DEF OpenAreIn
  <2> QED
    BY <1>2, <1>3, <1>6, <2>1, <2>2, WithKeeps
<1>10. ASSUME NEW u \in Tasks, NEW x \in Nat, Free(s, u, x, z) PROVE Free(r, u, x, z)
  <2>1. CASE u = t
    BY <1>2, <1>4, <1>5, <1>10, <2>1 DEF Free
  <2>2. CASE u # t
    BY <1>1, <1>4, <1>10, <2>2, Stands
  <2> QED
    BY <2>1, <2>2
<1> QED
  BY <1>4, <1>8, <1>10

\* push, with the growth that it may take
LEMMA PushKeeps ==
    ASSUME NEW l, NEW v, NEW z, NEW s, Good(s, l, v, z), NEW t \in Tasks, l[t] = "live", NEW x \in Values
    PROVE  Good(Push(s, t, x), l, v, z)
<1> DEFINE n == Top(s, t) + 1
           e == Ensure(s, t, n)
<1>1. s \in VmStates /\ Top(s, t) \in Nat
  BY GoodFacts, TaskFields
<1>2. Good(e, l, v, z) /\ Same(s, e) /\ n <= e.cap[t]
  BY <1>1, EnsureKeeps, SMTT(30)
<1>3. Push(s, t, x) = PutStack(e, t, Append(e.stack[t], x))
  BY DEF Push, PutStack
<1>4. e.stack[t] \in Seq(Values) /\ Len(e.stack[t]) = Top(s, t)
  BY <1>2, GoodFacts, TaskFields DEF Same, Top
<1> HIDE DEF e
<1> DEFINE st == Append(e.stack[t], x)
<1>5. /\ st \in Seq(Values) /\ Len(st) = n
      /\ \A i \in 1 .. Top(e, t) : st[i] = e.stack[t][i]
      /\ Top(e, t) = Top(s, t)
  BY <1>4 DEF Top
<1>6. Len(st) >= Top(e, t) /\ Len(st) <= e.cap[t]
  BY <1>1, <1>2, <1>5
<1>7. Push(s, t, x) = PutStack(e, t, st)
  BY <1>3
<1> HIDE DEF st
<1> QED
  BY <1>2, <1>5, <1>6, <1>7, LongerKeeps

LEMMA Prefix ==
    ASSUME NEW S, NEW q \in Seq(S), NEW n \in 0 .. Len(q)
    PROVE  /\ SubSeq(q, 1, n) \in Seq(S) /\ Len(SubSeq(q, 1, n)) = n
           /\ DOMAIN SubSeq(q, 1, n) = 1 .. n
           /\ \A i \in 1 .. n : SubSeq(q, 1, n)[i] = q[i]
  OBVIOUS

LEMMA WholePrefix ==
    ASSUME NEW S, NEW q \in Seq(S)
    PROVE  SubSeq(q, 1, Len(q)) = q
  BY SMTT(30)

\* The stack st, the frames fr and the handlers ha are those of t without a
\* part at the end, and nothing that is left points into what goes.
Shorter(s, t, st, fr, ha, z) ==
    /\ st \in Seq(Values) /\ Len(st) <= Top(s, t)
    /\ \A i \in 1 .. Len(st) : st[i] = s.stack[t][i]
    /\ fr \in Frames /\ Len(fr) \in 1 .. Len(s.frames[t])
    /\ \A i \in 1 .. Len(fr) : fr[i] = s.frames[t][i]
    /\ ha \in Handlers /\ Len(ha) <= Len(s.handlers[t])
    /\ \A k \in 1 .. Len(ha) : ha[k] = s.handlers[t][k]
    /\ s.frames[t][Len(fr)].slots.index <= Len(st)
    /\ \A k \in 1 .. Len(ha) : s.handlers[t][k].frame <= Len(fr) /\ s.handlers[t][k].level.index <= Len(st)
    /\ \A k \in DOMAIN s.open[t] : s.open[t][k] \in z \/ s.place[s.open[t][k]].index < Len(st)

LEMMA ShorterKeeps ==
    ASSUME NEW l, NEW v, NEW z, NEW s, Good(s, l, v, z), NEW t \in Tasks, l[t] = "live",
           NEW st, NEW fr, NEW ha, Shorter(s, t, st, fr, ha, z),
           NEW r, r = With(s, t, st, fr, ha)
    PROVE  Good(r, l, v, z)
<1> DEFINE n == Len(fr)
           j == Len(ha)
           x == Len(st)
<1>1. s \in VmStates /\ TaskInv(s, t, z) /\ Len(s.stack[t]) <= s.cap[t] /\ Len(s.frames[t]) <= MaxFrames
  BY GoodFacts
<1>2. /\ Top(s, t) \in Nat /\ Len(s.frames[t]) \in Nat /\ Len(s.handlers[t]) \in Nat
      /\ DOMAIN s.frames[t] = 1 .. Len(s.frames[t]) /\ DOMAIN s.handlers[t] = 1 .. Len(s.handlers[t])
      /\ s.cap[t] \in Nat
  BY <1>1, TaskFields
<1>3. /\ \A i \in DOMAIN s.frames[t] :
            s.frames[t][i].slots.index \in Nat /\ s.frames[t][i].base.index \in Nat
      /\ \A k \in DOMAIN s.handlers[t] :
            s.handlers[t][k].frame \in Nat /\ s.handlers[t][k].level.index \in Nat
  BY <1>1, TaskFields
<1>4. /\ st \in Seq(Values) /\ x <= Top(s, t) /\ s.frames[t][n].slots.index <= x
      /\ \A k \in DOMAIN s.open[t] : s.open[t][k] \in z \/ s.place[s.open[t][k]].index < x
  BY DEF Shorter
<1>5. \A i \in 1 .. x : st[i] = s.stack[t][i]
  BY DEF Shorter
<1>6. fr \in Frames /\ n \in 1 .. Len(s.frames[t])
  BY DEF Shorter
<1>7. \A i \in 1 .. n : fr[i] = s.frames[t][i]
  BY DEF Shorter
<1>8. ha \in Handlers /\ j <= Len(s.handlers[t])
  BY DEF Shorter
<1>9. \A k \in 1 .. j : ha[k] = s.handlers[t][k]
  BY DEF Shorter
<1>10. \A k \in 1 .. j : s.handlers[t][k].frame <= n /\ s.handlers[t][k].level.index <= x
  BY DEF Shorter
<1>11. x \in Nat
  BY <1>4
<1>12. n \in Nat /\ 1 <= n /\ n <= Len(s.frames[t]) /\ n \in 1 .. n /\ 1 \in 1 .. n
  BY <1>2, <1>6
<1>13. DOMAIN fr = 1 .. n
  <2> DEFINE F == [slots : Pointers, base : Pointers]
  <2>1. fr \in Seq(F)
    BY <1>6 DEF Frames
  <2> HIDE DEF F
  <2> QED
    BY <2>1
<1>14. j \in Nat /\ DOMAIN ha = 1 .. j
  <2> DEFINE H == [frame : Nat, level : Pointers]
  <2>1. ha \in Seq(H)
    BY <1>8 DEF Handlers
  <2> HIDE DEF H
  <2> QED
    BY <2>1
<1>15. fr # <<>>
  BY <1>12
<1>16. Len(st) <= s.cap[t] /\ Len(fr) <= MaxFrames
  <2>1. MaxFrames \in Nat
    BY StackAssumption
  <2>2. Len(s.stack[t]) = Top(s, t)
    BY DEF Top
  <2> QED
    BY <1>1, <1>2, <1>4, <1>11, <1>12, <2>1, <2>2
<1>17. \A i \in 1 .. n : i \in DOMAIN s.frames[t]
  BY <1>2, <1>12
<1>18. \A k \in 1 .. j : k \in DOMAIN s.handlers[t]
  BY <1>2, <1>8, <1>14
<1>19. Top(r, t) = x /\ r.frames[t] = fr /\ r.handlers[t] = ha
  <2>1. r.stack[t] = st /\ r.frames[t] = fr /\ r.handlers[t] = ha
    BY <1>1, <1>4, <1>6, <1>8, WithIs
  <2> QED
    BY <2>1 DEF Top
<1>20. r.gen = s.gen /\ r.open = s.open /\ r.place = s.place
  BY <1>1, <1>4, <1>6, <1>8, WithIs
<1> HIDE DEF n, j, x
<1>21. FramesNest(r, t)
  <2>1. FramesNest(s, t)
    BY <1>1 DEF TaskInv
  <2>2. ASSUME NEW i \in 1 .. n PROVE fr[i].slots.index <= x
    <3>1. CASE i = n
      BY <1>4, <1>7, <3>1
    <3>2. CASE i # n
      <4>1. i < n /\ i \in DOMAIN s.frames[t] /\ n \in DOMAIN s.frames[t]
        BY <1>12, <1>17, <3>2
      <4>2. /\ s.frames[t][i].slots.index <= s.frames[t][n].base.index
            /\ s.frames[t][n].base.index <= s.frames[t][n].slots.index
        BY <2>1, <4>1 DEF FramesNest
      <4>3. fr[i] = s.frames[t][i] /\ s.frames[t][n].slots.index <= x
        BY <1>4, <1>7
      <4> QED
        BY <1>3, <1>11, <4>1, <4>2, <4>3
    <3> QED
      BY <3>1, <3>2
  <2>3. s.frames[t][1].base.index = 0
    BY <2>1 DEF FramesNest
  <2>4. ASSUME NEW i \in 1 .. n
        PROVE  /\ fr[i].base.index <= fr[i].slots.index
               /\ \A k \in 1 .. n : i < k => fr[i].slots.index <= fr[k].base.index
    BY <1>7, <1>17, <2>1 DEF FramesNest
  <2> QED
    BY <1>7, <1>12, <1>13, <1>15, <1>19, <2>2, <2>3, <2>4 DEF FramesNest
<1>22. HandlersNest(r, t)
  <2>1. HandlersNest(s, t)
    BY <1>1 DEF TaskInv
  <2>2. ASSUME NEW k \in 1 .. j PROVE ha[k].frame \in 1 .. n /\ ha[k].level.index <= x
    <3>1. s.handlers[t][k].frame \in DOMAIN s.frames[t]
      BY <1>18, <2>1 DEF HandlersNest
    <3>2. s.handlers[t][k].frame <= n /\ s.handlers[t][k].level.index <= x
      BY <1>10
    <3> QED
      BY <1>2, <1>9, <1>12, <3>1, <3>2
  <2>3. ASSUME NEW k \in 1 .. j
        PROVE  /\ s.frames[t][ha[k].frame].slots.index <= ha[k].level.index
               /\ \A i \in 1 .. n : ha[k].frame < i => ha[k].level.index <= s.frames[t][i].base.index
               /\ \A g \in 1 .. j : g < k => /\ ha[g].frame <= ha[k].frame
                                          /\ ha[g].level.index <= ha[k].level.index
    BY <1>9, <1>17, <1>18, <2>1 DEF HandlersNest
  <2>4. \A k \in 1 .. j : fr[ha[k].frame] = s.frames[t][ha[k].frame]
    BY <1>7, <2>2
  <2>5. ASSUME NEW k \in 1 .. j
        PROVE  \A i \in 1 .. n : ha[k].frame < i => ha[k].level.index <= fr[i].base.index
    BY <1>7, <2>3
  <2> QED
    BY <1>13, <1>14, <1>19, <2>2, <2>3, <2>4, <2>5 DEF HandlersNest
<1>23. OpenInOrder(r, t, z)
  <2>1. OpenInOrder(s, t, z)
    BY <1>1 DEF TaskInv
  <2>2. \A k \in DOMAIN s.open[t] : \A i \in 1 .. n :
           \/ s.place[s.open[t][k]].index < fr[i].base.index
           \/ s.place[s.open[t][k]].index >= fr[i].slots.index
           \/ s.open[t][k] \in z /\ i # 1
    BY <1>7, <1>17, <2>1 DEF OpenInOrder
  <2> QED
    BY <1>4, <1>13, <1>19, <1>20, <2>1, <2>2 DEF OpenInOrder
<1>24. Current(r, t)
  <2>1. Current(s, t)
    BY <1>1 DEF TaskInv
  <2>2. \A i \in 1 .. n : fr[i].slots.gen = s.gen[t] /\ fr[i].base.gen = s.gen[t]
    BY <1>7, <1>17, <2>1 DEF Current
  <2>3. \A k \in 1 .. j : ha[k].level.gen = s.gen[t]
    BY <1>9, <1>18, <2>1, SMTT(30) DEF Current
  <2> QED
    BY <1>13, <1>14, <1>19, <1>20, <2>1, <2>2, <2>3 DEF Current
<1>25. ASSUME NEW k \in DOMAIN s.open[t]
       PROVE  LET i == s.place[s.open[t][k]].index IN
              s.open[t][k] \in z \/ (i < Top(s, t) /\ i < Len(st) /\ st[i + 1] = s.stack[t][i + 1])
  <2> DEFINE i == s.place[s.open[t][k]].index
  <2>1. i \in Nat /\ (s.open[t][k] \in z \/ i < x)
    BY <1>1, <1>4, TaskFields, PlaceFields
  <2> HIDE DEF i
  <2>2. ASSUME i < x PROVE i + 1 \in 1 .. x /\ i < Top(s, t) /\ i < Len(st)
    BY <1>2, <1>4, <1>11, <2>1, <2>2 DEF x
  <2>3. ASSUME i < x PROVE st[i + 1] = s.stack[t][i + 1]
    BY <1>5, <2>2, <2>3
  <2> QED
    BY <2>1, <2>2, <2>3 DEF i
<1>26. TaskInv(r, t, z)
  BY <1>21, <1>22, <1>23, <1>24 DEF TaskInv
<1> QED
  BY <1>4, <1>6, <1>8, <1>16, <1>25, <1>26, WithKeeps DEF OpenAreIn

LEMMA CutKeeps ==
    ASSUME NEW l, NEW v, NEW z, NEW s, Good(s, l, v, z), NEW t \in Tasks, l[t] = "live",
           NEW n \in 1 .. Len(s.frames[t]), NEW j \in 0 .. Len(s.handlers[t]),
           NEW x \in 0 .. Top(s, t),
           s.frames[t][n].slots.index <= x,
           \A k \in 1 .. j : s.handlers[t][k].frame <= n /\ s.handlers[t][k].level.index <= x,
           \A k \in DOMAIN s.open[t] : s.open[t][k] \in z \/ s.place[s.open[t][k]].index < x,
           NEW r, r = With(s, t, SubSeq(s.stack[t], 1, x), SubSeq(s.frames[t], 1, n),
                           SubSeq(s.handlers[t], 1, j))
    PROVE  Good(r, l, v, z)
<1> DEFINE st == SubSeq(s.stack[t], 1, x)
           fr == SubSeq(s.frames[t], 1, n)
           ha == SubSeq(s.handlers[t], 1, j)
           F == [slots : Pointers, base : Pointers]
           H == [frame : Nat, level : Pointers]
<1>1. /\ s.stack[t] \in Seq(Values) /\ s.frames[t] \in Seq(F) /\ s.handlers[t] \in Seq(H)
      /\ Top(s, t) \in Nat /\ Len(s.frames[t]) \in Nat /\ Len(s.handlers[t]) \in Nat
  BY GoodFacts, TaskFields
<1>2. Frames = Seq(F) /\ Handlers = Seq(H) /\ r = With(s, t, st, fr, ha)
  BY DEF Frames, Handlers
<1> HIDE DEF F, H
<1>3. /\ n \in Nat /\ 1 <= n /\ n <= Len(s.frames[t]) /\ j \in Nat /\ j <= Len(s.handlers[t])
      /\ x \in Nat /\ x <= Top(s, t)
      /\ n \in 0 .. Len(s.frames[t])
  BY <1>1
<1>4. st \in Seq(Values) /\ Len(st) = x /\ \A i \in 1 .. x : st[i] = s.stack[t][i]
  BY <1>1, Prefix DEF Top
<1>5. fr \in Frames /\ Len(fr) = n /\ DOMAIN fr = 1 .. n /\ \A i \in 1 .. n : fr[i] = s.frames[t][i]
  BY <1>1, <1>2, <1>3, Prefix
<1>6. ha \in Handlers /\ Len(ha) = j /\ DOMAIN ha = 1 .. j /\ \A k \in 1 .. j : ha[k] = s.handlers[t][k]
  BY <1>1, <1>2, Prefix
<1> HIDE DEF st, fr, ha
<1>7. Shorter(s, t, st, fr, ha, z)
  BY <1>3, <1>4, <1>5, <1>6 DEF Shorter
<1> QED
  BY <1>2, <1>7, ShorterKeeps

-----------------------------------------------------------------------------
(* closeUpvalues                                                           *)

\* How many cells of t closeUpvalues takes from the head of its list.
Taken(s, t, i) ==
    Min({Len(s.open[t])} \cup {k - 1 : k \in {k \in DOMAIN s.open[t] : ~Above(s, s.open[t][k], i)}})

Gone(s, t, i) == {s.open[t][k] : k \in 1 .. Taken(s, t, i)}

\* As the cells stand in order, those are all that it has to take.
LEMMA TakenAreAbove ==
    ASSUME NEW s \in VmStates, NEW t \in Tasks, Descending(s, t), NEW i \in Nat
    PROVE  /\ Taken(s, t, i) \in Nat /\ Taken(s, t, i) <= Len(s.open[t])
           /\ \A k \in 1 .. Taken(s, t, i) : s.place[s.open[t][k]].index >= i
           /\ \A k \in DOMAIN s.open[t] : k > Taken(s, t, i) => s.place[s.open[t][k]].index < i
<1> DEFINE q == s.open[t]
           h == Len(q)
           B == {k \in DOMAIN q : ~Above(s, q[k], i)}
           S == {h} \cup {k - 1 : k \in B}
           n == Min(S)
<1>1. h \in Nat /\ DOMAIN q = 1 .. h /\ \A k \in DOMAIN q : s.place[q[k]].index \in Nat
  BY TaskFields, PlaceFields
<1>2. S \in SUBSET Nat /\ S # {} /\ h \in S
  <2>1. \A k \in B : k - 1 \in Nat
    BY <1>1
  <2> QED
    BY <1>1, <2>1
<1>3. n \in S /\ \A y \in S : n <= y
  <2> HIDE DEF S
  <2> QED
    BY <1>2, MinIs
<1>4. n = Taken(s, t, i)
  BY DEF Taken
<1>5. \A k \in B : k - 1 \in S
  OBVIOUS
<1> HIDE DEF n, h
<1>6. n \in Nat /\ n <= h
  BY <1>2, <1>3
<1>7. ASSUME NEW k \in 1 .. n PROVE s.place[q[k]].index >= i
  <2>1. k \in DOMAIN q
    BY <1>1, <1>6
  <2>2. k \notin B
    <3>1. k \in Int /\ ~(n <= k - 1)
      BY <1>6
    <3> QED
      BY <1>3, <1>5, <3>1
  <2> QED
    BY <2>1, <2>2 DEF Above
<1>8. ASSUME NEW k \in DOMAIN q, k > n PROVE s.place[q[k]].index < i
  <2>1. n # h
    BY <1>1, <1>8
  <2>2. PICK b \in B : n = b - 1
    BY <1>3, <2>1
  <2>3. b \in DOMAIN q /\ s.place[q[b]].index \in Nat /\ ~(s.place[q[b]].index >= i)
    BY <1>1, <2>2 DEF Above
  <2>4. s.place[q[b]].index < i
    BY <2>3
  <2>5. b \in Nat /\ k \in Nat /\ b <= k
    BY <1>1, <1>8, <2>2, <2>3
  <2>6. CASE b = k
    BY <2>4, <2>6
  <2>7. CASE b # k
    <3>1. b < k
      BY <2>5, <2>7
    <3>2. s.place[q[b]].index > s.place[q[k]].index
      BY <1>8, <2>3, <3>1 DEF Descending
    <3> QED
      BY <1>1, <1>8, <2>3, <2>4, <3>2, SMTT(30)
  <2> QED
    BY <2>6, <2>7
<1> QED
  BY <1>4, <1>6, <1>7, <1>8 DEF h

LEMMA Suffix ==
    ASSUME NEW S, NEW q \in Seq(S), NEW n \in 0 .. Len(q)
    PROVE  /\ SubSeq(q, n + 1, Len(q)) \in Seq(S) /\ Len(SubSeq(q, n + 1, Len(q))) = Len(q) - n
           /\ DOMAIN SubSeq(q, n + 1, Len(q)) = 1 .. Len(q) - n
           /\ \A i \in 1 .. Len(q) - n : SubSeq(q, n + 1, Len(q))[i] = q[n + i]
  OBVIOUS

LEMMA CloseFields ==
    ASSUME NEW s \in VmStates, NEW t \in Tasks, Descending(s, t), NEW i \in Nat,
           NEW r, r = CloseUpvalues(s, t, i)
    PROVE  /\ r \in VmStates
           /\ r.stack = s.stack /\ r.cap = s.cap /\ r.gen = s.gen /\ r.frames = s.frames
           /\ r.handlers = s.handlers /\ r.used = s.used
           /\ \A u \in Tasks : u # t => r.open[u] = s.open[u]
           /\ r.open[t] = SubSeq(s.open[t], Taken(s, t, i) + 1, Len(s.open[t]))
           /\ \A c \in Gone(s, t, i) : /\ r.place[c] = Own
                                       /\ r.closed[c] = Slot(s, t, s.place[c].index)
           /\ \A c \in Cells \ Gone(s, t, i) : r.place[c] = s.place[c] /\ r.closed[c] = s.closed[c]
<1> DEFINE G == Gone(s, t, i)
           cl == [c \in Cells |-> IF c \in G THEN Slot(s, t, s.place[c].index) ELSE s.closed[c]]
           pl == [c \in Cells |-> IF c \in G THEN Own ELSE s.place[c]]
           oq == SubSeq(s.open[t], Taken(s, t, i) + 1, Len(s.open[t]))
           op == [s.open EXCEPT ![t] = oq]
<1>1. r = [s EXCEPT !.closed = cl, !.place = pl, !.open[t] = oq]
  BY DEF CloseUpvalues, Gone, Taken
<1>2. /\ s.open[t] \in Seq(Cells) /\ Len(s.open[t]) \in Nat /\ DOMAIN s.open[t] = 1 .. Len(s.open[t])
      /\ Taken(s, t, i) \in 0 .. Len(s.open[t])
  <2>1. Taken(s, t, i) \in Nat /\ Taken(s, t, i) <= Len(s.open[t])
    BY TakenAreAbove, Zenon
  <2> QED
    BY <2>1, TaskFields
<1>3. oq \in Seq(Cells)
  BY <1>2, Suffix
<1>4. G \in SUBSET Cells /\ \A c \in G : c \in Elements(s.open[t])
  BY <1>2 DEF Gone, Elements
<1>5. ASSUME NEW c \in Elements(s.open[t]) PROVE Slot(s, t, s.place[c].index) \in Values
  <2>1. PICK k \in DOMAIN s.open[t] : c = s.open[t][k]
    BY <1>5 DEF Elements
  <2>2. s.place[c].index \in Nat
    BY <2>1, TaskFields, PlaceFields
  <2>3. s.stack[t] \in Seq(Values) /\ Top(s, t) = Len(s.stack[t]) /\ Top(s, t) \in Nat
    BY TaskFields DEF Top
  <2>4. s.place[c].index < Top(s, t) => s.place[c].index + 1 \in 1 .. Len(s.stack[t])
    BY <2>2, <2>3
  <2>5. Unset \in Values
    BY StackAssumption
  <2> QED
    BY <2>3, <2>4, <2>5, ElementOfSeq DEF Slot
<1>6. /\ s.stack \in [Tasks -> Seq(Values)] /\ s.cap \in [Tasks -> Nat] /\ s.gen \in [Tasks -> Nat]
      /\ s.frames \in [Tasks -> Frames] /\ s.handlers \in [Tasks -> Handlers]
      /\ s.open \in [Tasks -> Seq(Cells)] /\ s.place \in [Cells -> Places]
      /\ s.closed \in [Cells -> Values] /\ s.used \in SUBSET Cells
  BY StateFields DEF Frames, Handlers
<1>7. Own \in Places
  BY DEF Places
<1> HIDE DEF G, oq
<1>8. cl \in [Cells -> Values]
  BY <1>4, <1>5, <1>6
<1>9. pl \in [Cells -> Places]
  BY <1>6, <1>7
<1>10. op \in [Tasks -> Seq(Cells)] /\ op[t] = oq /\ \A u \in Tasks : u # t => op[u] = s.open[u]
  BY <1>3, <1>6
<1>11. /\ \A c \in G : pl[c] = Own /\ cl[c] = Slot(s, t, s.place[c].index)
       /\ \A c \in Cells \ G : pl[c] = s.place[c] /\ cl[c] = s.closed[c]
  BY <1>4
<1>12. r = [stack |-> s.stack, cap |-> s.cap, gen |-> s.gen, frames |-> s.frames,
            handlers |-> s.handlers, open |-> op, place |-> pl, closed |-> cl, used |-> s.used]
  <2>1. s = [stack |-> s.stack, cap |-> s.cap, gen |-> s.gen, frames |-> s.frames,
             handlers |-> s.handlers, open |-> s.open, place |-> s.place,
             closed |-> s.closed, used |-> s.used]
    BY StateFields
  <2> HIDE DEF cl, pl
  <2> QED
    BY <1>1, <2>1
<1> HIDE DEF op, pl, cl
<1>13. r \in [stack : [Tasks -> Seq(Values)], cap : [Tasks -> Nat], gen : [Tasks -> Nat],
              frames : [Tasks -> Frames], handlers : [Tasks -> Handlers], open : [Tasks -> Seq(Cells)],
              place : [Cells -> Places], closed : [Cells -> Values], used : SUBSET Cells]
  BY <1>6, <1>8, <1>9, <1>10, <1>12
<1>14. r \in VmStates
  BY <1>13 DEF VmStates, Frames, Handlers
<1>15. /\ r.stack = s.stack /\ r.cap = s.cap /\ r.gen = s.gen /\ r.frames = s.frames
       /\ r.handlers = s.handlers /\ r.used = s.used /\ r.open = op /\ r.place = pl /\ r.closed = cl
  BY <1>12
<1> QED
  BY <1>10, <1>11, <1>14, <1>15 DEF G, oq

\* What is in the closed cells is what the variables were; the cells that are
\* left refer to slots below i.
LEMMA CloseKeeps ==
    ASSUME NEW l, NEW v, NEW z, NEW s, Good(s, l, v, z), NEW t \in Tasks, l[t] = "live", NEW i \in Nat,
           NEW r, r = CloseUpvalues(s, t, i)
    PROVE  /\ Good(r, l, v, z)
           /\ r.stack = s.stack /\ r.cap = s.cap /\ r.gen = s.gen /\ r.frames = s.frames
           /\ r.handlers = s.handlers
           /\ \A k \in DOMAIN r.open[t] : r.place[r.open[t][k]].index < i
           /\ \A j \in Nat :
                 (\A k \in DOMAIN s.open[t] : s.open[t][k] \in z \/ s.place[s.open[t][k]].index < j)
                   => \A k \in DOMAIN r.open[t] : r.open[t][k] \in z \/ r.place[r.open[t][k]].index < j
           /\ \A c \in Elements(r.open[t]) : c \in Elements(s.open[t]) /\ r.place[c] = s.place[c]
<1> DEFINE n == Taken(s, t, i)
           q == s.open[t]
           G == Gone(s, t, i)
           h == Len(q)
<1>1. s \in VmStates /\ TaskInv(s, t, z) /\ OpenInOrder(s, t, z) /\ Descending(s, t)
  BY GoodFacts DEF TaskInv, OpenInOrder, Descending
<1>2. /\ r \in VmStates
      /\ r.stack = s.stack /\ r.cap = s.cap /\ r.gen = s.gen /\ r.frames = s.frames
      /\ r.handlers = s.handlers /\ r.used = s.used
      /\ \A u \in Tasks : u # t => r.open[u] = s.open[u]
      /\ r.open[t] = SubSeq(q, n + 1, h)
      /\ \A c \in G : r.place[c] = Own /\ r.closed[c] = Slot(s, t, s.place[c].index)
      /\ \A c \in Cells \ G : r.place[c] = s.place[c] /\ r.closed[c] = s.closed[c]
  BY <1>1, CloseFields
<1>3. /\ q \in Seq(Cells) /\ h \in Nat /\ DOMAIN q = 1 .. h /\ \A k \in DOMAIN q : q[k] \in Cells
      /\ \A k \in DOMAIN q : s.place[q[k]].index \in Nat
  BY <1>1, TaskFields, PlaceFields
<1>4. /\ n \in Nat /\ n <= h
      /\ \A k \in 1 .. n : s.place[q[k]].index >= i
      /\ \A k \in DOMAIN q : k > n => s.place[q[k]].index < i
  BY <1>1, TakenAreAbove
<1>5. G = {q[k] : k \in 1 .. n}
  BY DEF Gone
<1> HIDE DEF G, n
<1>6. DOMAIN r.open[t] = 1 .. h - n /\ \A k \in 1 .. h - n : r.open[t][k] = q[n + k]
  <2>1. n \in 0 .. Len(q)
    BY <1>3, <1>4
  <2> QED
    BY <1>2, <1>3, <2>1, Suffix
<1> HIDE DEF q, h
<1>7. \A k \in 1 .. h - n : n + k \in DOMAIN q /\ n + k > n
  BY <1>3, <1>4
<1>8. ASSUME NEW k \in 1 .. h - n PROVE q[n + k] \in Cells \ G
  <2>1. s.place[q[n + k]].index < i /\ s.place[q[n + k]].index \in Nat
    BY <1>3, <1>4, <1>7
  <2>2. \A g \in 1 .. n : s.place[q[g]].index >= i
    BY <1>4
  <2> QED
    BY <1>3, <1>5, <1>7, <2>1, <2>2
<1>9. \A k \in 1 .. h - n : r.place[r.open[t][k]] = s.place[q[n + k]]
  BY <1>2, <1>6, <1>8
<1>10. \A k \in DOMAIN r.open[t] : r.place[r.open[t][k]].index < i
  BY <1>4, <1>6, <1>7, <1>9
<1>11. ASSUME NEW j \in Nat,
              \A k \in DOMAIN s.open[t] : s.open[t][k] \in z \/ s.place[s.open[t][k]].index < j
       PROVE  \A k \in DOMAIN r.open[t] : r.open[t][k] \in z \/ r.place[r.open[t][k]].index < j
  BY <1>6, <1>7, <1>9, <1>11 DEF q
<1>12. \A c \in Elements(r.open[t]) : c \in Elements(s.open[t]) /\ r.place[c] = s.place[c]
  BY <1>6, <1>7, <1>9 DEF Elements, q
<1>13. ASSUME NEW c \in G
       PROVE  /\ c \in Cells /\ c \in Elements(s.open[t]) /\ s.place[c] # Own /\ s.place[c].task = t
              /\ c \in s.used /\ (c \in z \/ Slot(s, t, s.place[c].index) = v[c])
  <2>1. PICK k \in 1 .. n : c = q[k]
    BY <1>5
  <2>2. k \in DOMAIN q
    BY <1>3, <1>4
  <2>3. c \in Cells /\ c \in Elements(s.open[t])
    BY <1>3, <2>1, <2>2 DEF Elements, q
  <2>4. s.place[c].task = t /\ s.place[c] # Own
    BY <1>1, <2>1, <2>2, <2>3, PlaceFields, StackAssumption DEF OpenInOrder, q
  <2>5. CellInv(s, l, v, z, c)
    BY <2>3 DEF Good
  <2> QED
    BY <2>3, <2>4, <2>5 DEF CellInv
<1>14. ASSUME NEW u \in Tasks PROVE IF l[u] = "live" THEN TaskInv(r, u, z) ELSE Empty(r, u)
  <2>1. CASE u = t
    <3>1. Top(r, t) = Top(s, t)
      BY <1>2, SMTT(30) DEF Top
    <3>2. FramesNest(r, t) /\ HandlersNest(r, t)
      BY <1>1, <1>2, <3>1 DEF TaskInv, FramesNest, HandlersNest
    <3>3. OpenInOrder(r, t, z)
      <4>1. ASSUME NEW k \in 1 .. h - n
            PROVE  /\ s.place[q[n + k]].task = t
                   /\ q[n + k] \in z \/ s.place[q[n + k]].index < Top(s, t)
                   /\ \A j \in 1 .. h - n : j < k => s.place[q[n + j]].index > s.place[q[n + k]].index
                   /\ \A f \in DOMAIN s.frames[t] :
                         \/ s.place[q[n + k]].index < s.frames[t][f].base.index
                         \/ s.place[q[n + k]].index >= s.frames[t][f].slots.index
                         \/ q[n + k] \in z /\ f # 1
        <5>1. n + k \in DOMAIN q /\ \A j \in 1 .. h - n : n + j \in DOMAIN q /\ (j < k => n + j < n + k)
          BY <1>4, <1>7
        <5> QED
          BY <1>1, <5>1 DEF OpenInOrder, q
      <4>2. DOMAIN r.open[t] = 1 .. h - n /\ r.frames[t] = s.frames[t]
        BY <1>2, <1>6
      <4> QED
        BY <1>6, <1>9, <3>1, <4>1, <4>2, SMTT(60) DEF OpenInOrder
    <3>4. Current(r, t)
      <4>1. Current(s, t)
        BY <1>1 DEF TaskInv
      <4>2. \A k \in 1 .. h - n : s.place[q[n + k]].gen = s.gen[t]
        BY <1>7, <4>1 DEF Current, q
      <4>3. /\ DOMAIN r.open[t] = 1 .. h - n /\ r.gen[t] = s.gen[t]
            /\ r.frames[t] = s.frames[t] /\ r.handlers[t] = s.handlers[t]
        BY <1>2, <1>6
      <4> QED
        BY <1>9, <4>1, <4>2, <4>3 DEF Current
    <3> QED
      BY <2>1, <3>2, <3>3, <3>4 DEF TaskInv
  <2>2. CASE u # t
    <3>1. ASSUME NEW k \in DOMAIN s.open[u] PROVE r.place[s.open[u][k]] = s.place[s.open[u][k]]
      <4>1. s.open[u][k] \in Cells /\ s.place[s.open[u][k]].task = u
        BY <1>1, GoodFacts, TaskFields
      <4>2. s.open[u][k] \notin G
        BY <1>13, <2>2, <4>1
      <4> QED
        BY <1>2, <4>1, <4>2
    <3> QED
      BY <1>1, <1>2, <2>2, <3>1, GoodFacts, Stands
  <2> QED
    BY <2>1, <2>2
<1>15. ASSUME NEW c \in Cells PROVE CellInv(r, l, v, z, c)
  <2>1. CellInv(s, l, v, z, c)
    BY DEF Good
  <2>2. CASE c \in G
    <3>1. r.place[c] = Own /\ (c \in z \/ r.closed[c] = v[c])
      BY <1>2, <1>13, <2>2
    <3> QED
      BY <3>1 DEF CellInv
  <2>3. CASE c \notin G
    <3>1. r.place[c] = s.place[c] /\ r.closed[c] = s.closed[c]
      BY <1>2, <2>3
    <3>2. \A u \in Tasks : Slot(r, u, s.place[c].index) = Slot(s, u, s.place[c].index)
      BY <1>2 DEF Slot, Top
    <3>3. ASSUME s.place[c] # Own, c \in Elements(s.open[s.place[c].task])
          PROVE  c \in Elements(r.open[s.place[c].task])
      <4>1. s.place[c].task \in Tasks
        BY <1>1, <3>3, PlaceFields
      <4>2. CASE s.place[c].task # t
        BY <1>2, <3>3, <4>1, <4>2
      <4>3. CASE s.place[c].task = t
        <5>1. PICK k \in DOMAIN q : c = q[k]
          BY <3>3, <4>3 DEF Elements, q
        <5>2. k > n
          BY <1>3, <1>4, <1>5, <2>3, <5>1
        <5>3. k - n \in 1 .. h - n /\ n + (k - n) = k
          BY <1>3, <1>4, <5>1, <5>2
        <5> QED
          BY <1>6, <4>3, <5>1, <5>3, ZenonT(30) DEF Elements
      <4> QED
        BY <4>2, <4>3
    <3>4. s.place[c] # Own => s.place[c].task \in Tasks
      BY <1>1, PlaceFields
    <3> QED
      BY <1>2, <2>1, <3>1, <3>2, <3>3, <3>4 DEF CellInv
  <2> QED
    BY <2>2, <2>3
<1>16. Fits(r)
  BY <1>2 DEF Good, Fits
<1> QED
  BY <1>2, <1>10, <1>11, <1>12, <1>14, <1>15, <1>16 DEF Good

-----------------------------------------------------------------------------
(* captureUpvalue                                                          *)

Inserted(q, k, c) == SubSeq(q, 1, k) \o <<c>> \o SubSeq(q, k + 1, Len(q))

LEMMA Insertion ==
    ASSUME NEW S, NEW q \in Seq(S), NEW k \in 0 .. Len(q), NEW c \in S,
           NEW p, p = Inserted(q, k, c)
    PROVE  /\ p \in Seq(S) /\ Len(p) = Len(q) + 1 /\ DOMAIN p = 1 .. Len(q) + 1
           /\ \A j \in 1 .. k : p[j] = q[j]
           /\ p[k + 1] = c
           /\ \A j \in k + 1 .. Len(q) : p[j + 1] = q[j]
<1> DEFINE a == SubSeq(q, 1, k)
           b == SubSeq(q, k + 1, Len(q))
           h == Len(q)
<1>1. h \in Nat /\ k \in Nat /\ k <= h
  OBVIOUS
<1>2. a \in Seq(S) /\ Len(a) = k /\ \A j \in 1 .. k : a[j] = q[j]
  BY Prefix
<1>3. b \in Seq(S) /\ Len(b) = h - k /\ \A j \in 1 .. h - k : b[j] = q[k + j]
  BY Suffix
<1>4. p = a \o <<c>> \o b
  BY DEF Inserted
<1> HIDE DEF a, b, h
<1> DEFINE d == a \o <<c>>
<1>5. d \in Seq(S) /\ Len(d) = k + 1 /\ d[k + 1] = c /\ \A j \in 1 .. k : d[j] = q[j]
  BY <1>1, <1>2
<1>6. p = d \o b
  BY <1>4
<1> HIDE DEF d
<1>7. /\ d \o b \in Seq(S) /\ Len(d \o b) = Len(d) + Len(b)
      /\ \A j \in 1 .. Len(d) + Len(b) : (d \o b)[j] = IF j <= Len(d) THEN d[j] ELSE b[j - Len(d)]
  BY <1>3, <1>5, ConcatProperties
<1> DEFINE g == Len(d) + Len(b)
<1>8. g = h + 1
  BY <1>1, <1>3, <1>5
<1>9. /\ p \in Seq(S) /\ Len(p) = h + 1 /\ DOMAIN p = 1 .. h + 1
      /\ \A j \in 1 .. h + 1 : p[j] = IF j <= k + 1 THEN d[j] ELSE b[j - (k + 1)]
  <2>1. /\ p \in Seq(S) /\ Len(p) = g
        /\ \A j \in 1 .. g : p[j] = IF j <= k + 1 THEN d[j] ELSE b[j - (k + 1)]
    BY <1>5, <1>6, <1>7
  <2> HIDE DEF g
  <2>2. Len(p) = h + 1 /\ 1 .. g = 1 .. h + 1
    BY <1>8, <2>1
  <2>3. DOMAIN p = 1 .. h + 1
    BY <2>1, <2>2, LenProperties
  <2> QED
    BY <2>1, <2>2, <2>3
<1>10. ASSUME NEW j \in 1 .. k PROVE p[j] = q[j]
  <2>1. j \in 1 .. h + 1 /\ j <= k + 1
    BY <1>1
  <2> QED
    BY <1>5, <1>9, <2>1
<1>11. p[k + 1] = c
  <2>1. k + 1 \in 1 .. h + 1 /\ k + 1 <= k + 1
    BY <1>1
  <2> QED
    BY <1>5, <1>9, <2>1
<1>12. ASSUME NEW j \in k + 1 .. h PROVE p[j + 1] = q[j]
  <2>1. /\ j + 1 \in 1 .. h + 1 /\ ~(j + 1 <= k + 1)
        /\ (j + 1) - (k + 1) = j - k /\ j - k \in 1 .. h - k /\ k + (j - k) = j
    BY <1>1
  <2>2. p[j + 1] = b[(j + 1) - (k + 1)]
    BY <1>9, <2>1
  <2> QED
    BY <1>3, <2>1, <2>2
<1> QED
  BY <1>9, <1>10, <1>11, <1>12 DEF h

\* Where captureUpvalue puts the cell of slot i in the list of t.
Higher(s, t, i) == Cardinality({j \in DOMAIN s.open[t] : s.place[s.open[t][j]].index > i})

LEMMA HigherComeFirst ==
    ASSUME NEW s \in VmStates, NEW t \in Tasks, Descending(s, t), NEW i \in Nat, Found(s, t, i) = {}
    PROVE  /\ Higher(s, t, i) \in 0 .. Len(s.open[t])
           /\ \A k \in DOMAIN s.open[t] : /\ k <= Higher(s, t, i) => s.place[s.open[t][k]].index > i
                                          /\ k > Higher(s, t, i) => s.place[s.open[t][k]].index < i
<1> DEFINE q == s.open[t]
           S == {j \in DOMAIN q : s.place[q[j]].index > i}
<1>1. /\ Len(q) \in Nat /\ DOMAIN q = 1 .. Len(q) /\ \A k \in DOMAIN q : s.place[q[k]].index \in Nat
  BY TaskFields, PlaceFields
<1>2. S \in SUBSET (1 .. Len(q))
  BY <1>1
<1>3. \A k \in S : \A j \in 1 .. Len(q) : j < k => j \in S
  <2>1. ASSUME NEW k \in S, NEW j \in 1 .. Len(q), j < k PROVE j \in S
    <3>1. j \in DOMAIN q /\ k \in DOMAIN q
      BY <1>1
    <3>2. s.place[q[j]].index > s.place[q[k]].index
      BY <2>1, <3>1 DEF Descending
    <3>3. s.place[q[j]].index > i
      BY <1>1, <3>1, <3>2, SMTT(30)
    <3> QED
      BY <3>1, <3>3
  <2> QED
    BY <2>1
<1> HIDE DEF S
<1>4. Cardinality(S) \in 0 .. Len(q) /\ S = 1 .. Cardinality(S)
  BY <1>1, <1>2, <1>3, InitialSegment
<1>5. Cardinality(S) = Higher(s, t, i)
  BY DEF Higher, S
<1>6. \A k \in DOMAIN q : s.place[q[k]].index # i
  BY DEF Found, Elements
<1>7. ASSUME NEW k \in DOMAIN q
      PROVE  /\ k <= Cardinality(S) => s.place[q[k]].index > i
             /\ k > Cardinality(S) => s.place[q[k]].index < i
  <2>1. k <= Cardinality(S) <=> k \in S
    BY <1>1, <1>4
  <2>2. k \in S <=> s.place[q[k]].index > i
    BY DEF S
  <2> QED
    BY <1>1, <1>4, <1>6, <2>1, <2>2
<1> QED
  BY <1>4, <1>5, <1>7

LEMMA CaptureFields ==
    ASSUME NEW s \in VmStates, NEW t \in Tasks, Descending(s, t), NEW i \in Nat, Found(s, t, i) = {},
           NEW c \in Cells, NEW r, r = CaptureUpvalue(s, t, i, c)
    PROVE  /\ r \in VmStates
           /\ r.stack = s.stack /\ r.cap = s.cap /\ r.gen = s.gen /\ r.frames = s.frames
           /\ r.handlers = s.handlers /\ r.closed = s.closed /\ r.used = s.used \cup {c}
           /\ \A u \in Tasks : u # t => r.open[u] = s.open[u]
           /\ r.open[t] = Inserted(s.open[t], Higher(s, t, i), c)
           /\ r.place[c] = [task |-> t, gen |-> s.gen[t], index |-> i]
           /\ \A d \in Cells : d # c => r.place[d] = s.place[d]
<1> DEFINE k == Higher(s, t, i)
           oq == Inserted(s.open[t], k, c)
           op == [s.open EXCEPT ![t] = oq]
           pc == [task |-> t, gen |-> s.gen[t], index |-> i]
           pl == [s.place EXCEPT ![c] = pc]
           us == s.used \cup {c}
<1>1. r = [s EXCEPT !.open[t] = oq, !.place[c] = pc, !.used = us]
  BY DEF CaptureUpvalue, Higher, Inserted
<1>2. s.open[t] \in Seq(Cells) /\ k \in 0 .. Len(s.open[t]) /\ s.gen[t] \in Nat
  BY TaskFields, HigherComeFirst
<1>3. oq \in Seq(Cells)
  <2> HIDE DEF k
  <2> QED
    BY <1>2, Insertion
<1>4. pc \in Places
  BY <1>2 DEF Places
<1>5. /\ s.stack \in [Tasks -> Seq(Values)] /\ s.cap \in [Tasks -> Nat] /\ s.gen \in [Tasks -> Nat]
      /\ s.frames \in [Tasks -> Frames] /\ s.handlers \in [Tasks -> Handlers]
      /\ s.open \in [Tasks -> Seq(Cells)] /\ s.place \in [Cells -> Places]
      /\ s.closed \in [Cells -> Values] /\ us \in SUBSET Cells
  BY StateFields DEF Frames, Handlers
<1> HIDE DEF oq, pc, us
<1>6. op \in [Tasks -> Seq(Cells)] /\ op[t] = oq /\ \A u \in Tasks : u # t => op[u] = s.open[u]
  BY <1>3, <1>5
<1>7. pl \in [Cells -> Places] /\ pl[c] = pc /\ \A d \in Cells : d # c => pl[d] = s.place[d]
  BY <1>4, <1>5
<1>8. r = [stack |-> s.stack, cap |-> s.cap, gen |-> s.gen, frames |-> s.frames,
           handlers |-> s.handlers, open |-> op, place |-> pl, closed |-> s.closed, used |-> us]
  <2>1. s = [stack |-> s.stack, cap |-> s.cap, gen |-> s.gen, frames |-> s.frames,
             handlers |-> s.handlers, open |-> s.open, place |-> s.place,
             closed |-> s.closed, used |-> s.used]
    BY StateFields
  <2> QED
    BY <1>1, <2>1
<1> HIDE DEF op, pl
<1>9. r \in [stack : [Tasks -> Seq(Values)], cap : [Tasks -> Nat], gen : [Tasks -> Nat],
             frames : [Tasks -> Frames], handlers : [Tasks -> Handlers], open : [Tasks -> Seq(Cells)],
             place : [Cells -> Places], closed : [Cells -> Values], used : SUBSET Cells]
  BY <1>5, <1>6, <1>7, <1>8
<1>10. r \in VmStates
  BY <1>9 DEF VmStates, Frames, Handlers
<1>11. /\ r.stack = s.stack /\ r.cap = s.cap /\ r.gen = s.gen /\ r.frames = s.frames
       /\ r.handlers = s.handlers /\ r.used = us /\ r.open = op /\ r.place = pl /\ r.closed = s.closed
  BY <1>8
<1> QED
  BY <1>6, <1>7, <1>10, <1>11 DEF oq, pc, us

\* In a live task, frames begin at or below the innermost one.
LEMMA InnermostFrame ==
    ASSUME NEW s \in VmStates, NEW t \in Tasks, FramesNest(s, t)
    PROVE  /\ Len(s.frames[t]) \in DOMAIN s.frames[t]
           /\ Last(s.frames[t]) = s.frames[t][Len(s.frames[t])]
           /\ \A i \in DOMAIN s.frames[t] :
                 s.frames[t][i].slots.index <= s.frames[t][Len(s.frames[t])].slots.index
<1> DEFINE f == s.frames[t]
           n == Len(f)
<1>1. n \in Nat /\ DOMAIN f = 1 .. n /\ f # <<>>
  BY TaskFields DEF FramesNest
<1>2. n # 0
  <2> DEFINE F == [slots : Pointers, base : Pointers]
  <2>1. f \in Seq(F)
    BY TaskFields
  <2> HIDE DEF F, f
  <2> QED
    BY <1>1, <2>1, EmptySeq
<1>3. n \in DOMAIN f
  BY <1>1, <1>2
<1>4. ASSUME NEW i \in DOMAIN f PROVE f[i].slots.index <= f[n].slots.index
  <2>1. f[i].slots.index \in Nat /\ f[n].slots.index \in Nat /\ f[n].base.index \in Nat
    BY <1>3, TaskFields
  <2>2. CASE i = n
    BY <2>1, <2>2
  <2>3. CASE i # n
    <3>1. i < n
      BY <1>1, <2>3
    <3>2. f[i].slots.index <= f[n].base.index /\ f[n].base.index <= f[n].slots.index
      BY <1>3, <3>1 DEF FramesNest
    <3> QED
      BY <2>1, <3>2, SMTT(30)
  <2> QED
    BY <2>2, <2>3
<1> QED
  BY <1>3, <1>4 DEF Last

\* The cell of a local that is captured has the value of the local.
LEMMA CaptureKeeps ==
    ASSUME NEW l, NEW v \in Variables, NEW z, NEW s, Good(s, l, v, z), NEW t \in Tasks, l[t] = "live",
           NEW i \in Nat, i < Top(s, t), Last(s.frames[t]).slots.index <= i,
           NEW c \in Cells, c \notin s.used,
           NEW r, r = CaptureUpvalue(s, t, i, c),
           NEW w, w = [v EXCEPT ![c] = IF Found(s, t, i) = {} THEN Slot(s, t, i) ELSE @]
    PROVE  Good(r, l, w, z) /\ w \in Variables
<1>1. /\ s \in VmStates /\ TaskInv(s, t, z) /\ FramesNest(s, t) /\ OpenInOrder(s, t, z) /\ Current(s, t)
      /\ Descending(s, t)
  BY GoodFacts DEF TaskInv, OpenInOrder, Descending
<1>2. CASE Found(s, t, i) # {}
  <2>1. r = s
    BY <1>2 DEF CaptureUpvalue
  <2>2. w = v
    BY <1>2 DEF Variables
  <2> QED
    BY <2>1, <2>2
<1>3. CASE Found(s, t, i) = {}
  <2> DEFINE q == s.open[t]
             p == r.open[t]
             h == Len(q)
             k == Higher(s, t, i)
  <2>1. /\ r \in VmStates
        /\ r.stack = s.stack /\ r.cap = s.cap /\ r.gen = s.gen /\ r.frames = s.frames
        /\ r.handlers = s.handlers /\ r.closed = s.closed /\ r.used = s.used \cup {c}
        /\ \A u \in Tasks : u # t => r.open[u] = s.open[u]
        /\ p = Inserted(q, k, c)
        /\ r.place[c] = [task |-> t, gen |-> s.gen[t], index |-> i]
        /\ \A d \in Cells : d # c => r.place[d] = s.place[d]
    BY <1>1, <1>3, CaptureFields
  <2>2. /\ q \in Seq(Cells) /\ h \in Nat /\ DOMAIN q = 1 .. h /\ \A j \in DOMAIN q : q[j] \in Cells
        /\ \A j \in DOMAIN q : s.place[q[j]].index \in Nat
    BY <1>1, TaskFields, PlaceFields
  <2>3. /\ k \in 0 .. h
        /\ \A j \in DOMAIN q : /\ j <= k => s.place[q[j]].index > i
                               /\ j > k => s.place[q[j]].index < i
    BY <1>1, <1>3, HigherComeFirst
  <2> HIDE DEF q, p, h, k
  <2>4. k \in Nat /\ k <= h
    BY <2>2, <2>3
  <2>5. /\ DOMAIN p = 1 .. h + 1
        /\ \A j \in 1 .. k : p[j] = q[j]
        /\ p[k + 1] = c
        /\ \A j \in k + 1 .. h : p[j + 1] = q[j]
    <3>1. k \in 0 .. Len(q) /\ p = Inserted(q, k, c)
      BY <2>1, <2>3 DEF h
    <3> DEFINE x == Inserted(q, k, c)
    <3>2. /\ x \in Seq(Cells) /\ Len(x) = Len(q) + 1 /\ DOMAIN x = 1 .. Len(q) + 1
          /\ \A j \in 1 .. k : x[j] = q[j]
          /\ x[k + 1] = c
          /\ \A j \in k + 1 .. Len(q) : x[j + 1] = q[j]
      <4> HIDE DEF x
      <4>1. q \in Seq(Cells) /\ k \in 0 .. Len(q) /\ c \in Cells /\ x = Inserted(q, k, c)
        BY <2>2, <3>1 DEF x
      <4> QED
        BY <4>1, Insertion, SMTT(30)
    <3>3. p = x
      BY <3>1
    <3> HIDE DEF x
    <3> QED
      BY <3>2, <3>3 DEF h
  \* Before c came, no task had it in its list.
  <2>6. s.place[c] = Own
    <3>1. CellInv(s, l, v, z, c)
      BY DEF Good
    <3> QED
      BY <3>1 DEF CellInv
  <2>7. ASSUME NEW u \in Tasks, NEW j \in DOMAIN s.open[u]
        PROVE  s.open[u][j] \in Cells /\ s.open[u][j] # c /\ s.place[s.open[u][j]].task = u
    <3>1. s.open[u][j] \in Cells /\ s.place[s.open[u][j]].task = u
      BY <1>1, GoodFacts, TaskFields
    <3>2. s.place[c].task = NoTask
      BY <1>1, <2>6, PlaceFields
    <3> QED
      BY <3>1, <3>2, StackAssumption
  <2>8. \A j \in 1 .. h : r.place[q[j]] = s.place[q[j]]
    BY <2>1, <2>2, <2>7 DEF q
  <2>9. \A j \in 1 .. h + 1 : \/ j \in 1 .. k
                              \/ j = k + 1
                              \/ j - 1 \in k + 1 .. h /\ j = (j - 1) + 1 /\ p[j] = q[j - 1]
    <3>1. \A j \in 1 .. h + 1 : j \in 1 .. k \/ j = k + 1 \/ (j - 1 \in k + 1 .. h /\ j = (j - 1) + 1)
      BY <2>2, <2>4
    <3> QED
      BY <2>5, <3>1
  <2>10. /\ r.place[p[k + 1]].index = i /\ r.place[p[k + 1]].task = t /\ r.place[p[k + 1]].gen = s.gen[t]
         /\ \A j \in 1 .. k : j \in DOMAIN q /\ r.place[p[j]] = s.place[q[j]] /\ r.place[p[j]].index > i
         /\ \A j \in k + 1 .. h : /\ j \in DOMAIN q /\ r.place[p[j + 1]] = s.place[q[j]]
                                  /\ r.place[p[j + 1]].index < i
    <3>1. \A j \in 1 .. k : j \in 1 .. h /\ j <= k
      BY <2>2, <2>4
    <3>2. \A j \in k + 1 .. h : j \in 1 .. h /\ j > k
      BY <2>2, <2>4
    <3>3. r.place[p[k + 1]].index = i /\ r.place[p[k + 1]].task = t /\ r.place[p[k + 1]].gen = s.gen[t]
      BY <2>1, <2>5
    <3>4. ASSUME NEW j \in 1 .. k
          PROVE  j \in DOMAIN q /\ r.place[p[j]] = s.place[q[j]] /\ r.place[p[j]].index > i
      BY <2>2, <2>3, <2>5, <2>8, <3>1
    <3>5. ASSUME NEW j \in k + 1 .. h
          PROVE  /\ j \in DOMAIN q /\ r.place[p[j + 1]] = s.place[q[j]]
                 /\ r.place[p[j + 1]].index < i
      BY <2>2, <2>3, <2>5, <2>8, <3>2
    <3> QED
      BY <3>3, <3>4, <3>5
  <2>11. Top(r, t) = Top(s, t)
    BY <2>1 DEF Top
  <2>12. OpenInOrder(r, t, z)
    <3>1. ASSUME NEW j \in DOMAIN q
          PROVE  /\ s.place[q[j]].task = t /\ (q[j] \in z \/ s.place[q[j]].index < Top(s, t))
                 /\ \A f \in DOMAIN s.frames[t] :
                       \/ s.place[q[j]].index < s.frames[t][f].base.index
                       \/ s.place[q[j]].index >= s.frames[t][f].slots.index
                       \/ q[j] \in z /\ f # 1
      BY <1>1 DEF OpenInOrder, q
    <3>2. \A f \in DOMAIN s.frames[t] : i >= s.frames[t][f].slots.index
      <4>1. ASSUME NEW f \in DOMAIN s.frames[t] PROVE i >= s.frames[t][f].slots.index
        <5>1. /\ s.frames[t][f].slots.index \in Nat /\ Last(s.frames[t]).slots.index \in Nat
              /\ s.frames[t][f].slots.index <= Last(s.frames[t]).slots.index
          BY <1>1, InnermostFrame, TaskFields
        <5> QED
          BY <5>1
      <4> QED
        BY <4>1
    <3>3. ASSUME NEW j \in DOMAIN p
          PROVE  /\ r.place[p[j]].task = t
                 /\ p[j] \in z \/ r.place[p[j]].index < Top(s, t)
                 /\ \A f \in DOMAIN s.frames[t] :
                       \/ r.place[p[j]].index < s.frames[t][f].base.index
                       \/ r.place[p[j]].index >= s.frames[t][f].slots.index
                       \/ p[j] \in z /\ f # 1
      <4>1. CASE j \in 1 .. k
        BY <2>5, <2>10, <3>1, <4>1
      <4>2. CASE j = k + 1
        BY <2>10, <3>2, <4>2
      <4>3. CASE j - 1 \in k + 1 .. h /\ j = (j - 1) + 1
        <5>1. j - 1 \in DOMAIN q /\ r.place[p[j]] = s.place[q[j - 1]] /\ p[j] = q[j - 1]
          BY <2>5, <2>10, <4>3
        <5> QED
          BY <3>1, <5>1
      <4> QED
        BY <2>5, <2>9, <4>1, <4>2, <4>3
    <3>4. ASSUME NEW j \in DOMAIN p, NEW g \in DOMAIN p, g < j
          PROVE  r.place[p[g]].index > r.place[p[j]].index
      <4>1. j \in 1 .. h + 1 /\ g \in 1 .. h + 1
        BY <2>5
      <4>2. ASSUME NEW a \in DOMAIN q, NEW b \in DOMAIN q, a < b
            PROVE  s.place[q[a]].index > s.place[q[b]].index
        BY <1>1, <4>2 DEF OpenInOrder, q
      <4>3. CASE j \in 1 .. k
        <5>1. g \in 1 .. k
          BY <2>4, <3>4, <4>1, <4>3
        <5> QED
          BY <2>10, <3>4, <4>2, <4>3, <5>1
      <4>4. CASE j = k + 1
        <5>1. g \in 1 .. k
          BY <2>4, <3>4, <4>1, <4>4
        <5> QED
          BY <2>10, <4>4, <5>1
      <4>5. CASE j - 1 \in k + 1 .. h /\ j = (j - 1) + 1
        <5>1. j - 1 \in DOMAIN q /\ r.place[p[j]] = s.place[q[j - 1]] /\ r.place[p[j]].index < i
              /\ r.place[p[j]].index \in Nat
          <6>1. j - 1 \in DOMAIN q /\ r.place[p[j]] = s.place[q[j - 1]] /\ r.place[p[j]].index < i
            BY <2>10, <4>5
          <6> QED
            BY <2>2, <6>1
        <5>2. CASE g \in 1 .. k
          <6>1. g \in DOMAIN q /\ r.place[p[g]] = s.place[q[g]] /\ g < j - 1
            BY <2>4, <2>10, <4>1, <4>5, <5>2
          <6> QED
            BY <4>2, <5>1, <6>1
        <5>3. CASE g = k + 1
          BY <2>10, <5>1, <5>3
        <5>4. CASE g - 1 \in k + 1 .. h /\ g = (g - 1) + 1
          <6>1. g - 1 \in DOMAIN q /\ r.place[p[g]] = s.place[q[g - 1]]
            BY <2>10, <5>4
          <6>2. g - 1 < j - 1
            BY <3>4, <4>1
          <6> QED
            BY <4>2, <5>1, <6>1, <6>2
        <5> QED
          BY <2>9, <4>1, <5>2, <5>3, <5>4
      <4> QED
        BY <2>9, <4>1, <4>3, <4>4, <4>5
    <3>5. r.frames[t] = s.frames[t]
      BY <2>1
    <3> QED
      BY <2>11, <3>3, <3>4, <3>5 DEF OpenInOrder, p
  <2>13. Current(r, t)
    <3>1. \A j \in DOMAIN q : s.place[q[j]].gen = s.gen[t]
      BY <1>1 DEF Current, q
    <3>2. ASSUME NEW j \in DOMAIN p PROVE r.place[p[j]].gen = s.gen[t]
      <4>1. CASE j \in 1 .. k
        BY <2>10, <3>1, <4>1
      <4>2. CASE j = k + 1
        BY <2>10, <4>2
      <4>3. CASE j - 1 \in k + 1 .. h /\ j = (j - 1) + 1
        <5>1. j - 1 \in DOMAIN q /\ r.place[p[j]] = s.place[q[j - 1]]
          BY <2>10, <4>3
        <5> QED
          BY <3>1, <5>1
      <4> QED
        BY <2>5, <2>9, <4>1, <4>2, <4>3
    <3>3. r.gen[t] = s.gen[t] /\ r.frames[t] = s.frames[t] /\ r.handlers[t] = s.handlers[t]
      BY <2>1
    <3> QED
      BY <1>1, <3>2, <3>3 DEF Current, p
  <2>14. TaskInv(r, t, z)
    <3>1. FramesNest(r, t) /\ HandlersNest(r, t)
      BY <1>1, <2>1, <2>11 DEF TaskInv, FramesNest, HandlersNest
    <3> QED
      BY <2>12, <2>13, <3>1, SMTT(30) DEF TaskInv
  <2>15. ASSUME NEW u \in Tasks PROVE IF l[u] = "live" THEN TaskInv(r, u, z) ELSE Empty(r, u)
    <3>1. CASE u = t
      BY <2>14, <3>1
    <3>2. CASE u # t
      <4>1. \A j \in DOMAIN s.open[u] : r.place[s.open[u][j]] = s.place[s.open[u][j]]
        BY <2>1, <2>7
      <4>2. /\ r.stack[u] = s.stack[u] /\ r.frames[u] = s.frames[u] /\ r.handlers[u] = s.handlers[u]
            /\ r.open[u] = s.open[u] /\ r.gen[u] = s.gen[u]
        BY <2>1, <3>2
      <4>3. (TaskInv(s, u, z) => TaskInv(r, u, z)) /\ (Empty(s, u) => Empty(r, u))
        BY <1>1, <4>1, <4>2, Stands
      <4> QED
        BY <4>3, GoodFacts
    <3> QED
      BY <3>1, <3>2
  <2>16. w = [v EXCEPT ![c] = Slot(s, t, i)] /\ Slot(s, t, i) \in Values
    <3>1. s.stack[t] \in Seq(Values) /\ Top(s, t) = Len(s.stack[t]) /\ Top(s, t) \in Nat
      BY <1>1, TaskFields DEF Top
    <3>2. i + 1 \in 1 .. Len(s.stack[t])
      BY <3>1
    <3> QED
      BY <1>3, <3>1, <3>2, ElementOfSeq DEF Slot
  <2>17. w \in Variables /\ w[c] = Slot(s, t, i) /\ \A d \in Cells : d # c => w[d] = v[d]
    BY <2>16 DEF Variables
  <2>18. ASSUME NEW d \in Cells PROVE CellInv(r, l, w, z, d)
    <3>1. \A u \in Tasks : \A x : Slot(r, u, x) = Slot(s, u, x)
      BY <2>1 DEF Slot, Top
    <3>2. Elements(q) \subseteq Elements(p) /\ c \in Elements(p)
      <4>1. ASSUME NEW j \in DOMAIN q PROVE \E g \in DOMAIN p : p[g] = q[j]
        <5>1. CASE j \in 1 .. k
          <6>1. j \in 1 .. h + 1
            BY <2>2, <2>4, <5>1
          <6> QED
            BY <2>5, <5>1, <6>1
        <5>2. CASE j \in k + 1 .. h
          <6>1. j + 1 \in 1 .. h + 1
            BY <2>2, <2>4, <5>2
          <6> QED
            BY <2>5, <5>2, <6>1
        <5>3. j \in 1 .. k \/ j \in k + 1 .. h
          BY <2>2, <2>4
        <5> QED
          BY <5>1, <5>2, <5>3
      <4>2. k + 1 \in DOMAIN p
        BY <2>2, <2>4, <2>5
      <4> QED
        BY <2>5, <4>1, <4>2 DEF Elements
    <3>3. CASE d = c
      <4>1. r.place[c] # Own /\ r.place[c].task = t /\ r.place[c].index = i /\ c \in r.used
        BY <2>1, StackAssumption DEF Own
      <4>2. c \in Elements(r.open[t]) /\ Slot(r, t, i) = w[c]
        BY <2>17, <3>1, <3>2 DEF p
      <4> QED
        BY <3>3, <4>1, <4>2 DEF CellInv
    <3>4. CASE d # c
      <4>1. CellInv(s, l, v, z, d)
        BY DEF Good
      <4>2. r.place[d] = s.place[d] /\ w[d] = v[d] /\ r.closed[d] = s.closed[d]
            /\ (d \in r.used <=> d \in s.used)
        BY <2>1, <2>17, <3>4
      <4>3. ASSUME s.place[d] # Own
            PROVE  /\ s.place[d].task \in Tasks
                   /\ d \in Elements(s.open[s.place[d].task]) => d \in Elements(r.open[s.place[d].task])
        <5>1. s.place[d].task \in Tasks
          BY <1>1, <4>3, PlaceFields
        <5>2. \A u \in Tasks : d \in Elements(s.open[u]) => d \in Elements(r.open[u])
          BY <2>1, <3>2 DEF p, q
        <5> QED
          BY <5>1, <5>2
      <4> QED
        BY <3>1, <4>1, <4>2, <4>3 DEF CellInv
    <3> QED
      BY <3>3, <3>4
  <2>19. Fits(r)
    BY <2>1 DEF Good, Fits
  <2> QED
    BY <2>1, <2>15, <2>17, <2>18, <2>19 DEF Good
<1> QED
  BY <1>2, <1>3

-----------------------------------------------------------------------------
(* Values popped, handlers purged, exceptions caught                       *)

LEMMA DropKeeps ==
    ASSUME NEW l, NEW v, NEW z, NEW s, Good(s, l, v, z), NEW t \in Tasks, l[t] = "live",
           NEW n \in Nat, Free(s, t, Top(s, t) - n, z)
    PROVE  /\ Good(Drop(s, t, n), l, v, z)
           /\ Top(Drop(s, t, n), t) = Top(s, t) - n
           /\ Drop(s, t, n).frames = s.frames /\ Drop(s, t, n).handlers = s.handlers
           /\ Drop(s, t, n).open = s.open /\ Drop(s, t, n).place = s.place
           /\ Drop(s, t, n).used = s.used
<1> DEFINE F == [slots : Pointers, base : Pointers]
           H == [frame : Nat, level : Pointers]
           x == Top(s, t) - n
           st == SubSeq(s.stack[t], 1, x)
           f == s.frames[t]
           q == s.handlers[t]
           r == Drop(s, t, n)
<1>1. s \in VmStates /\ FramesNest(s, t) /\ HandlersNest(s, t)
  BY GoodFacts DEF TaskInv
<1>2. /\ Top(s, t) \in Nat /\ s.stack[t] \in Seq(Values)
      /\ f \in Seq(F) /\ q \in Seq(H) /\ Len(f) \in Nat /\ Len(q) \in Nat
      /\ DOMAIN f = 1 .. Len(f) /\ DOMAIN q = 1 .. Len(q)
  BY <1>1, TaskFields
<1>3. x \in 0 .. Top(s, t)
  BY DEF Free
<1>4. st \in Seq(Values) /\ Len(st) = x
  BY <1>2, <1>3, Prefix DEF Top
<1>5. r = PutStack(s, t, st)
  BY DEF Drop, PutStack, Top
<1> HIDE DEF st, x, r
<1>6. r = With(s, t, st, f, q)
  BY <1>1, <1>4, <1>5, WithParts
<1>7. f = SubSeq(f, 1, Len(f)) /\ q = SubSeq(q, 1, Len(q))
  <2> HIDE DEF F, H, f, q
  <2> QED
    BY <1>2, WholePrefix
<1>8. Len(f) \in 1 .. Len(f) /\ Len(q) \in 0 .. Len(q)
  BY <1>1, <1>2, InnermostFrame
<1>9. f[Len(f)].slots.index <= x
  BY <1>2, <1>8 DEF Free, x
<1>10. \A k \in 1 .. Len(q) : q[k].frame <= Len(f) /\ q[k].level.index <= x
  <2>1. \A k \in DOMAIN q : q[k].level.index <= x
    BY Zenon DEF Free, x
  <2>2. \A k \in DOMAIN q : q[k].frame \in DOMAIN f
    BY <1>1, Zenon DEF HandlersNest
  <2>3. Len(f) \in Nat /\ DOMAIN q = 1 .. Len(q) /\ DOMAIN f = 1 .. Len(f)
    BY <1>2, Zenon
  <2>4. \A k \in 1 .. Len(q) : q[k].frame \in 1 .. Len(f) /\ q[k].level.index <= x
    BY <2>1, <2>2, <2>3, Zenon
  <2> HIDE DEF q, f
  <2> DEFINE nf == Len(f)
  <2>5. nf \in Nat /\ \A k \in 1 .. Len(q) : q[k].frame \in 1 .. nf
    BY <2>3, <2>4, Zenon
  <2> HIDE DEF nf
  <2>6. \A k \in 1 .. Len(q) : q[k].frame <= nf
    BY <2>5
  <2> QED
    BY <2>4, <2>6 DEF nf
<1>11. \A k \in DOMAIN s.open[t] : s.open[t][k] \in z \/ s.place[s.open[t][k]].index < x
  BY DEF Free, x
<1>12. r = With(s, t, st, SubSeq(f, 1, Len(f)), SubSeq(q, 1, Len(q)))
  BY <1>6, <1>7
<1>13. Good(r, l, v, z)
  BY <1>3, <1>8, <1>9, <1>10, <1>11, <1>12, CutKeeps DEF st
<1>14. r.stack[t] = st
  <2>1. f \in Frames /\ q \in Handlers
    BY <1>2 DEF Frames, Handlers
  <2> QED
    BY <1>1, <1>4, <1>6, <2>1, WithIs
<1>15. Top(r, t) = x
  BY <1>4, <1>14 DEF Top
<1>16. /\ r.frames = s.frames /\ r.handlers = s.handlers
       /\ r.open = s.open /\ r.place = s.place /\ r.used = s.used
  BY <1>1, StateFields DEF r, Drop
<1> QED
  BY <1>13, <1>15, <1>16 DEF x, r

\* What compiled code takes is above all that points into the stack, but for the
\* upvalues it loses.
LEMMA WithinIsFree ==
    ASSUME NEW z, Good(m, life, variable, z), NEW t \in Tasks, life[t] = "live", NEW n \in Nat,
           Within(t, n), Captured(t, Top(m, t) - n) \subseteq z
    PROVE  Free(m, t, Top(m, t) - n, z) /\ Top(m, t) - n \in Nat /\ n <= Top(m, t)
           /\ Last(m.frames[t]).slots.index <= Top(m, t) - n
<1> DEFINE x == Top(m, t) - n
           f == m.frames[t]
<1>1. m \in VmStates /\ FramesNest(m, t) /\ HandlersNest(m, t)
  BY GoodFacts DEF TaskInv
<1>2. /\ Top(m, t) \in Nat /\ Len(f) \in Nat /\ DOMAIN f = 1 .. Len(f)
      /\ \A i \in DOMAIN f : f[i].slots.index \in Nat /\ f[i].base.index \in Nat
      /\ \A k \in DOMAIN m.handlers[t] : m.handlers[t][k].frame \in Nat /\ m.handlers[t][k].level.index \in Nat
  BY <1>1, TaskFields
<1>3. /\ Len(f) \in DOMAIN f /\ Last(f) = f[Len(f)]
      /\ \A i \in DOMAIN f : f[i].slots.index <= f[Len(f)].slots.index
  BY <1>1, InnermostFrame
<1>4. x >= Last(f).slots.index /\ x \in Int
  BY <1>2 DEF Within, Frame
<1>5. f[Len(f)].slots.index \in Nat /\ f[Len(f)].base.index \in Nat /\ f[Len(f)].base.index <= f[Len(f)].slots.index
  BY <1>1, <1>2, <1>3 DEF FramesNest
<1>6. x \in 0 .. Top(m, t)
  BY <1>2, <1>3, <1>4, <1>5
<1> HIDE DEF x
<1>7. ASSUME NEW i \in DOMAIN f PROVE f[i].slots.index <= x
  BY <1>2, <1>3, <1>4, <1>5, SMTT(30)
<1>8. ASSUME NEW k \in DOMAIN m.handlers[t] PROVE m.handlers[t][k].level.index <= x
  <2>1. m.handlers[t][k].frame \in DOMAIN f
    BY <1>1 DEF HandlersNest
  <2>2. CASE m.handlers[t][k].frame = Len(f)
    BY <2>2 DEF Within, Elements, x
  <2>3. CASE m.handlers[t][k].frame # Len(f)
    <3>1. m.handlers[t][k].frame < Len(f)
      BY <1>2, <2>1, <2>3
    <3>2. m.handlers[t][k].level.index <= f[Len(f)].base.index
      BY <1>1, <1>3, <3>1 DEF HandlersNest
    <3> QED
      BY <1>2, <1>3, <1>4, <1>5, <3>2, SMTT(30)
  <2> QED
    BY <2>2, <2>3
<1>9. ASSUME NEW k \in DOMAIN m.open[t] PROVE m.open[t][k] \in z \/ m.place[m.open[t][k]].index < x
  <2>1. m.open[t][k] \in Elements(m.open[t]) /\ m.place[m.open[t][k]].index \in Nat
    BY <1>1, TaskFields, PlaceFields DEF Elements
  <2>2. CASE m.place[m.open[t][k]].index >= x
    <3>1. m.open[t][k] \in Captured(t, x)
      BY <2>1, <2>2 DEF Captured
    <3> QED
      BY <3>1 DEF x
  <2>3. CASE ~(m.place[m.open[t][k]].index >= x)
    <3>1. x \in Int
      BY <1>4
    <3> QED
      BY <2>1, <2>3, <3>1
  <2> QED
    BY <2>2, <2>3
<1>10. Free(m, t, x, z)
  BY <1>6, <1>7, <1>8, <1>9 DEF Free
<1>11. x \in Nat /\ n <= Top(m, t)
  BY <1>2, <1>6 DEF x
<1> QED
  BY <1>4, <1>10, <1>11 DEF x

LEMMA PoppableIsFree ==
    ASSUME Good(m, life, variable, lost), NEW t \in Tasks, life[t] = "live", NEW n \in Nat, Poppable(t, n)
    PROVE  Free(m, t, Top(m, t) - n, lost) /\ Top(m, t) - n \in Nat /\ n <= Top(m, t)
           /\ Last(m.frames[t]).slots.index <= Top(m, t) - n
  BY WithinIsFree DEF Poppable

\* The handlers that are left are the first ones, of the first n frames.
LEMMA PurgeIs ==
    ASSUME NEW s \in VmStates, NEW t \in Tasks, HandlersNest(s, t),
           NEW j \in 0 .. Len(s.handlers[t]), NEW n \in Nat
    PROVE  \E g \in 0 .. j :
              /\ Purge(SubSeq(s.handlers[t], 1, j), n) = SubSeq(s.handlers[t], 1, g)
              /\ \A k \in 1 .. g : s.handlers[t][k].frame <= n
<1> DEFINE H == [frame : Nat, level : Pointers]
           q == s.handlers[t]
           p == SubSeq(q, 1, j)
           S == {0} \cup {i \in DOMAIN p : p[i].frame <= n}
           g == Max(S)
<1>1. /\ q \in Seq(H) /\ Len(q) \in Nat /\ DOMAIN q = 1 .. Len(q)
      /\ \A k \in DOMAIN q : q[k].frame \in Nat
  BY TaskFields
<1>2. j \in Nat /\ j <= Len(q)
  BY <1>1
<1>3. p \in Seq(H) /\ Len(p) = j /\ DOMAIN p = 1 .. j /\ \A i \in 1 .. j : p[i] = q[i]
  <2> HIDE DEF H, q
  <2> QED
    BY <1>1, Prefix DEF q
<1>4. S \in SUBSET Nat /\ S # {} /\ \A y \in S : y <= j
  BY <1>2, <1>3
<1>5. g \in S
  <2> HIDE DEF S
  <2> QED
    BY <1>2, <1>4, MaxIs
<1>6. Purge(p, n) = SubSeq(p, 1, g)
  BY DEF Purge
<1> HIDE DEF g
<1>7. g \in 0 .. j
  BY <1>2, <1>4, <1>5
<1>8. SubSeq(p, 1, g) = SubSeq(q, 1, g)
  <2> HIDE DEF H, p, q
  <2>1. g \in 0 .. Len(p) /\ g \in 0 .. Len(q) /\ g \in Nat
    BY <1>1, <1>2, <1>3, <1>7
  <2>2. /\ SubSeq(p, 1, g) \in Seq(H) /\ Len(SubSeq(p, 1, g)) = g
        /\ \A i \in 1 .. g : SubSeq(p, 1, g)[i] = p[i]
    BY <1>3, <2>1, Prefix
  <2>3. /\ SubSeq(q, 1, g) \in Seq(H) /\ Len(SubSeq(q, 1, g)) = g
        /\ \A i \in 1 .. g : SubSeq(q, 1, g)[i] = q[i]
    BY <1>1, <2>1, Prefix
  <2>4. \A i \in 1 .. g : p[i] = q[i]
    BY <1>2, <1>3, <1>7
  <2> QED
    BY <2>2, <2>3, <2>4, SeqEqual
<1>9. ASSUME NEW k \in 1 .. g PROVE q[k].frame <= n
  <2>1. g \in DOMAIN p /\ p[g].frame <= n
    BY <1>5, <1>7, <1>9
  <2>2. g \in DOMAIN q /\ k \in DOMAIN q /\ q[g].frame <= n /\ k <= g
    BY <1>1, <1>2, <1>3, <1>7, <2>1
  <2>3. q[k].frame <= q[g].frame
    <3>1. CASE k = g
      BY <1>1, <2>2, <3>1
    <3>2. CASE k # g
      <4>1. k < g
        BY <1>1, <2>2, <3>2
      <4> QED
        BY <2>2, <4>1 DEF HandlersNest
    <3> QED
      BY <3>1, <3>2
  <2>4. q[k].frame \in Nat /\ q[g].frame \in Nat
    BY <1>1, <2>2
  <2> QED
    BY <2>2, <2>3, <2>4
<1> QED
  BY <1>6, <1>7, <1>8, <1>9

\* propagateException: the frames beyond that of the handler go, with their
\* handlers and with the stack above the level of the handler.
LEMMA CatchKeeps ==
    ASSUME NEW l, NEW v, NEW z, NEW s, Good(s, l, v, z), NEW t \in Tasks, l[t] = "live",
           Usable(s, t) # {}, NEW x \in Values
    PROVE  Good(Catch(s, t, x), l, v, z)
<1> DEFINE k == Max(Usable(s, t))
           h == s.handlers[t][k]
           i == Lowest(s, t, h)
           c == CloseUpvalues(s, t, i)
           fr == SubSeq(c.frames[t], 1, h.frame)
           ha == Purge(SubSeq(c.handlers[t], 1, k - 1), h.frame)
           st == SubSeq(c.stack[t], 1, h.level.index)
           r == With(c, t, st, fr, ha)
<1>1. s \in VmStates /\ FramesNest(s, t) /\ HandlersNest(s, t)
  BY GoodFacts DEF TaskInv
<1>2. /\ Len(s.handlers[t]) \in Nat /\ DOMAIN s.handlers[t] = 1 .. Len(s.handlers[t])
      /\ Len(s.frames[t]) \in Nat /\ DOMAIN s.frames[t] = 1 .. Len(s.frames[t]) /\ Top(s, t) \in Nat
      /\ \A g \in DOMAIN s.frames[t] : s.frames[t][g].slots.index \in Nat
      /\ \A g \in DOMAIN s.handlers[t] : s.handlers[t][g].frame \in Nat /\ s.handlers[t][g].level.index \in Nat
  BY <1>1, TaskFields
<1>3. k \in DOMAIN s.handlers[t]
  <2>1. /\ Usable(s, t) \in SUBSET Nat /\ \A y \in Usable(s, t) : y <= Len(s.handlers[t])
        /\ Usable(s, t) \subseteq DOMAIN s.handlers[t]
    BY <1>2 DEF Usable
  <2> QED
    BY <1>2, <2>1, MaxIs
<1> HIDE DEF k
<1>4. /\ h.frame \in DOMAIN s.frames[t] /\ h.frame \in Nat /\ h.level.index \in Nat
      /\ s.frames[t][h.frame].slots.index <= h.level.index /\ h.level.index <= Top(s, t)
      /\ \A g \in DOMAIN s.handlers[t] : g < k => s.handlers[t][g].level.index <= h.level.index
  BY <1>1, <1>2, <1>3 DEF HandlersNest
<1>5. i \in Nat /\ i <= h.level.index
  <2> DEFINE S == {h.level.index} \cup {s.frames[t][g].slots.index : g \in h.frame + 1 .. Len(s.frames[t])}
  <2>1. \A g \in h.frame + 1 .. Len(s.frames[t]) : g \in DOMAIN s.frames[t]
    <3> DEFINE low == h.frame
               high == Len(s.frames[t])
    <3>1. low \in Nat /\ high \in Nat /\ DOMAIN s.frames[t] = 1 .. high
      BY <1>2, <1>4, Zenon
    <3> HIDE DEF low, high
    <3>2. \A g \in low + 1 .. high : g \in 1 .. high
      BY <3>1
    <3> QED
      BY <3>1, <3>2, Zenon DEF low, high
  <2>2. S \in SUBSET Nat /\ S # {} /\ h.level.index \in S
    <3>1. h.level.index \in Nat /\ \A g \in DOMAIN s.frames[t] : s.frames[t][g].slots.index \in Nat
      BY <1>2, <1>4, Zenon
    <3> QED
      BY <2>1, <3>1, Zenon
  <2>3. i = Min(S)
    BY DEF Lowest
  <2> HIDE DEF S, i
  <2> QED
    BY <2>2, <2>3, MinIs
<1> HIDE DEF i
<1>6. /\ Good(c, l, v, z)
      /\ c.stack = s.stack /\ c.frames = s.frames /\ c.handlers = s.handlers
      /\ \A g \in DOMAIN c.open[t] : c.place[c.open[t][g]].index < i
  BY <1>5, CloseKeeps
<1> HIDE DEF c
<1>7. c \in VmStates /\ HandlersNest(c, t) /\ Top(c, t) = Top(s, t)
  BY <1>6, GoodFacts DEF TaskInv, Top
<1>8. k - 1 \in 0 .. Len(c.handlers[t])
  BY <1>2, <1>3, <1>6, SMTT(30)
<1>9. PICK g \in 0 .. k - 1 : /\ ha = SubSeq(c.handlers[t], 1, g)
                              /\ \A b \in 1 .. g : c.handlers[t][b].frame <= h.frame
  BY <1>4, <1>7, <1>8, PurgeIs, ZenonT(30)
<1> HIDE DEF ha
<1>10. \A b \in 1 .. g : c.handlers[t][b].frame <= h.frame /\ c.handlers[t][b].level.index <= h.level.index
  <2>1. \A b \in 1 .. g : b \in DOMAIN s.handlers[t] /\ b < k
    BY <1>2, <1>3, <1>9, SMTT(30)
  <2> QED
    BY <1>4, <1>6, <1>9, <2>1
<1>11. ASSUME NEW b \in DOMAIN c.open[t] PROVE c.place[c.open[t][b]].index < h.level.index
  <2>1. c.place[c.open[t][b]].index \in Nat /\ c.place[c.open[t][b]].index < i
    BY <1>6, <1>7, TaskFields, PlaceFields
  <2> DEFINE at == c.place[c.open[t][b]].index
             limit == h.level.index
  <2>2. at \in Nat /\ at < i /\ i \in Nat /\ i <= limit /\ limit \in Nat
    BY <1>4, <1>5, <2>1, Zenon
  <2> HIDE DEF at, limit
  <2>3. at < limit
    BY <2>2
  <2> QED
    BY <2>3 DEF at, limit
<1>12. /\ h.frame \in 1 .. Len(c.frames[t]) /\ g \in 0 .. Len(c.handlers[t])
       /\ h.level.index \in 0 .. Top(c, t)
       /\ c.frames[t][h.frame].slots.index <= h.level.index
  <2>1. h.frame \in 1 .. Len(c.frames[t]) /\ c.frames[t][h.frame].slots.index <= h.level.index
    BY <1>2, <1>4, <1>6
  <2>2. g \in 0 .. Len(c.handlers[t])
    BY <1>2, <1>3, <1>6, <1>9
  <2>3. h.level.index \in 0 .. Top(c, t)
    <3>1. h.level.index \in Nat /\ h.level.index <= Top(c, t) /\ Top(c, t) \in Nat
      BY <1>2, <1>4, <1>7
    <3> HIDE DEF h
    <3> QED
      BY <3>1, SMTT(30)
  <2> QED
    BY <2>1, <2>2, <2>3, SMTT(30)
<1>13. Good(r, l, v, z)
  <2> HIDE DEF h
  <2>1. r = With(c, t, SubSeq(c.stack[t], 1, h.level.index), SubSeq(c.frames[t], 1, h.frame),
                 SubSeq(c.handlers[t], 1, g))
    BY <1>9
  <2> HIDE DEF r
  <2> QED
    BY <1>6, <1>10, <1>11, <1>12, <2>1, CutKeeps
<1>14. Catch(s, t, x) = Push(r, t, x)
  <2>1. c = [stack |-> c.stack, cap |-> c.cap, gen |-> c.gen, frames |-> c.frames,
             handlers |-> c.handlers, open |-> c.open, place |-> c.place,
             closed |-> c.closed, used |-> c.used]
    BY <1>7, StateFields
  <2>2. r = [c EXCEPT !.frames[t] = SubSeq(@, 1, h.frame),
                      !.handlers[t] = Purge(SubSeq(@, 1, k - 1), h.frame),
                      !.stack[t] = SubSeq(@, 1, h.level.index)]
    <3> HIDE DEF h
    <3> QED
      BY <2>1 DEF With, ha
  <2> QED
    BY <2>2 DEF Catch, c, i, k
<1> QED
  BY <1>13, <1>14, PushKeeps

-----------------------------------------------------------------------------
(* Tasks that end, frames that are left                                    *)

LEMMA SettleFields ==
    ASSUME NEW s \in VmStates, NEW t \in Tasks, NEW r, r = Settle(s, t)
    PROVE  /\ r \in VmStates /\ Empty(r, t)
           /\ r.cap = s.cap /\ r.gen = s.gen /\ r.place = s.place
           /\ r.closed = s.closed /\ r.used = s.used
           /\ \A u \in Tasks : u # t => /\ r.stack[u] = s.stack[u] /\ r.frames[u] = s.frames[u]
                                        /\ r.handlers[u] = s.handlers[u] /\ r.open[u] = s.open[u]
<1> DEFINE ss == [s.stack EXCEPT ![t] = <<>>]
           fs == [s.frames EXCEPT ![t] = <<>>]
           hs == [s.handlers EXCEPT ![t] = <<>>]
           os == [s.open EXCEPT ![t] = <<>>]
<1>1. /\ s.stack \in [Tasks -> Seq(Values)] /\ s.cap \in [Tasks -> Nat] /\ s.gen \in [Tasks -> Nat]
      /\ s.frames \in [Tasks -> Frames] /\ s.handlers \in [Tasks -> Handlers]
      /\ s.open \in [Tasks -> Seq(Cells)] /\ s.place \in [Cells -> Places]
      /\ s.closed \in [Cells -> Values] /\ s.used \in SUBSET Cells
  BY StateFields DEF Frames, Handlers
<1>2. <<>> \in Frames /\ <<>> \in Handlers
  <2> DEFINE F == [slots : Pointers, base : Pointers]
             H == [frame : Nat, level : Pointers]
  <2>1. Frames = Seq(F) /\ Handlers = Seq(H)
    BY DEF Frames, Handlers
  <2> HIDE DEF F, H
  <2> QED
    BY <2>1
<1>3. ss \in [Tasks -> Seq(Values)] /\ ss[t] = <<>> /\ \A u \in Tasks : u # t => ss[u] = s.stack[u]
  BY <1>1
<1>4. fs \in [Tasks -> Frames] /\ fs[t] = <<>> /\ \A u \in Tasks : u # t => fs[u] = s.frames[u]
  BY <1>1, <1>2
<1>5. hs \in [Tasks -> Handlers] /\ hs[t] = <<>> /\ \A u \in Tasks : u # t => hs[u] = s.handlers[u]
  BY <1>1, <1>2
<1>6. os \in [Tasks -> Seq(Cells)] /\ os[t] = <<>> /\ \A u \in Tasks : u # t => os[u] = s.open[u]
  BY <1>1
<1>7. r = [stack |-> ss, cap |-> s.cap, gen |-> s.gen, frames |-> fs,
           handlers |-> hs, open |-> os, place |-> s.place, closed |-> s.closed, used |-> s.used]
  <2>1. s = [stack |-> s.stack, cap |-> s.cap, gen |-> s.gen, frames |-> s.frames,
             handlers |-> s.handlers, open |-> s.open, place |-> s.place,
             closed |-> s.closed, used |-> s.used]
    BY StateFields
  <2> QED
    BY <2>1 DEF Settle
<1> HIDE DEF ss, fs, hs, os
<1>8. r \in [stack : [Tasks -> Seq(Values)], cap : [Tasks -> Nat], gen : [Tasks -> Nat],
             frames : [Tasks -> Frames], handlers : [Tasks -> Handlers], open : [Tasks -> Seq(Cells)],
             place : [Cells -> Places], closed : [Cells -> Values], used : SUBSET Cells]
  BY <1>1, <1>3, <1>4, <1>5, <1>6, <1>7
<1>9. r \in VmStates
  BY <1>8 DEF VmStates, Frames, Handlers
<1>10. /\ r.stack = ss /\ r.cap = s.cap /\ r.gen = s.gen /\ r.frames = fs /\ r.handlers = hs
       /\ r.open = os /\ r.place = s.place /\ r.closed = s.closed /\ r.used = s.used
  BY <1>7
<1>11. Empty(r, t)
  BY <1>3, <1>4, <1>5, <1>6, <1>10 DEF Empty
<1> QED
  BY <1>3, <1>4, <1>5, <1>6, <1>9, <1>10, <1>11

\* failTask, and resolveTask when no upvalue of the task is open any more
LEMMA SettleKeeps ==
    ASSUME NEW l \in Lives, NEW v, NEW z, NEW s, Good(s, l, v, z), NEW t \in Tasks, l[t] = "live",
           NEW why \in {"failed", "completed"}, why = "completed" => s.open[t] = <<>>,
           NEW k, k = [l EXCEPT ![t] = why]
    PROVE  Good(Settle(s, t), k, v, z) /\ k \in Lives
<1> DEFINE r == Settle(s, t)
<1>1. s \in VmStates
  BY GoodFacts
<1>2. /\ r \in VmStates /\ Empty(r, t)
      /\ r.cap = s.cap /\ r.gen = s.gen /\ r.place = s.place
      /\ r.closed = s.closed /\ r.used = s.used
      /\ \A u \in Tasks : u # t => /\ r.stack[u] = s.stack[u] /\ r.frames[u] = s.frames[u]
                                   /\ r.handlers[u] = s.handlers[u] /\ r.open[u] = s.open[u]
  BY <1>1, SettleFields
<1>3. k \in Lives /\ k[t] = why /\ why # "live" /\ \A u \in Tasks : u # t => k[u] = l[u]
  BY DEF Lives
<1> HIDE DEF r
<1>4. ASSUME NEW u \in Tasks PROVE IF k[u] = "live" THEN TaskInv(r, u, z) ELSE Empty(r, u)
  <2>1. CASE u = t
    BY <1>2, <1>3, <2>1
  <2>2. CASE u # t
    BY <1>1, <1>2, <1>3, <2>2, GoodFacts, Stands, SMTT(30)
  <2> QED
    BY <2>1, <2>2
<1>5. Fits(r)
  <2>1. ASSUME NEW u \in Tasks PROVE Len(r.stack[u]) <= r.cap[u] /\ Len(r.frames[u]) <= MaxFrames
    <3>1. CASE u = t
      <4>1. Len(r.stack[t]) = 0 /\ Len(r.frames[t]) = 0
        BY <1>2 DEF Empty
      <4> QED
        BY <1>2, <3>1, <4>1, StackAssumption, TaskFields
    <3>2. CASE u # t
      BY <1>2, <3>2, GoodFacts
    <3> QED
      BY <3>1, <3>2
  <2> QED
    BY <2>1 DEF Fits
<1>6. ASSUME NEW c \in Cells PROVE CellInv(r, k, v, z, c)
  <2>1. CellInv(s, l, v, z, c)
    BY DEF Good
  <2>2. CASE s.place[c] = Own
    BY <1>2, <2>1, <2>2 DEF CellInv
  <2>3. CASE s.place[c] # Own
    <3>1. s.place[c].task \in Tasks
      BY <1>1, <2>3, PlaceFields
    <3>2. CASE s.place[c].task = t
      <4>1. why = "failed"
        <5>1. c \in Elements(s.open[t])
          BY <2>1, <2>3, <3>2 DEF CellInv
        <5>2. s.open[t] # <<>>
          BY <5>1 DEF Elements
        <5> QED
          BY <5>2
      <4> QED
        BY <1>2, <1>3, <2>1, <2>3, <3>2, <4>1 DEF CellInv
    <3>3. CASE s.place[c].task # t
      BY <1>2, <1>3, <2>1, <2>3, <3>1, <3>3 DEF CellInv, Slot, Top
    <3> QED
      BY <3>2, <3>3
  <2> QED
    BY <2>2, <2>3
<1> QED
  BY <1>2, <1>3, <1>4, <1>5, <1>6 DEF Good, r

\* When the upvalues of the outermost frame are closed, none is left open.
LEMMA NothingStaysOpen ==
    ASSUME NEW l, NEW v, NEW z, NEW s, Good(s, l, v, z), NEW t \in Tasks, l[t] = "live",
           Len(s.frames[t]) = 1
    PROVE  CloseUpvalues(s, t, Last(s.frames[t]).slots.index).open[t] = <<>>
<1> DEFINE i == Last(s.frames[t]).slots.index
           r == CloseUpvalues(s, t, i)
<1>1. s \in VmStates /\ FramesNest(s, t)
  BY GoodFacts DEF TaskInv
<1>2. 1 \in DOMAIN s.frames[t] /\ i = s.frames[t][1].slots.index /\ s.frames[t][1].base.index = 0
  BY <1>1, InnermostFrame DEF FramesNest
<1>3. i \in Nat
  BY <1>1, <1>2, TaskFields
<1>4. /\ Good(r, l, v, z) /\ r.frames = s.frames
      /\ \A k \in DOMAIN r.open[t] : r.place[r.open[t][k]].index < i
  <2> HIDE DEF i
  <2> QED
    BY <1>3, CloseKeeps
<1> HIDE DEF r
<1>5. r \in VmStates /\ OpenInOrder(r, t, z)
  BY <1>4, GoodFacts DEF TaskInv
<1>6. ASSUME NEW k \in DOMAIN r.open[t] PROVE FALSE
  <2>1. r.place[r.open[t][k]].index \in Nat /\ r.place[r.open[t][k]].index < i
    BY <1>4, <1>5, TaskFields, PlaceFields
  <2>2. \/ r.place[r.open[t][k]].index < s.frames[t][1].base.index
        \/ r.place[r.open[t][k]].index >= s.frames[t][1].slots.index
    BY <1>2, <1>4, <1>5 DEF OpenInOrder
  <2> QED
    BY <1>2, <1>3, <2>1, <2>2
<1>7. /\ r.open[t] \in Seq(Cells) /\ Len(r.open[t]) \in Nat
      /\ DOMAIN r.open[t] = 1 .. Len(r.open[t])
  BY <1>5, TaskFields
<1>8. r.open[t] = <<>>
  <2>1. Len(r.open[t]) # 0 => 1 \in DOMAIN r.open[t]
    BY <1>7
  <2> QED
    BY <1>6, <1>7, <2>1, EmptySeq
<1> QED
  BY <1>8 DEF r

\* OP_RETURN from a frame that is not the outermost one, x to the caller
Returned(s, t) ==
    [CloseUpvalues(s, t, Last(s.frames[t]).slots.index) EXCEPT
        !.frames[t] = Front(s.frames[t]),
        !.handlers[t] = Purge(@, Len(Front(s.frames[t]))),
        !.stack[t] = SubSeq(@, 1, Last(s.frames[t]).base.index)]

LEMMA ReturnKeeps ==
    ASSUME NEW l, NEW v, NEW z, NEW s, Good(s, l, v, z), NEW t \in Tasks, l[t] = "live",
           Len(s.frames[t]) > 1, NEW x \in Values
    PROVE  Good(Push(Returned(s, t), t, x), l, v, z)
<1> DEFINE a == s.frames[t]
           c == CloseUpvalues(s, t, Last(s.frames[t]).slots.index)
           f == Front(s.frames[t])
           r == Returned(s, t)
           h == Len(a)
           i == Last(a).slots.index
           b == Last(a).base.index
           F == [slots : Pointers, base : Pointers]
<1>1. s \in VmStates /\ FramesNest(s, t) /\ HandlersNest(s, t)
  BY GoodFacts DEF TaskInv
<1>2. /\ a \in Seq(F) /\ h \in Nat /\ DOMAIN a = 1 .. h /\ Last(a) = a[h]
      /\ h - 1 \in DOMAIN a /\ h \in DOMAIN a /\ h - 1 < h /\ h - 1 \in Nat /\ h - 1 \in 0 .. h
      /\ \A k \in DOMAIN a : a[k].slots.index \in Nat /\ a[k].base.index \in Nat
  <2>1. /\ a \in Seq(F) /\ h \in Nat /\ DOMAIN a = 1 .. h
        /\ \A k \in DOMAIN a : a[k].slots.index \in Nat /\ a[k].base.index \in Nat
    BY <1>1, TaskFields
  <2>2. Last(a) = a[h]
    BY DEF Last
  <2>3. h > 1
    OBVIOUS
  <2> HIDE DEF h, F
  <2>4. h \in 1 .. h /\ h - 1 \in 1 .. h /\ h - 1 < h /\ h - 1 \in Nat /\ h - 1 \in 0 .. h
    BY <2>1, <2>3
  <2> QED
    BY <2>1, <2>2, <2>4
<1>3. i \in Nat /\ b \in Nat /\ b <= i /\ a[h - 1].slots.index <= b
  BY <1>1, <1>2 DEF FramesNest
<1>4. /\ Good(c, l, v, z) /\ c.stack = s.stack /\ c.frames = s.frames /\ c.handlers = s.handlers
      /\ \A k \in DOMAIN c.open[t] : c.place[c.open[t][k]].index < i
  <2>1. c = CloseUpvalues(s, t, i)
    OBVIOUS
  <2> HIDE DEF i
  <2> QED
    BY <1>3, <2>1, CloseKeeps
<1> HIDE DEF c
<1>5. c \in VmStates /\ OpenInOrder(c, t, z) /\ FramesNest(c, t) /\ HandlersNest(c, t)
  BY <1>4, GoodFacts DEF TaskInv
<1>6. f = SubSeq(a, 1, h - 1) /\ Len(f) = h - 1
  <2>1. f = SubSeq(a, 1, h - 1)
    BY DEF Front
  <2> HIDE DEF F, a, f
  <2> QED
    BY <1>2, <2>1, Prefix DEF h
<1> HIDE DEF f
<1>7. c.handlers[t] = SubSeq(c.handlers[t], 1, Len(c.handlers[t])) /\ Len(c.handlers[t]) \in Nat
  <2> DEFINE H == [frame : Nat, level : Pointers]
  <2>1. c.handlers[t] \in Seq(H) /\ Len(c.handlers[t]) \in Nat
    BY <1>5, TaskFields
  <2> HIDE DEF H
  <2> QED
    BY <2>1, WholePrefix
<1> DEFINE ha == Purge(c.handlers[t], Len(f))
<1>8. PICK g \in 0 .. Len(c.handlers[t]) :
         /\ ha = SubSeq(c.handlers[t], 1, g)
         /\ \A k \in 1 .. g : c.handlers[t][k].frame <= h - 1
  <2>1. Len(c.handlers[t]) \in 0 .. Len(c.handlers[t]) /\ Len(f) \in Nat
    BY <1>2, <1>6, <1>7
  <2>2. \E g \in 0 .. Len(c.handlers[t]) :
           /\ Purge(SubSeq(c.handlers[t], 1, Len(c.handlers[t])), Len(f)) = SubSeq(c.handlers[t], 1, g)
           /\ \A k \in 1 .. g : c.handlers[t][k].frame <= Len(f)
    BY <1>5, <2>1, PurgeIs
  <2> QED
    BY <1>6, <1>7, <2>2
<1>9. ASSUME NEW k \in 1 .. g PROVE c.handlers[t][k].frame <= h - 1 /\ c.handlers[t][k].level.index <= b
  <2>1. k \in DOMAIN c.handlers[t]
    <3>1. DOMAIN c.handlers[t] = 1 .. Len(c.handlers[t])
      BY <1>5, TaskFields
    <3> QED
      BY <1>7, <3>1
  <2>2. c.handlers[t][k].frame < h
    <3>1. c.handlers[t][k].frame \in Nat /\ c.handlers[t][k].frame <= h - 1
      BY <1>5, <1>8, <2>1, TaskFields
    <3>2. h \in Nat
      OBVIOUS
    <3> HIDE DEF h
    <3> QED
      BY <3>1, <3>2
  <2> QED
    BY <1>2, <1>4, <1>5, <1>8, <2>1, <2>2 DEF HandlersNest
<1>10. ASSUME NEW k \in DOMAIN c.open[t] PROVE c.open[t][k] \in z \/ c.place[c.open[t][k]].index < b
  <2>1. c.place[c.open[t][k]].index \in Nat /\ c.place[c.open[t][k]].index < i
    BY <1>4, <1>5, TaskFields, PlaceFields
  <2>2. c.place[c.open[t][k]].index < b \/ c.place[c.open[t][k]].index >= i \/ c.open[t][k] \in z
    BY <1>2, <1>4, <1>5 DEF OpenInOrder
  <2>3. i \in Nat /\ b \in Nat /\ b <= i
    BY <1>3
  <2> HIDE DEF b, i
  <2> QED
    BY <2>1, <2>2, <2>3
<1>11. h - 1 \in 1 .. Len(c.frames[t]) /\ c.frames[t][h - 1].slots.index <= b
  BY <1>2, <1>3, <1>4
<1>12. b \in 0 .. Top(c, t)
  <2>1. i <= Top(c, t) /\ Top(c, t) \in Nat
    BY <1>2, <1>4, <1>5, TaskFields DEF FramesNest
  <2> QED
    BY <1>3, <2>1
<1> DEFINE e == With(c, t, SubSeq(c.stack[t], 1, b), SubSeq(c.frames[t], 1, h - 1),
                     SubSeq(c.handlers[t], 1, g))
<1>13. Good(e, l, v, z)
  <2> HIDE DEF b, h, i
  <2> QED
    BY <1>4, <1>8, <1>9, <1>10, <1>11, <1>12, CutKeeps
<1>14. r = e
  <2>1. c = [stack |-> c.stack, cap |-> c.cap, gen |-> c.gen, frames |-> c.frames,
             handlers |-> c.handlers, open |-> c.open, place |-> c.place,
             closed |-> c.closed, used |-> c.used]
    BY <1>5, StateFields
  <2>2. r = [c EXCEPT !.frames[t] = SubSeq(c.frames[t], 1, h - 1),
                      !.handlers[t] = SubSeq(c.handlers[t], 1, g),
                      !.stack[t] = SubSeq(c.stack[t], 1, b)]
    BY <1>4, <1>6, <1>8 DEF Returned, c, f
  <2> HIDE DEF b, h, r
  <2> QED
    BY <2>1, <2>2, ZenonT(30) DEF With
<1> QED
  BY <1>13, <1>14, PushKeeps

-----------------------------------------------------------------------------
(* Try blocks, calls                                                       *)

LEMMA Appended ==
    ASSUME NEW S, NEW q \in Seq(S), NEW e \in S
    PROVE  /\ Append(q, e) \in Seq(S) /\ Len(Append(q, e)) = Len(q) + 1
           /\ DOMAIN Append(q, e) = 1 .. Len(q) + 1 /\ Append(q, e)[Len(q) + 1] = e
           /\ \A i \in 1 .. Len(q) : Append(q, e)[i] = q[i]
  OBVIOUS

TryBlock(s, t) == [frame |-> Len(s.frames[t]), level |-> Here(s, t, Top(s, t))]

LEMMA EnterTryKeeps ==
    ASSUME NEW l, NEW v, NEW z, NEW s, Good(s, l, v, z), NEW t \in Tasks, l[t] = "live",
           NEW r, r = PutHandlers(s, t, Append(s.handlers[t], TryBlock(s, t)))
    PROVE  Good(r, l, v, z)
<1> DEFINE H == [frame : Nat, level : Pointers]
           e == TryBlock(s, t)
           f == s.frames[t]
           q == s.handlers[t]
           h == Len(q)
           p == Append(q, e)
<1>1. /\ s \in VmStates /\ TaskInv(s, t, z) /\ FramesNest(s, t) /\ HandlersNest(s, t)
      /\ OpenInOrder(s, t, z) /\ Current(s, t)
      /\ Len(s.stack[t]) <= s.cap[t] /\ Len(s.frames[t]) <= MaxFrames
  BY GoodFacts DEF TaskInv
<1>2. /\ q \in Seq(H) /\ h \in Nat /\ DOMAIN q = 1 .. h
      /\ Top(s, t) \in Nat /\ s.gen[t] \in Nat /\ Len(f) \in Nat /\ DOMAIN f = 1 .. Len(f)
      /\ \A k \in DOMAIN q : q[k].frame \in Nat /\ q[k].level.index \in Nat
  BY <1>1, TaskFields
<1>3. e \in H
  BY <1>2 DEF TryBlock, Here, Pointers
<1>4. e.frame = Len(f) /\ e.level.index = Top(s, t) /\ e.level.gen = s.gen[t]
  BY DEF TryBlock, Here
<1>5. s.stack[t] \in Seq(Values) /\ f \in Frames
  BY <1>1, TaskFields DEF Frames
<1>6. Handlers = Seq(H)
  BY DEF Handlers
<1>7. Len(f) \in DOMAIN f /\ f[Len(f)].slots.index <= Top(s, t)
  BY <1>1, InnermostFrame DEF FramesNest
<1> HIDE DEF H, e
<1>8. /\ p \in Seq(H) /\ DOMAIN p = 1 .. h + 1 /\ p[h + 1] = e
      /\ \A k \in 1 .. h : p[k] = q[k]
  BY <1>2, <1>3, Appended
<1> HIDE DEF p, h
<1>9. r = With(s, t, s.stack[t], f, p)
  BY <1>1, <1>6, <1>8, WithParts DEF p, e
<1>10. /\ r.gen = s.gen /\ r.open = s.open /\ r.place = s.place
       /\ r.stack[t] = s.stack[t] /\ r.frames[t] = f /\ r.handlers[t] = p
  BY <1>1, <1>5, <1>6, <1>8, <1>9, WithIs
<1>11. Top(r, t) = Top(s, t)
  BY <1>10 DEF Top
<1>12. FramesNest(r, t) /\ OpenInOrder(r, t, z)
  <2>1. FramesNest(r, t)
    BY <1>1, <1>10, <1>11 DEF FramesNest
  <2>2. OpenInOrder(r, t, z)
    BY <1>1, <1>10, <1>11 DEF OpenInOrder
  <2> QED
    BY <2>1, <2>2
<1>13. HandlersNest(r, t)
  <2>1. ASSUME NEW k \in 1 .. h
        PROVE  /\ p[k].frame \in DOMAIN f
               /\ f[p[k].frame].slots.index <= p[k].level.index
               /\ p[k].level.index <= Top(s, t)
               /\ \A i \in DOMAIN f : p[k].frame < i => p[k].level.index <= f[i].base.index
               /\ \A j \in 1 .. h + 1 : j < k =>
                     p[j].frame <= p[k].frame /\ p[j].level.index <= p[k].level.index
    <3>1. k \in DOMAIN q /\ p[k] = q[k]
      BY <1>2, <1>8
    <3>2. ASSUME NEW j \in 1 .. h + 1, j < k PROVE j \in DOMAIN q /\ p[j] = q[j]
      BY <1>2, <1>8, <3>2
    <3> QED
      BY <1>1, <3>1, <3>2 DEF HandlersNest
  <2>2. /\ p[h + 1].frame \in DOMAIN f
        /\ f[p[h + 1].frame].slots.index <= p[h + 1].level.index
        /\ p[h + 1].level.index <= Top(s, t)
        /\ \A i \in DOMAIN f : ~(p[h + 1].frame < i)
    BY <1>2, <1>4, <1>7, <1>8, SMTT(30)
  <2>3. ASSUME NEW j \in 1 .. h
        PROVE  p[j].frame <= p[h + 1].frame /\ p[j].level.index <= p[h + 1].level.index
    <3>1. p[j].frame \in 1 .. Len(f) /\ p[j].level.index <= Top(s, t)
      BY <1>2, <2>1
    <3> QED
      BY <1>2, <1>4, <1>8, <3>1
  <2>4. \A k \in 1 .. h + 1 : k \in 1 .. h \/ k = h + 1
    BY <1>2
  <2>5. \A j \in 1 .. h + 1 : j < h + 1 => j \in 1 .. h
    BY <1>2
  <2>6. ASSUME NEW k \in DOMAIN p
        PROVE  /\ p[k].frame \in DOMAIN f
               /\ f[p[k].frame].slots.index <= p[k].level.index
               /\ p[k].level.index <= Top(s, t)
               /\ \A i \in DOMAIN f : p[k].frame < i => p[k].level.index <= f[i].base.index
               /\ \A j \in DOMAIN p : j < k =>
                     p[j].frame <= p[k].frame /\ p[j].level.index <= p[k].level.index
    <3>1. CASE k \in 1 .. h
      BY <1>8, <2>1, <3>1
    <3>2. CASE k = h + 1
      BY <1>8, <2>2, <2>3, <2>5, <3>2
    <3> QED
      BY <1>8, <2>4, <3>1, <3>2
  <2> QED
    BY <1>10, <1>11, <2>6 DEF HandlersNest
<1>14. Current(r, t)
  <2>1. ASSUME NEW k \in DOMAIN p PROVE p[k].level.gen = s.gen[t]
    <3>1. CASE k \in 1 .. h
      BY <1>1, <1>2, <1>8, <3>1 DEF Current
    <3>2. CASE k = h + 1
      BY <1>4, <1>8, <3>2
    <3> QED
      BY <1>2, <1>8, <3>1, <3>2
  <2> QED
    BY <1>1, <1>10, <2>1 DEF Current
<1>15. TaskInv(r, t, z)
  BY <1>12, <1>13, <1>14 DEF TaskInv
<1>16. OpenAreIn(s, t, z, s.stack[t])
  BY <1>1 DEF OpenAreIn, OpenInOrder, Top
<1> QED
  BY <1>1, <1>5, <1>6, <1>8, <1>9, <1>15, <1>16, WithKeeps

\* OP_POP_EXCEPTION_HANDLER, which takes the innermost handler
LEMMA LeaveTryKeeps ==
    ASSUME NEW l, NEW v, NEW z, NEW s, Good(s, l, v, z), NEW t \in Tasks, l[t] = "live",
           s.handlers[t] # <<>>,
           NEW r, r = PutHandlers(s, t, Front(s.handlers[t]))
    PROVE  Good(r, l, v, z)
<1> DEFINE F == [slots : Pointers, base : Pointers]
           H == [frame : Nat, level : Pointers]
           st == s.stack[t]
           f == s.frames[t]
           q == s.handlers[t]
           j == Len(q) - 1
           p == Front(q)
<1>1. s \in VmStates /\ FramesNest(s, t) /\ HandlersNest(s, t) /\ OpenInOrder(s, t, z)
  BY GoodFacts DEF TaskInv
<1>2. /\ st \in Seq(Values) /\ Top(s, t) = Len(st) /\ Top(s, t) \in Nat
      /\ f \in Seq(F) /\ Len(f) \in Nat /\ DOMAIN f = 1 .. Len(f)
      /\ q \in Seq(H) /\ Len(q) \in Nat /\ DOMAIN q = 1 .. Len(q)
  BY <1>1, TaskFields DEF Top
<1>3. Handlers = Seq(H)
  BY DEF Handlers
<1> HIDE DEF F, H
<1>4. Len(q) # 0
  BY <1>2, EmptySeq
<1>5. j \in 0 .. Len(q) /\ \A k \in 1 .. j : k \in DOMAIN q
  BY <1>2, <1>4
<1>6. p = SubSeq(q, 1, j) /\ p \in Handlers
  <2>1. p = SubSeq(q, 1, j)
    BY DEF Front
  <2> QED
    BY <1>2, <1>3, <1>5, <2>1, Prefix
<1>7. st = SubSeq(st, 1, Top(s, t)) /\ f = SubSeq(f, 1, Len(f))
  <2> HIDE DEF st, f
  <2> QED
    BY <1>2, WholePrefix
<1>8. r = With(s, t, SubSeq(st, 1, Top(s, t)), SubSeq(f, 1, Len(f)), SubSeq(q, 1, j))
  <2>1. r = With(s, t, st, f, p)
    BY <1>1, <1>6, WithParts
  <2> QED
    BY <1>6, <1>7, <2>1
<1>9. Len(f) \in 1 .. Len(f) /\ f[Len(f)].slots.index <= Top(s, t)
  BY <1>1, <1>2, InnermostFrame DEF FramesNest
<1>10. \A k \in 1 .. j : q[k].frame <= Len(f) /\ q[k].level.index <= Top(s, t)
  BY <1>1, <1>2, <1>5, SMTT(30) DEF HandlersNest
<1>11. \A k \in DOMAIN s.open[t] : s.open[t][k] \in z \/ s.place[s.open[t][k]].index < Top(s, t)
  BY <1>1 DEF OpenInOrder
<1>12. Top(s, t) \in 0 .. Top(s, t)
  BY <1>2
<1> HIDE DEF j
<1> QED
  BY <1>5, <1>8, <1>9, <1>10, <1>11, <1>12, CutKeeps

\* The frame of a callee is above all that points into the stack.
LEMMA NewFrameKeeps ==
    ASSUME NEW l, NEW v, NEW z, NEW s, Good(s, l, v, z), NEW t \in Tasks, l[t] = "live",
           NEW p \in Nat, NEW method \in BOOLEAN,
           Free(s, t, Top(s, t) - p - 1, z), Len(s.frames[t]) < MaxFrames,
           NEW r, r = PutFrames(s, t, Append(s.frames[t], NewFrame(s, t, p, method)))
    PROVE  Good(r, l, v, z)
<1> DEFINE F == [slots : Pointers, base : Pointers]
           f == s.frames[t]
           q == s.handlers[t]
           h == Len(f)
           b == Top(s, t) - p - 1
           e == NewFrame(s, t, p, method)
           g == Append(f, e)
<1>1. /\ s \in VmStates /\ TaskInv(s, t, z) /\ FramesNest(s, t) /\ HandlersNest(s, t)
      /\ OpenInOrder(s, t, z) /\ Current(s, t)
      /\ Len(s.stack[t]) <= s.cap[t]
  BY GoodFacts DEF TaskInv
<1>2. /\ f \in Seq(F) /\ h \in Nat /\ DOMAIN f = 1 .. h
      /\ Top(s, t) \in Nat /\ s.gen[t] \in Nat
      /\ \A i \in DOMAIN f : f[i].slots.index \in Nat /\ f[i].base.index \in Nat
  BY <1>1, TaskFields
<1>3. /\ b \in Nat /\ b + 1 <= Top(s, t) /\ b <= Top(s, t)
      /\ \A i \in DOMAIN f : f[i].slots.index <= b
      /\ \A k \in DOMAIN q : q[k].level.index <= b
      /\ \A k \in DOMAIN s.open[t] : s.open[t][k] \in z \/ s.place[s.open[t][k]].index < b
  <2>1. b \in 0 .. Top(s, t)
    BY DEF Free
  <2>2. b \in Nat /\ b + 1 <= Top(s, t) /\ b <= Top(s, t)
    BY <1>2, <2>1
  <2> QED
    BY <2>2 DEF Free
<1>4. /\ e.base.index = b /\ (e.slots.index = b \/ e.slots.index = b + 1)
      /\ e.slots.gen = s.gen[t] /\ e.base.gen = s.gen[t] /\ e \in F
  <2>1. e = [slots |-> Here(s, t, IF method THEN b ELSE b + 1), base |-> Here(s, t, b)]
    BY DEF NewFrame
  <2> HIDE DEF b, e
  <2> QED
    BY <1>2, <1>3, <2>1 DEF Here, Pointers
<1>5. s.stack[t] \in Seq(Values) /\ q \in Handlers
  BY <1>1, TaskFields DEF Handlers
<1>6. Frames = Seq(F)
  BY DEF Frames
<1> HIDE DEF F, b, e
<1>7. /\ g \in Seq(F) /\ Len(g) = h + 1 /\ DOMAIN g = 1 .. h + 1 /\ g[h + 1] = e
      /\ \A k \in 1 .. h : g[k] = f[k]
  BY <1>2, <1>4, Appended
<1>8. Len(g) <= MaxFrames
  BY <1>2, <1>7, StackAssumption
<1> HIDE DEF g, h
<1>9. r = With(s, t, s.stack[t], g, q)
  BY <1>1, <1>6, <1>7, WithParts DEF g, e
<1>10. /\ r.gen = s.gen /\ r.open = s.open /\ r.place = s.place
       /\ r.stack[t] = s.stack[t] /\ r.frames[t] = g /\ r.handlers[t] = q
  BY <1>1, <1>5, <1>6, <1>7, <1>9, WithIs
<1>11. Top(r, t) = Top(s, t)
  BY <1>10 DEF Top
<1>12. b <= e.slots.index /\ e.slots.index <= Top(s, t) /\ e.slots.index \in Nat
  BY <1>3, <1>4
<1>13. \A k \in 1 .. h + 1 : k \in 1 .. h \/ k = h + 1
  BY <1>2
<1>14. FramesNest(r, t)
  <2>1. g # <<>> /\ g[1].base.index = 0
    <3>1. g # <<>>
      <4>1. Len(g) # 0
        BY <1>2, <1>7
      <4> QED
        BY <4>1
    <3>2. f[1].base.index = 0 /\ 1 \in DOMAIN f
      <4>1. h \in DOMAIN f
        BY <1>1, InnermostFrame DEF h
      <4> QED
        BY <1>1, <1>2, <4>1 DEF FramesNest
    <3> QED
      BY <1>2, <1>7, <3>1, <3>2
  <2>2. ASSUME NEW i \in DOMAIN g
        PROVE  /\ g[i].base.index <= g[i].slots.index
               /\ g[i].slots.index <= Top(s, t)
               /\ \A j \in DOMAIN g : i < j => g[i].slots.index <= g[j].base.index
    <3>1. CASE i \in 1 .. h
      <4>1. i \in DOMAIN f /\ g[i] = f[i]
        BY <1>2, <1>7, <3>1
      <4>2. ASSUME NEW j \in DOMAIN g, i < j PROVE g[i].slots.index <= g[j].base.index
        <5>1. CASE j \in 1 .. h
          BY <1>1, <1>2, <1>7, <4>1, <4>2, <5>1 DEF FramesNest
        <5>2. CASE j = h + 1
          BY <1>3, <1>4, <1>7, <4>1, <5>2
        <5> QED
          BY <1>7, <1>13, <5>1, <5>2
      <4> QED
        BY <1>1, <4>1, <4>2 DEF FramesNest
    <3>2. CASE i = h + 1
      <4>1. \A j \in DOMAIN g : ~(i < j)
        BY <1>2, <1>7, <3>2
      <4> QED
        BY <1>4, <1>7, <1>12, <3>2, <4>1
    <3> QED
      BY <1>7, <1>13, <3>1, <3>2
  <2> QED
    BY <1>10, <1>11, <2>1, <2>2 DEF FramesNest
<1>15. HandlersNest(r, t)
  <2>1. ASSUME NEW k \in DOMAIN q
        PROVE  /\ q[k].frame \in DOMAIN g
               /\ g[q[k].frame].slots.index <= q[k].level.index
               /\ q[k].level.index <= Top(s, t)
               /\ \A i \in DOMAIN g : q[k].frame < i => q[k].level.index <= g[i].base.index
               /\ \A j \in DOMAIN q : j < k =>
                     q[j].frame <= q[k].frame /\ q[j].level.index <= q[k].level.index
    <3>1. /\ q[k].frame \in DOMAIN f
          /\ f[q[k].frame].slots.index <= q[k].level.index
          /\ q[k].level.index <= Top(s, t)
          /\ \A i \in DOMAIN f : q[k].frame < i => q[k].level.index <= f[i].base.index
          /\ \A j \in DOMAIN q : j < k =>
                q[j].frame <= q[k].frame /\ q[j].level.index <= q[k].level.index
      BY <1>1 DEF HandlersNest
    <3>2. q[k].frame \in DOMAIN g /\ g[q[k].frame] = f[q[k].frame]
      <4>1. q[k].frame \in 1 .. h
        BY <1>2, <3>1
      <4>2. \A i \in 1 .. h : i \in 1 .. h + 1
        BY <1>2
      <4> QED
        BY <1>7, <4>1, <4>2, SMTT(30)
    <3>3. ASSUME NEW i \in DOMAIN g, q[k].frame < i PROVE q[k].level.index <= g[i].base.index
      <4>1. CASE i \in 1 .. h
        BY <1>2, <1>7, <3>1, <3>3, <4>1
      <4>2. CASE i = h + 1
        BY <1>3, <1>4, <1>7, <4>2
      <4> QED
        BY <1>7, <1>13, <4>1, <4>2, SMTT(30)
    <3> QED
      BY <3>1, <3>2, <3>3
  <2> QED
    BY <1>10, <1>11, <2>1, SMTT(30) DEF HandlersNest
<1>16. OpenInOrder(r, t, z)
  <2>1. ASSUME NEW k \in DOMAIN s.open[t], NEW i \in DOMAIN g
        PROVE  \/ s.place[s.open[t][k]].index < g[i].base.index
               \/ s.place[s.open[t][k]].index >= g[i].slots.index
               \/ s.open[t][k] \in z /\ i # 1
    <3>1. CASE i \in 1 .. h
      BY <1>1, <1>2, <1>7, <3>1 DEF OpenInOrder
    <3>2. CASE i = h + 1
      <4>1. h \in DOMAIN f
        BY <1>1, InnermostFrame DEF h
      <4>2. i # 1
        BY <1>2, <3>2, <4>1
      <4> QED
        BY <1>3, <1>4, <1>7, <3>2, <4>2
    <3> QED
      BY <1>7, <1>13, <3>1, <3>2
  <2>2. ASSUME NEW k \in DOMAIN s.open[t]
        PROVE  /\ s.place[s.open[t][k]].task = t
               /\ s.open[t][k] \in z \/ s.place[s.open[t][k]].index < Top(s, t)
               /\ \A j \in DOMAIN s.open[t] :
                     j < k => s.place[s.open[t][j]].index > s.place[s.open[t][k]].index
    BY <1>1 DEF OpenInOrder
  <2>3. r.open = s.open /\ r.place = s.place /\ r.frames[t] = g
    BY <1>10
  <2> QED
    BY <1>11, <2>1, <2>2, <2>3 DEF OpenInOrder
<1>17. Current(r, t)
  <2>1. ASSUME NEW i \in DOMAIN g PROVE g[i].slots.gen = s.gen[t] /\ g[i].base.gen = s.gen[t]
    <3>1. CASE i \in 1 .. h
      BY <1>1, <1>2, <1>7, <3>1 DEF Current
    <3>2. CASE i = h + 1
      BY <1>4, <1>7, <3>2
    <3> QED
      BY <1>7, <1>13, <3>1, <3>2
  <2> QED
    BY <1>1, <1>10, <2>1 DEF Current
<1>18. TaskInv(r, t, z)
  BY <1>14, <1>15, <1>16, <1>17 DEF TaskInv
<1>19. OpenAreIn(s, t, z, s.stack[t])
  BY <1>1 DEF OpenAreIn, OpenInOrder, Top
<1> QED
  BY <1>1, <1>5, <1>6, <1>7, <1>8, <1>9, <1>18, <1>19, WithKeeps

\* rewriteCallSlice: unset parameters go on top of the arguments.
LEMMA FillKeeps ==
    ASSUME NEW l, NEW v, NEW z, NEW s, Good(s, l, v, z), NEW t \in Tasks, l[t] = "live",
           NEW n \in Nat, NEW p \in Nat, n <= p, n <= Top(s, t),
           NEW r, r = FillArguments(s, t, n, p)
    PROVE  /\ Good(r, l, v, z)
           /\ Top(r, t) = Top(s, t) - n + p
           /\ Len(r.frames[t]) = Len(s.frames[t])
           /\ \A u \in Tasks, x \in Nat : Free(s, u, x, z) => Free(r, u, x, z)
<1> DEFINE d == p - n
           k == Top(s, t) - n + p
           e == Ensure(s, t, k)
           a == e.stack[t]
           b == [i \in 1 .. d |-> Unset]
           st == a \o b
<1>1. s \in VmStates /\ Top(s, t) \in Nat /\ d \in Nat /\ k \in Nat /\ k = Top(s, t) + d
  BY GoodFacts, TaskFields
<1>2. Good(e, l, v, z) /\ Same(s, e) /\ k <= e.cap[t]
  <2> HIDE DEF k
  <2> QED
    BY <1>1, EnsureKeeps
<1>3. r = PutStack(e, t, st)
  BY DEF FillArguments, PutStack
<1> HIDE DEF e
<1>4. e \in VmStates /\ Top(e, t) = Top(s, t) /\ Len(e.frames[t]) = Len(s.frames[t])
  BY <1>1, <1>2, GoodFacts, SameLengths
<1>5. a \in Seq(Values) /\ Len(a) = Top(s, t)
  BY <1>4, TaskFields DEF Top
<1>6. b \in [1 .. d -> Values]
  BY StackAssumption
<1> HIDE DEF a, b, d
<1>7. b \in Seq(Values) /\ Len(b) = d
  BY <1>1, <1>6, FunctionIsSeq
<1>8. /\ st \in Seq(Values) /\ Len(st) = Len(a) + Len(b)
      /\ \A i \in 1 .. Len(a) + Len(b) : st[i] = IF i <= Len(a) THEN a[i] ELSE b[i - Len(a)]
  BY <1>5, <1>7, ConcatProperties
<1> HIDE DEF st, k
<1>9. Len(st) = k
  BY <1>1, <1>5, <1>7, <1>8
<1>10. \A i \in 1 .. Top(s, t) : st[i] = a[i]
  <2>1. \A i \in 1 .. Len(a) : i \in 1 .. Len(a) + Len(b) /\ i <= Len(a)
    BY <1>1, <1>5, <1>7
  <2> QED
    BY <1>5, <1>8, <2>1
<1>11. Len(st) >= Top(e, t) /\ Len(st) <= e.cap[t]
  BY <1>1, <1>2, <1>4, <1>9
<1>12. /\ Good(r, l, v, z) /\ r.stack[t] = st /\ r.frames[t] = e.frames[t]
       /\ \A u \in Tasks, x \in Nat : Free(e, u, x, z) => Free(r, u, x, z)
  <2>1. \A i \in 1 .. Top(e, t) : st[i] = e.stack[t][i]
    BY <1>4, <1>10 DEF a
  <2>2. st \in Seq(Values)
    BY <1>8
  <2>3. Good(e, l, v, z)
    BY <1>2
  <2>4. Len(st) >= Top(e, t)
    BY <1>11
  <2>5. Len(st) <= e.cap[t]
    BY <1>11
  <2> QED
    BY <1>3, <2>1, <2>2, <2>3, <2>4, <2>5, LongerKeeps
<1>13. \A u \in Tasks, x \in Nat : Free(s, u, x, z) => Free(e, u, x, z)
  BY <1>1, <1>2, <1>4, SameNests
<1>14. Top(r, t) = k
  BY <1>9, <1>12 DEF Top
<1> QED
  BY <1>4, <1>12, <1>13, <1>14 DEF k

FirstFrame(s, t, p, method) == <<NewFrame(s, t, p, method)>>
WithLife(l, t, why) == [l EXCEPT ![t] = why]

\* A new task: its stack is what it was given, with one frame.
LEMMA BirthKeeps ==
    ASSUME NEW l \in Lives, NEW v, NEW z, NEW s, Good(s, l, v, z), NEW u \in Tasks, l[u] = "unborn",
           NEW p \in Nat, NEW method \in BOOLEAN,
           NEW sq \in Seq(Values), Len(sq) = p + 1, p + 1 <= s.cap[u],
           NEW q, q = PutStack(s, u, sq),
           NEW r, r = PutFrames(q, u, FirstFrame(q, u, p, method)),
           NEW k, k = WithLife(l, u, "live")
    PROVE  /\ Good(r, k, v, z) /\ k \in Lives
           /\ \A t \in Tasks : t # u => Top(r, t) = Top(s, t)
           /\ \A t \in Tasks, x \in Nat : t # u /\ Free(s, t, x, z) => Free(r, t, x, z)
<1> DEFINE F == [slots : Pointers, base : Pointers]
           e == NewFrame(q, u, p, method)
           g == <<e>>
<1>1. s \in VmStates /\ Empty(s, u)
  BY GoodFacts
<1>2. Frames = Seq(F) /\ s.frames[u] \in Frames /\ s.handlers[u] \in Handlers
      /\ s.cap[u] \in Nat /\ s.gen[u] \in Nat
  BY <1>1, TaskFields DEF Frames, Handlers
<1> HIDE DEF F
<1>3. q = With(s, u, sq, s.frames[u], s.handlers[u])
  BY <1>1, WithParts
<1>4. /\ q \in VmStates /\ q.stack[u] = sq /\ q.handlers[u] = s.handlers[u]
      /\ q.cap = s.cap /\ q.gen = s.gen /\ q.open = s.open /\ q.place = s.place
      /\ q.closed = s.closed /\ q.used = s.used
      /\ \A t \in Tasks : t # u => /\ q.stack[t] = s.stack[t] /\ q.frames[t] = s.frames[t]
                                   /\ q.handlers[t] = s.handlers[t]
  BY <1>1, <1>2, <1>3, WithIs
<1>5. Top(q, u) = p + 1
  BY <1>4 DEF Top
<1>6. /\ e.base.index = 0 /\ e.slots.index \in Nat /\ e.slots.index <= p + 1
      /\ e.slots.gen = s.gen[u] /\ e.base.gen = s.gen[u] /\ e \in F
  <2> DEFINE b == Top(q, u) - p - 1
  <2>1. b = 0
    BY <1>5
  <2>2. e = [slots |-> Here(q, u, IF method THEN b ELSE b + 1), base |-> Here(q, u, b)]
    BY DEF NewFrame
  <2> HIDE DEF b, e
  <2> QED
    BY <1>2, <1>4, <2>1, <2>2 DEF Here, Pointers, F
<1> HIDE DEF e
<1>7. g \in Seq(F) /\ Len(g) = 1 /\ DOMAIN g = 1 .. 1 /\ g[1] = e /\ g # <<>>
  BY <1>6
<1> HIDE DEF g
<1>8. r = With(q, u, q.stack[u], g, q.handlers[u])
  BY <1>2, <1>4, <1>7, WithParts DEF g, e, FirstFrame
<1>9. /\ r \in VmStates /\ r.stack[u] = sq /\ r.frames[u] = g /\ r.handlers[u] = s.handlers[u]
      /\ r.cap = s.cap /\ r.gen = s.gen /\ r.open = s.open /\ r.place = s.place
      /\ r.closed = s.closed /\ r.used = s.used
      /\ \A t \in Tasks : t # u => /\ r.stack[t] = s.stack[t] /\ r.frames[t] = s.frames[t]
                                   /\ r.handlers[t] = s.handlers[t]
  <2>1. g \in Frames
    BY <1>2, <1>7
  <2> DEFINE a == q.stack[u]
             b == q.handlers[u]
  <2>2. r = With(q, u, a, g, b) /\ a \in Seq(Values) /\ b \in Handlers /\ q \in VmStates
    BY <1>2, <1>4, <1>8
  <2>3. a = sq /\ b = s.handlers[u]
    BY <1>4
  <2> HIDE DEF a, b
  <2>4. /\ r \in VmStates /\ r.stack[u] = a /\ r.frames[u] = g /\ r.handlers[u] = b
        /\ r.cap = q.cap /\ r.gen = q.gen /\ r.open = q.open /\ r.place = q.place
        /\ r.closed = q.closed /\ r.used = q.used
        /\ \A t \in Tasks : t # u => /\ r.stack[t] = q.stack[t] /\ r.frames[t] = q.frames[t]
                                     /\ r.handlers[t] = q.handlers[t]
    BY <2>1, <2>2, WithIs
  <2> QED
    BY <1>4, <2>3, <2>4
<1>10. Top(r, u) = p + 1
  BY <1>9 DEF Top
<1>11. DOMAIN r.handlers[u] = {} /\ DOMAIN r.open[u] = {}
  BY <1>1, <1>9 DEF Empty
<1>12. TaskInv(r, u, z)
  <2>1. FramesNest(r, u)
    <3>1. \A i \in 1 .. 1 : i = 1
      OBVIOUS
    <3>2. e.base.index <= e.slots.index
      BY <1>6
    <3> QED
      BY <1>6, <1>7, <1>9, <1>10, <3>1, <3>2 DEF FramesNest
  <2>2. HandlersNest(r, u) /\ OpenInOrder(r, u, z)
    BY <1>11 DEF HandlersNest, OpenInOrder
  <2>3. Current(r, u)
    <3>1. \A i \in 1 .. 1 : i = 1
      OBVIOUS
    <3> QED
      BY <1>6, <1>7, <1>9, <1>11, <3>1 DEF Current
  <2> QED
    BY <2>1, <2>2, <2>3 DEF TaskInv
<1>13. k \in Lives /\ k[u] = "live" /\ \A t \in Tasks : t # u => k[t] = l[t]
  BY DEF Lives, WithLife
<1>14. ASSUME NEW t \in Tasks, t # u
       PROVE  /\ TaskInv(s, t, z) => TaskInv(r, t, z)
              /\ Empty(s, t) => Empty(r, t)
              /\ \A x : Free(s, t, x, z) => Free(r, t, x, z)
  BY <1>1, <1>9, <1>14, Stands
<1>15. ASSUME NEW t \in Tasks PROVE IF k[t] = "live" THEN TaskInv(r, t, z) ELSE Empty(r, t)
  BY <1>12, <1>13, <1>14, GoodFacts
<1>16. Fits(r)
  <2>1. ASSUME NEW t \in Tasks PROVE Len(r.stack[t]) <= r.cap[t] /\ Len(r.frames[t]) <= MaxFrames
    <3>1. CASE t = u
      <4>1. 1 <= MaxFrames
        BY StackAssumption
      <4>2. r.stack[t] = sq /\ r.cap[t] = s.cap[u] /\ r.frames[t] = g
        BY <1>9, <3>1
      <4> QED
        BY <1>7, <4>1, <4>2
    <3>2. CASE t # u
      <4>1. Len(s.stack[t]) <= s.cap[t] /\ Len(s.frames[t]) <= MaxFrames
        BY GoodFacts
      <4> QED
        BY <1>9, <3>2, <4>1
    <3> QED
      BY <3>1, <3>2
  <2> QED
    BY <2>1 DEF Fits
<1>17. ASSUME NEW c \in Cells PROVE CellInv(r, k, v, z, c)
  <2>1. CellInv(s, l, v, z, c)
    BY DEF Good
  <2>2. s.place[c] # Own => s.place[c].task \in Tasks
    BY <1>1, PlaceFields
  <2>3. s.place[c] # Own => s.place[c].task # u
    BY <2>1 DEF CellInv
  <2> QED
    BY <1>9, <1>13, <2>1, <2>2, <2>3 DEF CellInv, Slot, Top
<1>18. \A t \in Tasks : t # u => Top(r, t) = Top(s, t)
  BY <1>9 DEF Top
<1> QED
  BY <1>9, <1>13, <1>14, <1>15, <1>16, <1>17, <1>18 DEF Good

-----------------------------------------------------------------------------
(* Assignments                                                             *)

\* One open cell stands for each captured slot.
LEMMA FoundIs ==
    ASSUME NEW s \in VmStates, NEW t \in Tasks, Descending(s, t),
           NEW c \in Elements(s.open[t]), NEW d \in Elements(s.open[t]),
           s.place[c].index = s.place[d].index
    PROVE  c = d
<1>1. PICK i \in DOMAIN s.open[t] : c = s.open[t][i]
  BY DEF Elements
<1>2. PICK j \in DOMAIN s.open[t] : d = s.open[t][j]
  BY DEF Elements
<1>3. i \in Nat /\ j \in Nat /\ s.place[c].index \in Nat
  BY <1>1, <1>2, TaskFields, PlaceFields, SMTT(30)
<1>4. CASE i < j
  <2>1. s.place[c].index > s.place[d].index
    BY <1>1, <1>2, <1>4 DEF Descending
  <2> QED
    BY <1>3, <2>1
<1>5. CASE j < i
  <2>1. s.place[d].index > s.place[c].index
    BY <1>1, <1>2, <1>5 DEF Descending
  <2> QED
    BY <1>3, <2>1
<1>6. CASE i = j
  BY <1>1, <1>2, <1>6
<1> QED
  BY <1>3, <1>4, <1>5, <1>6

\* The stack of t with x in slot i.
Written(s, t, i, x) == [s.stack[t] EXCEPT ![i + 1] = x]

\* A slot is assigned, and with it the variable of the cell open for it.
LEMMA WriteKeeps ==
    ASSUME NEW l, NEW v, NEW z, NEW s, Good(s, l, v, z), NEW t \in Tasks, l[t] = "live",
           NEW i \in Nat, i < Top(s, t), NEW x \in Values,
           NEW r, r = PutStack(s, t, Written(s, t, i, x)),
           NEW w, \A c \in Cells : w[c] = IF c \in Found(s, t, i) THEN x ELSE v[c]
    PROVE  Good(r, l, w, z)
<1> DEFINE st == Written(s, t, i, x)
<1>1. s \in VmStates /\ TaskInv(s, t, z) /\ OpenInOrder(s, t, z) /\ Descending(s, t)
  BY GoodFacts DEF TaskInv, OpenInOrder, Descending
<1>2. /\ s.stack[t] \in Seq(Values) /\ Top(s, t) \in Nat /\ Top(s, t) = Len(s.stack[t])
      /\ s.frames[t] \in Frames /\ s.handlers[t] \in Handlers
  BY <1>1, TaskFields DEF Top, Frames, Handlers
<1>3. i + 1 \in 1 .. Len(s.stack[t])
  BY <1>2
<1>4. /\ st \in Seq(Values) /\ Len(st) = Len(s.stack[t]) /\ st[i + 1] = x
      /\ \A j \in 1 .. Len(s.stack[t]) : j # i + 1 => st[j] = s.stack[t][j]
  BY <1>2, <1>3, ExceptSeq DEF Written
<1> HIDE DEF st
<1>5. r = With(s, t, st, s.frames[t], s.handlers[t])
  BY <1>1, <1>4, WithParts DEF st
<1>6. /\ r \in VmStates /\ r.stack[t] = st /\ r.frames[t] = s.frames[t] /\ r.handlers[t] = s.handlers[t]
      /\ r.cap = s.cap /\ r.gen = s.gen /\ r.open = s.open /\ r.place = s.place
      /\ r.closed = s.closed /\ r.used = s.used
      /\ \A u \in Tasks : u # t => /\ r.stack[u] = s.stack[u] /\ r.frames[u] = s.frames[u]
                                   /\ r.handlers[u] = s.handlers[u]
  BY <1>1, <1>2, <1>4, <1>5, WithIs
<1>7. Top(r, t) = Top(s, t)
  BY <1>2, <1>4, <1>6 DEF Top
<1>8. TaskInv(r, t, z)
  <2>1. FramesNest(r, t)
    BY <1>1, <1>6, <1>7 DEF TaskInv, FramesNest
  <2>2. HandlersNest(r, t)
    BY <1>1, <1>6, <1>7 DEF TaskInv, HandlersNest
  <2>3. OpenInOrder(r, t, z)
    BY <1>1, <1>6, <1>7, SMTT(30) DEF OpenInOrder
  <2>4. Current(r, t)
    BY <1>1, <1>6 DEF TaskInv, Current
  <2> QED
    BY <2>1, <2>2, <2>3, <2>4 DEF TaskInv
<1>9. ASSUME NEW u \in Tasks PROVE IF l[u] = "live" THEN TaskInv(r, u, z) ELSE Empty(r, u)
  <2>1. CASE u = t
    BY <1>8, <2>1
  <2>2. CASE u # t
    BY <1>1, <1>6, <2>2, GoodFacts, Stands
  <2> QED
    BY <2>1, <2>2
<1>10. Fits(r)
  <2>1. ASSUME NEW u \in Tasks PROVE Len(r.stack[u]) <= r.cap[u] /\ Len(r.frames[u]) <= MaxFrames
    <3>1. CASE u = t
      BY <1>4, <1>6, <3>1, GoodFacts
    <3>2. CASE u # t
      BY <1>6, <3>2, GoodFacts
    <3> QED
      BY <3>1, <3>2
  <2> QED
    BY <2>1 DEF Fits
<1>11. ASSUME NEW u \in Tasks, NEW c \in Elements(s.open[u]) PROVE c \in Cells /\ s.place[c].task = u
  <2>1. PICK k \in DOMAIN s.open[u] : c = s.open[u][k]
    BY <1>11 DEF Elements
  <2> QED
    BY <1>1, <2>1, GoodFacts, TaskFields
<1>12. ASSUME NEW c \in Cells PROVE CellInv(r, l, w, z, c)
  <2>1. CellInv(s, l, v, z, c)
    BY DEF Good
  <2>2. CASE s.place[c] = Own
    <3>1. c \notin Found(s, t, i)
      <4>1. s.place[c].task # t
        BY <1>1, <2>2, PlaceFields, StackAssumption
      <4> QED
        BY <1>11, <4>1 DEF Found
    <3>2. w[c] = v[c]
      BY <3>1
    <3> QED
      BY <1>6, <2>1, <2>2, <3>2 DEF CellInv
  <2>3. CASE s.place[c] # Own
    <3> DEFINE u == s.place[c].task
               j == s.place[c].index
    <3>1. u \in Tasks /\ j \in Nat
      BY <1>1, <2>3, PlaceFields
    <3>2. /\ c \in s.used
          /\ \/ l[u] = "failed"
             \/ l[u] = "live" /\ c \in Elements(s.open[u]) /\ (c \in z \/ Slot(s, u, j) = v[c])
      BY <2>1, <2>3 DEF CellInv
    <3>3. ASSUME c \in Elements(s.open[u]), Slot(s, u, j) = v[c], c \notin z
          PROVE  Slot(r, u, j) = w[c]
      <4>1. CASE u = t /\ j = i
        <5>1. c \in Found(s, t, i)
          BY <3>3, <4>1 DEF Found
        <5>2. w[c] = x
          BY <5>1
        <5> QED
          BY <1>4, <1>6, <1>7, <4>1, <5>2 DEF Slot
      <4>2. CASE u = t /\ j # i
        <5>1. c \notin Found(s, t, i)
          BY <4>2 DEF Found
        <5>2. w[c] = v[c]
          BY <5>1
        <5>3. j < Top(s, t)
          BY <1>1, <3>3, <4>2 DEF OpenInOrder, Elements
        <5>4. j + 1 \in 1 .. Len(s.stack[t]) /\ j + 1 # i + 1
          <6> HIDE DEF j
          <6> QED
            BY <1>2, <3>1, <4>2, <5>3
        <5>5. st[j + 1] = s.stack[t][j + 1]
          <6> HIDE DEF j
          <6> QED
            BY <1>4, <5>4
        <5> QED
          BY <1>6, <1>7, <3>3, <4>2, <5>2, <5>3, <5>5 DEF Slot
      <4>3. CASE u # t
        <5>1. c \notin Found(s, t, i)
          BY <1>11, <4>3 DEF Found
        <5>2. w[c] = v[c] /\ r.stack[u] = s.stack[u]
          BY <1>6, <3>1, <4>3, <5>1
        <5> QED
          BY <3>3, <5>2 DEF Slot, Top
      <4> QED
        BY <4>1, <4>2, <4>3
    <3> QED
      BY <1>6, <2>3, <3>2, <3>3 DEF CellInv
  <2> QED
    BY <2>2, <2>3
<1> QED
  BY <1>6, <1>9, <1>10, <1>12 DEF Good

PutClosed(s, c, x) == [s EXCEPT !.closed[c] = x]

\* A closed cell is assigned.
LEMMA WriteClosedKeeps ==
    ASSUME NEW l, NEW v \in Variables, NEW z, NEW s, Good(s, l, v, z), NEW c \in Cells, s.place[c] = Own,
           NEW x \in Values, NEW r, r = PutClosed(s, c, x),
           NEW w, w = [v EXCEPT ![c] = x]
    PROVE  Good(r, l, w, z)
<1>1. s \in VmStates
  BY DEF Good
<1> DEFINE cl == [s.closed EXCEPT ![c] = x]
<1>2. /\ s.stack \in [Tasks -> Seq(Values)] /\ s.cap \in [Tasks -> Nat] /\ s.gen \in [Tasks -> Nat]
      /\ s.frames \in [Tasks -> Frames] /\ s.handlers \in [Tasks -> Handlers]
      /\ s.open \in [Tasks -> Seq(Cells)] /\ s.place \in [Cells -> Places]
      /\ s.closed \in [Cells -> Values] /\ s.used \in SUBSET Cells
  BY <1>1, StateFields DEF Frames, Handlers
<1>3. cl \in [Cells -> Values] /\ cl[c] = x /\ \A d \in Cells : d # c => cl[d] = s.closed[d]
  BY <1>2
<1>4. r = [stack |-> s.stack, cap |-> s.cap, gen |-> s.gen, frames |-> s.frames,
           handlers |-> s.handlers, open |-> s.open, place |-> s.place,
           closed |-> cl, used |-> s.used]
  <2>1. s = [stack |-> s.stack, cap |-> s.cap, gen |-> s.gen, frames |-> s.frames,
             handlers |-> s.handlers, open |-> s.open, place |-> s.place,
             closed |-> s.closed, used |-> s.used]
    BY <1>1, StateFields
  <2> QED
    BY <2>1 DEF PutClosed
<1> HIDE DEF cl
<1>5. r \in [stack : [Tasks -> Seq(Values)], cap : [Tasks -> Nat], gen : [Tasks -> Nat],
             frames : [Tasks -> Frames], handlers : [Tasks -> Handlers], open : [Tasks -> Seq(Cells)],
             place : [Cells -> Places], closed : [Cells -> Values], used : SUBSET Cells]
  BY <1>2, <1>3, <1>4
<1>6. r \in VmStates
  BY <1>5 DEF VmStates, Frames, Handlers
<1>7. /\ r.stack = s.stack /\ r.cap = s.cap /\ r.gen = s.gen /\ r.frames = s.frames
      /\ r.handlers = s.handlers /\ r.open = s.open /\ r.place = s.place /\ r.closed = cl
      /\ r.used = s.used
  BY <1>4
<1>8. ASSUME NEW u \in Tasks PROVE IF l[u] = "live" THEN TaskInv(r, u, z) ELSE Empty(r, u)
  BY <1>1, <1>7, GoodFacts, Stands
<1>9. Fits(r)
  BY <1>7 DEF Good, Fits
<1>10. w[c] = x /\ \A d \in Cells : d # c => w[d] = v[d]
  BY DEF Variables
<1>11. ASSUME NEW d \in Cells PROVE CellInv(r, l, w, z, d)
  <2>1. CellInv(s, l, v, z, d)
    BY DEF Good
  <2>2. CASE d = c
    BY <1>3, <1>7, <1>10, <2>2 DEF CellInv
  <2>3. CASE d # c
    <3>1. w[d] = v[d] /\ cl[d] = s.closed[d]
      BY <1>3, <1>10, <2>3
    <3> QED
      BY <1>7, <2>1, <3>1 DEF CellInv, Slot, Top
  <2> QED
    BY <2>2, <2>3
<1> QED
  BY <1>6, <1>8, <1>9, <1>11 DEF Good

\* A cell that is lost is assigned where nothing that lives is hit.
LEMMA WriteLostKeeps ==
    ASSUME NEW l, NEW v \in Variables, NEW z, NEW s, Good(s, l, v, z), NEW c \in z, NEW x,
           NEW w, w = [v EXCEPT ![c] = x]
    PROVE  Good(s, l, w, z)
<1>1. ASSUME NEW d \in Cells PROVE CellInv(s, l, w, z, d)
  <2>1. CellInv(s, l, v, z, d)
    BY DEF Good
  <2>2. d \in z \/ w[d] = v[d]
    BY DEF Variables
  <2> QED
    BY <2>1, <2>2 DEF CellInv
<1> QED
  BY <1>1 DEF Good

\* More cells are lost.
LEMMA MoreLost ==
    ASSUME NEW l, NEW v, NEW z, NEW s, Good(s, l, v, z), NEW y, z \subseteq y
    PROVE  Good(s, l, v, y)
<1>1. ASSUME NEW t \in Tasks PROVE IF l[t] = "live" THEN TaskInv(s, t, y) ELSE Empty(s, t)
  <2>1. CASE l[t] = "live"
    <3>1. TaskInv(s, t, z)
      BY <2>1, GoodFacts
    <3>2. OpenInOrder(s, t, y)
      BY <3>1 DEF TaskInv, OpenInOrder
    <3> QED
      BY <2>1, <3>1, <3>2 DEF TaskInv
  <2>2. CASE l[t] # "live"
    BY <2>2, GoodFacts
  <2> QED
    BY <2>1, <2>2
<1>2. ASSUME NEW c \in Cells PROVE CellInv(s, l, v, y, c)
  BY DEF Good, CellInv
<1> QED
  BY <1>1, <1>2 DEF Good

-----------------------------------------------------------------------------
(* Instructions                                                            *)

LEMMA RunningFacts ==
    ASSUME VmInv, NEW t \in Tasks, Running(t)
    PROVE  /\ Good(m, life, variable, lost) /\ life[t] = "live" /\ life \in Lives /\ variable \in Variables
           /\ ended \in {"no", "moved", "abandoned"} /\ m \in VmStates /\ TaskInv(m, t, lost)
           /\ lost \in SUBSET Cells
  BY GoodFacts DEF VmInv, Running

LEMMA SlotIsValue ==
    ASSUME NEW s \in VmStates, NEW t \in Tasks
    PROVE  /\ \A i \in Nat : Slot(s, t, i) \in Values
           /\ Top(s, t) > 0 => Peek(s, t) \in Values
<1>1. s.stack[t] \in Seq(Values) /\ Top(s, t) = Len(s.stack[t]) /\ Top(s, t) \in Nat
  BY TaskFields DEF Top
<1>2. ASSUME NEW i \in Nat PROVE Slot(s, t, i) \in Values
  <2>1. i < Top(s, t) => i + 1 \in 1 .. Len(s.stack[t])
    BY <1>1
  <2> QED
    BY <1>1, <2>1, StackAssumption DEF Slot
<1>3. ASSUME Top(s, t) > 0 PROVE Peek(s, t) \in Values
  <2>1. Len(s.stack[t]) \in 1 .. Len(s.stack[t])
    BY <1>1, <1>3
  <2> QED
    BY <1>1, <2>1 DEF Peek, Last
<1> QED
  BY <1>2, <1>3

\* The slot of an open cell holds the value of its variable, if it is not lost.
LEMMA OpenSlot ==
    ASSUME NEW l, NEW v, NEW z, NEW s, Good(s, l, v, z), NEW c \in Cells, s.place[c] # Own,
           l[s.place[c].task] = "live"
    PROVE  /\ s.place[c].task \in Tasks /\ s.place[c].index \in Nat
           /\ c \in Elements(s.open[s.place[c].task])
           /\ c \in z \/ s.place[c].index < Top(s, s.place[c].task)
           /\ c \in z \/ Slot(s, s.place[c].task, s.place[c].index) = v[c]
<1> DEFINE t == s.place[c].task
<1>1. s \in VmStates
  BY DEF Good
<1>2. t \in Tasks /\ s.place[c].index \in Nat
  BY <1>1, PlaceFields
<1>3. CellInv(s, l, v, z, c)
  BY DEF Good
<1>4. c \in Elements(s.open[t]) /\ (c \in z \/ Slot(s, t, s.place[c].index) = v[c])
  BY <1>3 DEF CellInv
<1>5. OpenInOrder(s, t, z)
  BY <1>2, GoodFacts DEF TaskInv
<1>6. c \in z \/ s.place[c].index < Top(s, t)
  <2>1. PICK k \in DOMAIN s.open[t] : c = s.open[t][k]
    BY <1>4, SMTT(30) DEF Elements
  <2>2. s.open[t][k] \in z \/ s.place[s.open[t][k]].index < Top(s, t)
    BY <1>5, <2>1 DEF OpenInOrder
  <2> QED
    BY <2>1, <2>2
<1> QED
  BY <1>2, <1>4, <1>6

LEMMA ConstantKeeps ==
    ASSUME VmInv, NEW t \in Tasks, Constant(t)
    PROVE  VmInv'
<1>1. Running(t) /\ UNCHANGED <<life, ended, variable, lost>>
  BY DEF Constant, Goes
<1>2. PICK x \in Values : m' = Push(m, t, x)
  BY DEF Constant
<1>3. Good(Push(m, t, x), life, variable, lost)
  BY <1>1, RunningFacts, PushKeeps
<1> QED
  BY <1>1, <1>2, <1>3, RunningFacts DEF VmInv

LEMMA OperateKeeps ==
    ASSUME VmInv, NEW t \in Tasks, Operate(t)
    PROVE  VmInv'
<1>1. Running(t) /\ UNCHANGED <<life, ended, variable, lost>>
  BY DEF Operate, Goes
<1>2. PICK n \in 1 .. MaxArgs + 1, x \in Values : Poppable(t, n) /\ m' = Push(Drop(m, t, n), t, x)
  BY DEF Operate
<1>3. n \in Nat
  BY StackAssumption
<1>4. Good(m, life, variable, lost) /\ life[t] = "live"
  BY <1>1, RunningFacts
<1>5. Free(m, t, Top(m, t) - n, lost)
  BY <1>2, <1>3, <1>4, PoppableIsFree
<1>6. Good(Drop(m, t, n), life, variable, lost)
  BY <1>3, <1>4, <1>5, DropKeeps
<1>7. Good(Push(Drop(m, t, n), t, x), life, variable, lost)
  BY <1>4, <1>6, PushKeeps
<1> QED
  BY <1>1, <1>2, <1>7, RunningFacts DEF VmInv

LEMMA PopKeeps ==
    ASSUME VmInv, NEW t \in Tasks, Pop(t)
    PROVE  VmInv'
<1> DEFINE y == lost \cup Captured(t, Top(m, t) - 1)
<1>1. /\ Running(t) /\ UNCHANGED <<life, ended, variable>> /\ Within(t, 1) /\ m' = Drop(m, t, 1)
      /\ lost' = y
  BY DEF Pop
<1>2. Good(m, life, variable, lost) /\ life[t] = "live" /\ m \in VmStates /\ lost \in SUBSET Cells
  BY <1>1, RunningFacts
<1>3. Captured(t, Top(m, t) - 1) \subseteq Cells
  BY <1>2, TaskFields DEF Captured, Elements
<1>4. y \in SUBSET Cells /\ lost \subseteq y /\ Captured(t, Top(m, t) - 1) \subseteq y
  BY <1>2, <1>3
<1> HIDE DEF y
<1>5. Good(m, life, variable, y)
  BY <1>2, <1>4, MoreLost
<1>6. Free(m, t, Top(m, t) - 1, y)
  BY <1>1, <1>2, <1>4, <1>5, WithinIsFree
<1>7. Good(Drop(m, t, 1), life, variable, y)
  BY <1>2, <1>5, <1>6, DropKeeps
<1> QED
  BY <1>1, <1>2, <1>4, <1>7, RunningFacts DEF VmInv

LEMMA LocalsAreSlots ==
    ASSUME NEW t \in Tasks, m \in VmStates, FramesNest(m, t)
    PROVE  /\ Frame(t).slots.index \in Nat
           /\ \A i \in Locals(t) : i \in Nat /\ i < Top(m, t) /\ Last(m.frames[t]).slots.index <= i
<1>1. Frame(t).slots.index \in Nat /\ Top(m, t) \in Nat
  BY InnermostFrame, TaskFields DEF Frame
<1> QED
  BY <1>1 DEF Locals, Frame

LEMMA GetLocalKeeps ==
    ASSUME VmInv, NEW t \in Tasks, GetLocal(t)
    PROVE  VmInv'
<1>1. Running(t)
  BY DEF GetLocal
<1>2. Good(m, life, variable, lost) /\ life[t] = "live" /\ m \in VmStates /\ FramesNest(m, t)
  BY <1>1, RunningFacts DEF TaskInv
<1>3. PICK i \in Locals(t) :
         IF Needs(m, t, Top(m, t) + 1)
         THEN EndsAs("moved")
         ELSE m' = Push(m, t, Slot(m, t, i)) /\ Goes /\ UNCHANGED variable
  BY DEF GetLocal
<1>4. CASE EndsAs("moved")
  BY <1>4 DEF EndsAs, VmInv
<1>5. CASE m' = Push(m, t, Slot(m, t, i)) /\ Goes /\ UNCHANGED variable
  <2>1. Slot(m, t, i) \in Values
    BY <1>2, LocalsAreSlots, SlotIsValue
  <2>2. Good(Push(m, t, Slot(m, t, i)), life, variable, lost)
    BY <1>2, <2>1, PushKeeps
  <2> QED
    BY <1>1, <1>5, <2>2, RunningFacts DEF VmInv, Goes
<1> QED
  BY <1>3, <1>4, <1>5

LEMMA SetLocalKeeps ==
    ASSUME VmInv, NEW t \in Tasks, SetLocal(t)
    PROVE  VmInv'
<1> DEFINE x == Peek(m, t)
<1>1. Running(t) /\ Top(m, t) > Frame(t).slots.index /\ UNCHANGED <<life, ended, lost>>
  BY DEF SetLocal, Goes
<1>2. Good(m, life, variable, lost) /\ life[t] = "live" /\ m \in VmStates /\ FramesNest(m, t)
  BY <1>1, RunningFacts DEF TaskInv
<1>3. PICK i \in Locals(t) :
         m' = [m EXCEPT !.stack[t][i + 1] = x] /\ Assigned(t, i, x)
  BY DEF SetLocal
<1>4. i \in Nat /\ i < Top(m, t)
  BY <1>2, LocalsAreSlots
<1>5. x \in Values
  <2>1. Top(m, t) > 0
    BY <1>1, <1>2, LocalsAreSlots, TaskFields
  <2> QED
    BY <1>2, <2>1, SlotIsValue
<1>6. m' = PutStack(m, t, Written(m, t, i, x))
  BY <1>3 DEF PutStack, Written
<1> DEFINE w == [c \in Cells |-> IF c \in Found(m, t, i) THEN x ELSE variable[c]]
<1>7. variable' = w
  BY <1>3 DEF Assigned
<1>8. w \in Variables
  BY <1>1, <1>5, RunningFacts DEF Variables
<1>9. \A c \in Cells : w[c] = IF c \in Found(m, t, i) THEN x ELSE variable[c]
  OBVIOUS
<1> HIDE DEF w, x
<1>10. Good(PutStack(m, t, Written(m, t, i, x)), life, w, lost)
  BY <1>2, <1>4, <1>5, <1>9, WriteKeeps
<1> QED
  BY <1>1, <1>6, <1>7, <1>8, <1>10, RunningFacts DEF VmInv

LEMMA ClosureKeeps ==
    ASSUME VmInv, NEW t \in Tasks, Closure(t)
    PROVE  VmInv'
<1>1. Running(t) /\ UNCHANGED <<life, ended, lost>>
  BY DEF Closure, Goes
<1>2. /\ Good(m, life, variable, lost) /\ life[t] = "live" /\ m \in VmStates /\ FramesNest(m, t)
      /\ variable \in Variables
  BY <1>1, RunningFacts DEF TaskInv
<1>3. PICK i \in Locals(t), c \in Cells \ m.used, x \in Values :
         /\ m' = Push(CaptureUpvalue(m, t, i, c), t, x)
         /\ variable' = [variable EXCEPT ![c] = IF Found(m, t, i) = {} THEN Slot(m, t, i) ELSE @]
  BY DEF Closure
<1>4. i \in Nat /\ i < Top(m, t) /\ Last(m.frames[t]).slots.index <= i
  BY <1>2, LocalsAreSlots
<1> DEFINE w == [variable EXCEPT ![c] = IF Found(m, t, i) = {} THEN Slot(m, t, i) ELSE @]
<1>5. Good(CaptureUpvalue(m, t, i, c), life, w, lost) /\ w \in Variables
  BY <1>2, <1>4, CaptureKeeps
<1>6. variable' = w
  BY <1>3
<1> HIDE DEF w
<1>7. Good(Push(CaptureUpvalue(m, t, i, c), t, x), life, w, lost)
  BY <1>2, <1>5, PushKeeps
<1> QED
  BY <1>1, <1>3, <1>5, <1>6, <1>7, RunningFacts DEF VmInv

LEMMA CloseUpvalueKeeps ==
    ASSUME VmInv, NEW t \in Tasks, CloseUpvalue(t)
    PROVE  VmInv'
<1> DEFINE i == Top(m, t) - 1
           r == CloseUpvalues(m, t, i)
<1>1. Running(t) /\ UNCHANGED <<life, ended, variable, lost>> /\ m' = Drop(r, t, 1) /\ Within(t, 1)
  BY DEF CloseUpvalue, Goes
<1>2. Good(m, life, variable, lost) /\ life[t] = "live" /\ m \in VmStates /\ lost \in SUBSET Cells
  BY <1>1, RunningFacts
<1>3. Free(m, t, i, Cells) /\ i \in Nat
  <2>1. Captured(t, i) \subseteq Cells
    BY <1>2, TaskFields DEF Captured, Elements
  <2>2. Good(m, life, variable, Cells)
    BY <1>2, MoreLost
  <2> QED
    BY <1>1, <1>2, <2>1, <2>2, WithinIsFree
<1> HIDE DEF i
<1>4. /\ Good(r, life, variable, lost) /\ r.stack = m.stack /\ r.frames = m.frames /\ r.handlers = m.handlers
      /\ \A k \in DOMAIN r.open[t] : r.place[r.open[t][k]].index < i
  BY <1>2, <1>3, CloseKeeps
<1> HIDE DEF r
<1>5. Top(r, t) = Top(m, t)
  BY <1>4 DEF Top
<1>6. Free(r, t, i, lost)
  BY <1>3, <1>4, <1>5 DEF Free
<1>7. Free(r, t, Top(r, t) - 1, lost)
  BY <1>5, <1>6 DEF i
<1>8. Good(Drop(r, t, 1), life, variable, lost)
  BY <1>2, <1>4, <1>7, DropKeeps
<1> QED
  BY <1>1, <1>8, RunningFacts DEF VmInv

LEMMA FindsValues ==
    ASSUME m \in VmStates, NEW c \in Cells
    PROVE  Finds(c) \subseteq Values
<1>1. CASE OnStack(c)
  <2>1. m.place[c].task \in Tasks /\ m.place[c].index \in Nat
    BY <1>1, PlaceFields DEF OnStack
  <2>2. Slot(m, m.place[c].task, m.place[c].index) \in Values
    BY <2>1, SlotIsValue
  <2> QED
    BY <1>1, <2>2 DEF Finds
<1>2. CASE ~OnStack(c)
  BY <1>2, StateFields DEF Finds
<1> QED
  BY <1>1, <1>2

LEMMA GetUpvalueKeeps ==
    ASSUME VmInv, NEW t \in Tasks, GetUpvalue(t)
    PROVE  VmInv'
<1>1. Running(t)
  BY DEF GetUpvalue
<1>2. Good(m, life, variable, lost) /\ life[t] = "live" /\ m \in VmStates
  BY <1>1, RunningFacts
<1>3. PICK c \in m.used :
         LET u == m.place[c].task IN
         CASE OnStack(c) /\ life[u] # "live" -> EndsAs("abandoned")
           [] OnStack(c) /\ u = t /\ Needs(m, t, Top(m, t) + 1) -> EndsAs("moved")
           [] OTHER -> /\ \E v \in Finds(c) : m' = Push(m, t, v)
                       /\ Goes /\ UNCHANGED variable
  BY DEF GetUpvalue
<1>4. c \in Cells
  BY <1>2, StateFields
<1>5. CASE EndsAs("abandoned") \/ EndsAs("moved")
  BY <1>5 DEF EndsAs, VmInv
<1>6. CASE (\E v \in Finds(c) : m' = Push(m, t, v)) /\ Goes /\ UNCHANGED variable
  <2>1. PICK x \in Finds(c) : m' = Push(m, t, x)
    BY <1>6
  <2>2. x \in Values
    BY <1>2, <1>4, FindsValues
  <2>3. Good(Push(m, t, x), life, variable, lost)
    BY <1>2, <2>2, PushKeeps
  <2> QED
    BY <1>1, <1>6, <2>1, <2>3, RunningFacts DEF VmInv, Goes
<1> QED
  BY <1>3, <1>5, <1>6

LEMMA SetUpvalueKeeps ==
    ASSUME VmInv, NEW t \in Tasks, SetUpvalue(t)
    PROVE  VmInv'
<1>1. Running(t) /\ Top(m, t) > Frame(t).slots.index
  BY DEF SetUpvalue
<1>2. /\ Good(m, life, variable, lost) /\ life[t] = "live" /\ m \in VmStates /\ FramesNest(m, t)
      /\ variable \in Variables
  BY <1>1, RunningFacts DEF TaskInv
<1>3. PICK x : x = Peek(m, t)
  OBVIOUS
<1>4. PICK c \in m.used :
         IF OnStack(c) /\ life[m.place[c].task] # "live" THEN EndsAs("abandoned")
         ELSE /\ m' = Stored(c, x)
              /\ variable' = [variable EXCEPT ![c] = x]
              /\ Goes
  BY <1>3 DEF SetUpvalue
<1>5. c \in Cells
  BY <1>2, StateFields
<1>6. x \in Values
  <2>1. Top(m, t) > 0
    BY <1>1, <1>2, LocalsAreSlots, TaskFields
  <2> QED
    BY <1>2, <1>3, <2>1, SlotIsValue
<1>7. PICK u : u = m.place[c].task
  OBVIOUS
<1>8. PICK i : i = m.place[c].index
  OBVIOUS
<1>9. PICK w : w = [variable EXCEPT ![c] = x]
  OBVIOUS
<1>10. w \in Variables /\ w[c] = x /\ \A d \in Cells : d # c => w[d] = variable[d]
  BY <1>2, <1>5, <1>6, <1>9 DEF Variables
<1>11. CASE EndsAs("abandoned")
  BY <1>11 DEF EndsAs, VmInv
<1>12. CASE ~(OnStack(c) /\ life[u] # "live") /\ m' = Stored(c, x) /\ variable' = w /\ Goes
  <2>1. Good(Stored(c, x), life, w, lost)
    <3>1. CASE ~OnStack(c)
      <4>1. m.place[c] = Own /\ Stored(c, x) = PutClosed(m, c, x)
        BY <3>1 DEF OnStack, Stored, PutClosed
      <4>2. Good(PutClosed(m, c, x), life, w, lost)
        BY <1>2, <1>5, <1>6, <1>9, <4>1, WriteClosedKeeps
      <4> QED
        BY <4>1, <4>2
    <3>2. CASE OnStack(c)
      <4>1. /\ life[u] = "live" /\ u \in Tasks /\ i \in Nat /\ c \in Elements(m.open[u])
            /\ c \in lost \/ i < Top(m, u)
        BY <1>2, <1>5, <1>7, <1>8, <1>12, <3>2, OpenSlot DEF OnStack
      <4>2. CASE i < Top(m, u)
        <5>1. Stored(c, x) = PutStack(m, u, Written(m, u, i, x))
          BY <1>7, <1>8, <3>2, <4>2 DEF Stored, PutStack, Written
        <5>2. Descending(m, u)
          BY <1>2, <4>1, GoodFacts DEF TaskInv, OpenInOrder, Descending
        <5>3. ASSUME NEW d \in Cells PROVE w[d] = IF d \in Found(m, u, i) THEN x ELSE variable[d]
          <6>1. CASE d = c
            <7>1. d \in Found(m, u, i)
              BY <1>8, <4>1, <6>1 DEF Found
            <7> QED
              BY <1>10, <6>1, <7>1
          <6>2. CASE d # c
            <7>1. d \notin Found(m, u, i)
              <8> SUFFICES ASSUME d \in Elements(m.open[u]), m.place[d].index = m.place[c].index
                           PROVE  FALSE
                BY <1>8 DEF Found
              <8> QED
                BY <1>2, <4>1, <5>2, <6>2, FoundIs
            <7> QED
              BY <1>10, <6>2, <7>1
          <6> QED
            BY <6>1, <6>2
        <5>4. Good(PutStack(m, u, Written(m, u, i, x)), life, w, lost)
          BY <1>2, <1>6, <4>1, <4>2, <5>3, WriteKeeps
        <5> QED
          BY <5>1, <5>4
      <4>3. CASE ~(i < Top(m, u))
        <5>1. Stored(c, x) = m
          BY <1>7, <1>8, <3>2, <4>3 DEF Stored
        <5>2. Good(m, life, w, lost)
          BY <1>2, <1>9, <4>1, <4>3, WriteLostKeeps
        <5> QED
          BY <5>1, <5>2
      <4> QED
        BY <4>2, <4>3
    <3> QED
      BY <3>1, <3>2
  <2> QED
    BY <1>1, <1>10, <1>12, <2>1, RunningFacts DEF VmInv, Goes
<1> QED
  BY <1>4, <1>7, <1>9, <1>11, <1>12

LEMMA EnterTryStep ==
    ASSUME VmInv, NEW t \in Tasks, EnterTry(t)
    PROVE  VmInv'
<1>1. Running(t) /\ UNCHANGED <<life, ended, variable, lost>>
  BY DEF EnterTry, Goes
<1> DEFINE r == PutHandlers(m, t, Append(m.handlers[t], TryBlock(m, t)))
<1>2. m' = r
  BY DEF EnterTry, PutHandlers, TryBlock
<1>3. Good(r, life, variable, lost)
  BY <1>1, RunningFacts, EnterTryKeeps
<1> HIDE DEF r
<1> QED
  BY <1>1, <1>2, <1>3, RunningFacts DEF VmInv

LEMMA LeaveTryStep ==
    ASSUME VmInv, NEW t \in Tasks, LeaveTry(t)
    PROVE  VmInv'
<1>1. Running(t) /\ UNCHANGED <<life, ended, variable, lost>> /\ m.handlers[t] # <<>>
  BY DEF LeaveTry, Goes
<1> DEFINE r == PutHandlers(m, t, Front(m.handlers[t]))
<1>2. m' = r
  BY DEF LeaveTry, PutHandlers
<1>3. Good(r, life, variable, lost)
  BY <1>1, RunningFacts, LeaveTryKeeps
<1> HIDE DEF r
<1> QED
  BY <1>1, <1>2, <1>3, RunningFacts DEF VmInv

LEMMA RaiseKeeps ==
    ASSUME VmInv, NEW t \in Tasks, life[t] = "live", NEW s, Good(s, life, variable, lost),
           NEW x \in Values, Raise(s, t, x)
    PROVE  VmInv'
<1>1. /\ life \in Lives /\ variable \in Variables /\ ended \in {"no", "moved", "abandoned"}
      /\ lost \in SUBSET Cells
      /\ UNCHANGED <<variable, ended, lost>>
  BY DEF VmInv, Raise
<1>2. CASE Usable(s, t) # {}
  <2>1. m' = Catch(s, t, x) /\ life' = life
    BY <1>2 DEF Raise
  <2>2. Good(Catch(s, t, x), life, variable, lost)
    BY <1>2, CatchKeeps
  <2> QED
    BY <1>1, <2>1, <2>2 DEF VmInv
<1>3. CASE Usable(s, t) = {}
  <2> DEFINE k == [life EXCEPT ![t] = "failed"]
  <2>1. m' = Settle(s, t) /\ life' = k
    BY <1>3 DEF Raise
  <2>2. Good(Settle(s, t), k, variable, lost) /\ k \in Lives
    BY <1>1, SettleKeeps
  <2> HIDE DEF k
  <2> QED
    BY <1>1, <2>1, <2>2 DEF VmInv
<1> QED
  BY <1>2, <1>3

LEMMA ThrowKeeps ==
    ASSUME VmInv, NEW t \in Tasks, Throw(t)
    PROVE  VmInv'
<1>1. Running(t) /\ Poppable(t, 1) /\ Raise(Drop(m, t, 1), t, Peek(m, t))
  BY DEF Throw
<1>2. Good(m, life, variable, lost) /\ life[t] = "live" /\ m \in VmStates
  BY <1>1, RunningFacts
<1>3. Free(m, t, Top(m, t) - 1, lost) /\ 1 <= Top(m, t) /\ Top(m, t) \in Nat
  BY <1>1, <1>2, PoppableIsFree, TaskFields
<1>4. Good(Drop(m, t, 1), life, variable, lost)
  BY <1>2, <1>3, DropKeeps
<1>5. Peek(m, t) \in Values
  BY <1>2, <1>3, SlotIsValue
<1> QED
  BY <1>1, <1>2, <1>4, <1>5, RaiseKeeps

LEMMA RethrowKeeps ==
    ASSUME VmInv, NEW t \in Tasks, Rethrow(t)
    PROVE  VmInv'
<1>1. PICK x \in Values : Raise(m, t, x)
  BY DEF Rethrow
<1>2. Good(m, life, variable, lost) /\ life[t] = "live"
  BY RunningFacts DEF Rethrow
<1> QED
  BY <1>1, <1>2, RaiseKeeps

LEMMA RuntimeErrorKeeps ==
    ASSUME VmInv, NEW t \in Tasks, RuntimeError(t)
    PROVE  VmInv'
<1> DEFINE k == [life EXCEPT ![t] = "failed"]
<1>1. Running(t) /\ m' = Settle(m, t) /\ life' = k /\ UNCHANGED <<variable, ended, lost>>
  BY DEF RuntimeError
<1>2. Good(m, life, variable, lost) /\ life[t] = "live" /\ life \in Lives
  BY <1>1, RunningFacts
<1>3. Good(Settle(m, t), k, variable, lost) /\ k \in Lives
  BY <1>2, SettleKeeps
<1> HIDE DEF k
<1> QED
  BY <1>1, <1>3, RunningFacts DEF VmInv

LEMMA CallKeeps ==
    ASSUME VmInv, NEW t \in Tasks, Call(t)
    PROVE  VmInv'
<1>1. Running(t) /\ Len(m.frames[t]) < MaxFrames /\ UNCHANGED <<life, ended, variable, lost>>
  BY DEF Call, Goes
<1>2. PICK n \in 0 .. MaxArgs : \E p \in n .. MaxArgs, method \in BOOLEAN :
         /\ Poppable(t, n + 1)
         /\ LET r == FillArguments(m, t, n, p)
            IN  m' = [r EXCEPT !.frames[t] = Append(@, NewFrame(r, t, p, method))]
  BY DEF Call
<1>3. PICK p \in n .. MaxArgs, method \in BOOLEAN :
         /\ Poppable(t, n + 1)
         /\ LET r == FillArguments(m, t, n, p)
            IN  m' = [r EXCEPT !.frames[t] = Append(@, NewFrame(r, t, p, method))]
  BY <1>2
<1>4. n \in Nat /\ p \in Nat /\ n <= p /\ n + 1 \in Nat
  BY StackAssumption
<1>5. Good(m, life, variable, lost) /\ life[t] = "live" /\ m \in VmStates
  BY <1>1, RunningFacts
<1>6. /\ Free(m, t, Top(m, t) - (n + 1), lost) /\ Top(m, t) - (n + 1) \in Nat /\ n + 1 <= Top(m, t)
      /\ Top(m, t) \in Nat
  BY <1>3, <1>4, <1>5, PoppableIsFree, TaskFields
<1>7. n <= Top(m, t)
  BY <1>4, <1>6
<1> DEFINE r == FillArguments(m, t, n, p)
           q == PutFrames(r, t, Append(r.frames[t], NewFrame(r, t, p, method)))
<1>8. /\ Good(r, life, variable, lost) /\ Top(r, t) = Top(m, t) - n + p
      /\ Len(r.frames[t]) = Len(m.frames[t])
      /\ \A u \in Tasks, x \in Nat : Free(m, u, x, lost) => Free(r, u, x, lost)
  BY <1>4, <1>5, <1>7, FillKeeps
<1>9. m' = q
  BY <1>3 DEF PutFrames
<1> HIDE DEF r
<1>10. Free(r, t, Top(r, t) - p - 1, lost)
  <2>1. Top(r, t) - p - 1 = Top(m, t) - (n + 1)
    BY <1>4, <1>6, <1>8
  <2> QED
    BY <1>6, <1>8, <2>1
<1>11. Len(r.frames[t]) < MaxFrames
  BY <1>1, <1>8
<1>12. Good(q, life, variable, lost)
  BY <1>4, <1>5, <1>8, <1>10, <1>11, NewFrameKeeps
<1> HIDE DEF q
<1> QED
  BY <1>1, <1>9, <1>12, RunningFacts DEF VmInv

LEMMA ReturnStep ==
    ASSUME VmInv, NEW t \in Tasks, Return(t)
    PROVE  VmInv'
<1> DEFINE x == Peek(m, t)
           s == Drop(m, t, 1)
           r == CloseUpvalues(s, t, Frame(t).slots.index)
           f == Front(m.frames[t])
<1>1. Running(t) /\ Poppable(t, 1) /\ UNCHANGED <<variable, ended, lost>>
  BY DEF Return
<1>2. /\ Good(m, life, variable, lost) /\ life[t] = "live" /\ m \in VmStates /\ life \in Lives
      /\ FramesNest(m, t)
  BY <1>1, RunningFacts DEF TaskInv
<1>3. Free(m, t, Top(m, t) - 1, lost) /\ 1 <= Top(m, t) /\ Top(m, t) \in Nat
  BY <1>1, <1>2, PoppableIsFree, TaskFields
<1>4. Good(s, life, variable, lost) /\ s.frames = m.frames
  BY <1>2, <1>3, DropKeeps
<1>5. x \in Values
  BY <1>2, <1>3, SlotIsValue
<1>6. Len(m.frames[t]) \in Nat /\ m.frames[t] # <<>> /\ m.frames[t] \in Frames
      /\ Frame(t).slots.index \in Nat
  BY <1>2, TaskFields, LocalsAreSlots DEF FramesNest, Frames
<1>7. Len(f) = Len(m.frames[t]) - 1 /\ Len(m.frames[t]) >= 1
  BY <1>6 DEF Front, Frames
<1>8. CASE f = <<>>
  <2> DEFINE k == [life EXCEPT ![t] = "completed"]
  <2>1. m' = Settle(r, t) /\ life' = k
    BY <1>8 DEF Return
  <2>2. Len(s.frames[t]) = 1
    BY <1>4, <1>6, <1>7, <1>8
  <2>3. r = CloseUpvalues(s, t, Last(s.frames[t]).slots.index)
    BY <1>4 DEF Frame
  <2> HIDE DEF s
  <2>4. r.open[t] = <<>>
    BY <1>2, <1>4, <2>2, <2>3, NothingStaysOpen
  <2>5. Good(r, life, variable, lost)
    BY <1>2, <1>4, <1>6, CloseKeeps
  <2> HIDE DEF r
  <2>6. Good(Settle(r, t), k, variable, lost) /\ k \in Lives
    BY <1>2, <2>4, <2>5, SettleKeeps
  <2> HIDE DEF k
  <2> QED
    BY <1>1, <2>1, <2>6, RunningFacts DEF VmInv
<1>9. CASE f # <<>>
  <2>1. life' = life
    BY <1>9 DEF Return
  <2>2. m' = Push(Returned(s, t), t, x)
    <3>1. m' = Push([r EXCEPT !.frames[t] = f,
                              !.handlers[t] = Purge(@, Len(f)),
                              !.stack[t] = SubSeq(@, 1, Frame(t).base.index)], t, x)
      BY <1>9 DEF Return
    <3>2. s.frames[t] = m.frames[t]
      BY <1>4
    <3> HIDE DEF s, x
    <3> QED
      BY <3>1, <3>2 DEF Returned, Frame
  <2>3. Len(s.frames[t]) > 1
    <3>1. Len(m.frames[t]) # 1
      <4>1. f = SubSeq(m.frames[t], 1, Len(m.frames[t]) - 1)
        BY DEF Front
      <4> DEFINE q == m.frames[t]
      <4>2. f # <<>>
        BY <1>9
      <4> HIDE DEF f, q
      <4>3. SubSeq(q, 1, 0) = <<>>
        BY SubSeqEmpty
      <4>4. ASSUME Len(q) = 1 PROVE FALSE
        BY <4>1, <4>2, <4>3, <4>4 DEF q
      <4> QED
        BY <4>4 DEF q
    <3>2. Len(m.frames[t]) >= 1
      BY <1>7
    <3>3. s.frames[t] = m.frames[t]
      BY <1>4
    <3> DEFINE h == Len(m.frames[t])
    <3>4. h \in Nat /\ h # 1 /\ h >= 1 /\ Len(s.frames[t]) = h
      BY <1>6, <3>1, <3>2, <3>3
    <3> HIDE DEF h
    <3>5. h > 1
      BY <3>4
    <3> QED
      BY <3>4, <3>5
  <2> HIDE DEF s, x
  <2>4. Good(Push(Returned(s, t), t, x), life, variable, lost)
    BY <1>2, <1>4, <1>5, <2>3, ReturnKeeps
  <2> QED
    BY <1>1, <2>1, <2>2, <2>4, RunningFacts DEF VmInv
<1> QED
  BY <1>8, <1>9

\* The callee and its arguments, as they go to the stack of a new task.
LEMMA GivenArguments ==
    ASSUME NEW q \in Seq(Values), NEW p \in Nat, p + 1 <= Len(q)
    PROVE  /\ SubSeq(q, Len(q) - p, Len(q)) \in Seq(Values)
           /\ Len(SubSeq(q, Len(q) - p, Len(q))) = p + 1
<1> DEFINE l == Len(q)
           a == l - p
<1>1. l \in Nat /\ a \in 1 .. l /\ a \in Int /\ l \in Int /\ l - a + 1 = p + 1 /\ a <= l
  <2>1. l \in Nat /\ p + 1 <= l
    OBVIOUS
  <2> HIDE DEF l
  <2> QED
    BY <2>1
<1>2. \A i \in a .. l : q[i] \in Values
  <2>1. \A i \in 1 .. l : q[i] \in Values
    OBVIOUS
  <2> HIDE DEF a, l
  <2> QED
    BY <1>1, <2>1
<1> HIDE DEF a, l
<1>3. SubSeq(q, a, l) \in Seq(Values) /\ Len(SubSeq(q, a, l)) = IF a <= l THEN l - a + 1 ELSE 0
  BY <1>1, <1>2, SubSeqProperties
<1>4. SubSeq(q, a, l) \in Seq(Values) /\ Len(SubSeq(q, a, l)) = p + 1
  BY <1>1, <1>3
<1> QED
  BY <1>4 DEF a, l

LEMMA SpawnKeeps ==
    ASSUME VmInv, NEW t \in Tasks, Spawn(t)
    PROVE  VmInv'
<1>1. Running(t) /\ UNCHANGED <<ended, variable, lost>>
  BY DEF Spawn
<1>2. PICK u \in Tasks, n \in 0 .. MaxArgs : \E p \in n .. MaxArgs, method \in BOOLEAN, v \in Values :
         /\ life[u] = "unborn" /\ Poppable(t, n + 1) /\ Room(t, p - n)
         /\ LET r == FillArguments(m, t, n, p)
                q == [Ensure(r, u, p + 1) EXCEPT
                        !.stack[u] = SubSeq(r.stack[t], Top(r, t) - p, Top(r, t))]
            IN  m' = Push(Drop([q EXCEPT !.frames[u] = <<NewFrame(q, u, p, method)>>],
                               t, p + 1), t, v)
         /\ life' = [life EXCEPT ![u] = "live"]
  BY Zenon DEF Spawn
<1>3. PICK p \in n .. MaxArgs, method \in BOOLEAN, v \in Values :
         /\ life[u] = "unborn" /\ Poppable(t, n + 1) /\ Room(t, p - n)
         /\ LET r == FillArguments(m, t, n, p)
                q == [Ensure(r, u, p + 1) EXCEPT
                        !.stack[u] = SubSeq(r.stack[t], Top(r, t) - p, Top(r, t))]
            IN  m' = Push(Drop([q EXCEPT !.frames[u] = <<NewFrame(q, u, p, method)>>],
                               t, p + 1), t, v)
         /\ life' = [life EXCEPT ![u] = "live"]
  BY <1>2, Zenon
<1>4. n \in Nat /\ p \in Nat /\ n <= p /\ n + 1 \in Nat /\ p + 1 \in Nat
  BY StackAssumption
<1>5. Good(m, life, variable, lost) /\ life[t] = "live" /\ m \in VmStates /\ life \in Lives
  BY <1>1, RunningFacts
<1>6. t # u
  BY <1>3, <1>5
<1>7. /\ Free(m, t, Top(m, t) - (n + 1), lost) /\ Top(m, t) - (n + 1) \in Nat /\ n + 1 <= Top(m, t)
      /\ Top(m, t) \in Nat
  BY <1>3, <1>4, <1>5, PoppableIsFree, TaskFields
<1>8. n <= Top(m, t)
  BY <1>4, <1>7
<1> DEFINE r == FillArguments(m, t, n, p)
           e == Ensure(r, u, p + 1)
           sq == SubSeq(r.stack[t], Top(r, t) - p, Top(r, t))
           q == PutStack(e, u, sq)
           b == PutFrames(q, u, FirstFrame(q, u, p, method))
           k == WithLife(life, u, "live")
           x == Top(m, t) - (n + 1)
<1>9. m' = Push(Drop(b, t, p + 1), t, v) /\ life' = k
  BY <1>3 DEF PutStack, PutFrames, FirstFrame, WithLife
<1>10. /\ Good(r, life, variable, lost) /\ Top(r, t) = Top(m, t) - n + p
       /\ \A a \in Tasks, y \in Nat : Free(m, a, y, lost) => Free(r, a, y, lost)
  BY <1>4, <1>5, <1>8, FillKeeps
<1>11. Free(m, t, x, lost) /\ x \in Nat
  BY <1>7
<1>12. x = Top(r, t) - (p + 1) /\ p + 1 <= Top(r, t) /\ Top(r, t) \in Nat
  BY <1>4, <1>7, <1>10
<1> HIDE DEF r, x
<1>13. sq \in Seq(Values) /\ Len(sq) = p + 1
  <2>1. r.stack[t] \in Seq(Values) /\ Top(r, t) = Len(r.stack[t])
    BY <1>10, GoodFacts, TaskFields DEF Top
  <2> QED
    BY <1>4, <1>12, <2>1, GivenArguments
<1>14. Good(e, life, variable, lost) /\ Same(r, e) /\ p + 1 <= e.cap[u]
  BY <1>4, <1>10, EnsureKeeps
<1> HIDE DEF e, sq
<1>15. Top(e, t) = Top(r, t) /\ Free(e, t, x, lost)
  <2>1. r \in VmStates /\ e \in VmStates
    BY <1>10, <1>14, GoodFacts
  <2>2. Free(r, t, x, lost)
    BY <1>10, <1>11
  <2> QED
    BY <1>14, <2>1, <2>2, SameLengths, SameNests
<1>16. /\ Good(b, k, variable, lost) /\ k \in Lives
       /\ \A a \in Tasks : a # u => Top(b, a) = Top(e, a)
       /\ \A a \in Tasks, y \in Nat : a # u /\ Free(e, a, y, lost) => Free(b, a, y, lost)
  <2> HIDE DEF q
  <2>1. q = PutStack(e, u, sq)
    BY DEF q
  <2> QED
    BY <1>3, <1>4, <1>5, <1>13, <1>14, <2>1, BirthKeeps
<1>17. k[t] = "live"
  BY <1>5, <1>6 DEF WithLife, Lives
<1> HIDE DEF b, q, k
<1>18. Top(b, t) = Top(r, t) /\ Free(b, t, x, lost)
  BY <1>6, <1>11, <1>15, <1>16
<1>19. Free(b, t, Top(b, t) - (p + 1), lost)
  BY <1>12, <1>18
<1>20. Good(Drop(b, t, p + 1), k, variable, lost)
  BY <1>4, <1>16, <1>17, <1>19, DropKeeps
<1>21. Good(Push(Drop(b, t, p + 1), t, v), k, variable, lost)
  BY <1>17, <1>20, PushKeeps
<1> QED
  BY <1>1, <1>9, <1>16, <1>21, RunningFacts DEF VmInv

-----------------------------------------------------------------------------
(* The invariant                                                           *)

LEMMA VmStart == Init => VmInv
<1> SUFFICES ASSUME Init PROVE VmInv
  OBVIOUS
<1> DEFINE first == <<[slots |-> Bottom, base |-> Bottom]>>
<1>1. /\ m.stack = [t \in Tasks |-> <<>>]
      /\ m.cap = [t \in Tasks |-> InitialCapacity]
      /\ m.gen = [t \in Tasks |-> 0]
      /\ m.frames = [t \in Tasks |-> IF t = RootTask THEN first ELSE <<>>]
      /\ m.handlers = [t \in Tasks |-> <<>>]
      /\ m.open = [t \in Tasks |-> <<>>]
      /\ m.place = [c \in Cells |-> Own]
      /\ m.closed = [c \in Cells |-> Unset]
      /\ m.used = {}
  BY DEF Init
<1>2. m = [stack |-> m.stack, cap |-> m.cap, gen |-> m.gen, frames |-> m.frames,
           handlers |-> m.handlers, open |-> m.open, place |-> m.place,
           closed |-> m.closed, used |-> m.used]
  BY DEF Init
<1>3. /\ life = [t \in Tasks |-> IF t = RootTask THEN "live" ELSE "unborn"]
      /\ variable = [c \in Cells |-> Unset] /\ ended = "no" /\ lost = {}
  BY DEF Init
<1>4. Bottom \in Pointers /\ Bottom.index = 0 /\ Bottom.gen = 0
  BY DEF Bottom, Pointers
<1>5. /\ first \in Frames /\ Len(first) = 1 /\ DOMAIN first = 1 .. 1
      /\ first[1].slots = Bottom /\ first[1].base = Bottom /\ first # <<>>
  <2> HIDE DEF Bottom
  <2> QED
    BY <1>4 DEF Frames
<1> HIDE DEF first, Init
<1>6. <<>> \in Frames /\ <<>> \in Handlers /\ <<>> \in Seq(Values) /\ <<>> \in Seq(Cells)
  BY DEF Frames, Handlers
<1>7. m \in VmStates
  <2>1. m.stack \in [Tasks -> Seq(Values)]
    BY <1>1, <1>6
  <2>2. m.cap \in [Tasks -> Nat] /\ m.gen \in [Tasks -> Nat]
    BY <1>1, StackAssumption
  <2>3. m.frames \in [Tasks -> Frames]
    BY <1>1, <1>5, <1>6
  <2>4. m.handlers \in [Tasks -> Handlers] /\ m.open \in [Tasks -> Seq(Cells)]
    BY <1>1, <1>6
  <2>5. m.place \in [Cells -> Places]
    BY <1>1 DEF Places
  <2>6. m.closed \in [Cells -> Values] /\ m.used \in SUBSET Cells
    BY <1>1, StackAssumption
  <2>7. m \in [stack : [Tasks -> Seq(Values)], cap : [Tasks -> Nat], gen : [Tasks -> Nat],
               frames : [Tasks -> Frames], handlers : [Tasks -> Handlers],
               open : [Tasks -> Seq(Cells)], place : [Cells -> Places],
               closed : [Cells -> Values], used : SUBSET Cells]
    BY <1>2, <2>1, <2>2, <2>3, <2>4, <2>5, <2>6
  <2> QED
    BY <2>7 DEF VmStates, Frames, Handlers
<1>8. Fits(m)
  <2>1. ASSUME NEW t \in Tasks PROVE Len(m.stack[t]) <= m.cap[t] /\ Len(m.frames[t]) <= MaxFrames
    <3>1. m.stack[t] = <<>> /\ m.cap[t] = InitialCapacity
      BY <1>1
    <3>2. Len(m.stack[t]) = 0
      BY <3>1
    <3>3. Len(m.frames[t]) = 1 \/ Len(m.frames[t]) = 0
      <4>1. m.frames[t] = first \/ m.frames[t] = <<>>
        BY <1>1
      <4> QED
        BY <1>5, <4>1
    <3>4. 0 <= InitialCapacity /\ 0 <= MaxFrames /\ 1 <= MaxFrames
      BY StackAssumption
    <3> QED
      BY <3>1, <3>2, <3>3, <3>4
  <2> QED
    BY <2>1 DEF Fits
<1>9. ASSUME NEW t \in Tasks PROVE IF life[t] = "live" THEN TaskInv(m, t, lost) ELSE Empty(m, t)
  <2>1. m.stack[t] = <<>> /\ m.handlers[t] = <<>> /\ m.open[t] = <<>> /\ m.gen[t] = 0
    BY <1>1
  <2>2. CASE t = RootTask
    <3>1. m.frames[t] = first /\ life[t] = "live" /\ Top(m, t) = 0
      BY <1>1, <1>3, <2>1, <2>2 DEF Top
    <3>2. \A i \in 1 .. 1 : i = 1
      OBVIOUS
    <3>3. FramesNest(m, t)
      BY <1>4, <1>5, <3>1, <3>2 DEF FramesNest
    <3>4. HandlersNest(m, t) /\ OpenInOrder(m, t, lost)
      BY <2>1 DEF HandlersNest, OpenInOrder
    <3>5. Current(m, t)
      BY <1>4, <1>5, <2>1, <3>1, <3>2 DEF Current
    <3> QED
      BY <3>1, <3>3, <3>4, <3>5 DEF TaskInv
  <2>3. CASE t # RootTask
    BY <1>1, <1>3, <2>1, <2>3 DEF Empty
  <2> QED
    BY <2>2, <2>3
<1>10. ASSUME NEW c \in Cells PROVE CellInv(m, life, variable, lost, c)
  BY <1>1 DEF CellInv
<1>11. life \in Lives /\ variable \in Variables
  BY <1>3, StackAssumption DEF Lives, Variables
<1> QED
  BY <1>3, <1>7, <1>8, <1>9, <1>10, <1>11 DEF VmInv, Good

LEMMA VmStep == VmInv /\ [Next]_vars => VmInv'
<1> SUFFICES ASSUME VmInv, [Next]_vars PROVE VmInv'
  OBVIOUS
<1>1. CASE UNCHANGED vars
  BY <1>1 DEF vars, VmInv
<1>2. ASSUME NEW t \in Tasks, Instruction(t) PROVE VmInv'
  <2>1. CASE Constant(t) \/ Operate(t) \/ Pop(t)
    BY <2>1, ConstantKeeps, OperateKeeps, PopKeeps
  <2>2. CASE GetLocal(t) \/ SetLocal(t)
    BY <2>2, GetLocalKeeps, SetLocalKeeps
  <2>3. CASE Closure(t) \/ CloseUpvalue(t) \/ GetUpvalue(t) \/ SetUpvalue(t)
    BY <2>3, ClosureKeeps, CloseUpvalueKeeps, GetUpvalueKeeps, SetUpvalueKeeps
  <2>4. CASE EnterTry(t) \/ LeaveTry(t)
    BY <2>4, EnterTryStep, LeaveTryStep
  <2>5. CASE Throw(t) \/ Rethrow(t) \/ RuntimeError(t)
    BY <2>5, ThrowKeeps, RethrowKeeps, RuntimeErrorKeeps
  <2>6. CASE Call(t) \/ Return(t) \/ Spawn(t)
    BY <2>6, CallKeeps, ReturnStep, SpawnKeeps
  <2> QED
    BY <1>2, <2>1, <2>2, <2>3, <2>4, <2>5, <2>6 DEF Instruction
<1> QED
  BY <1>1, <1>2 DEF Next

LEMMA VmAlways == Spec => []VmInv
  BY VmStart, VmStep, PTL DEF Spec

-----------------------------------------------------------------------------
(* Theorems                                                                *)

LEMMA LiveTasks ==
    ASSUME VmInv, NEW t \in Live
    PROVE  t \in Tasks /\ life[t] = "live" /\ m \in VmStates /\ TaskInv(m, t, lost)
  BY GoodFacts DEF VmInv, Live

LEMMA InvIsWellFormed == VmInv => WellFormed
<1> SUFFICES ASSUME VmInv PROVE WellFormed
  OBVIOUS
<1>1. TypeOK
  BY DEF VmInv, TypeOK, Good, Fits, VmStates, Lives, Variables
<1>2. ASSUME NEW t \in Live
      PROVE  /\ m.frames[t] # <<>>
             /\ \A i \in DOMAIN m.frames[t] :
                   m.frames[t][i].base.index <= m.frames[t][i].slots.index
                     /\ m.frames[t][i].slots.index <= End(t, i)
             /\ \A k \in DOMAIN m.handlers[t] :
                   LET h == m.handlers[t][k] IN
                   /\ h.frame \in DOMAIN m.frames[t]
                   /\ m.frames[t][h.frame].slots.index <= h.level.index
                   /\ h.level.index <= End(t, h.frame)
                   /\ \A j \in 1 .. k - 1 : m.handlers[t][j].frame <= h.frame
                                             /\ m.handlers[t][j].level.index <= h.level.index
  <2>1. t \in Tasks /\ m \in VmStates /\ FramesNest(m, t) /\ HandlersNest(m, t)
    BY <1>2, LiveTasks DEF TaskInv
  <2>2. /\ Len(m.frames[t]) \in Nat /\ DOMAIN m.frames[t] = 1 .. Len(m.frames[t])
        /\ DOMAIN m.handlers[t] = 1 .. Len(m.handlers[t]) /\ Len(m.handlers[t]) \in Nat
    BY <2>1, TaskFields
  <2>3. m.frames[t] # <<>>
    BY <2>1 DEF FramesNest
  <2>4. ASSUME NEW i \in DOMAIN m.frames[t], i # Len(m.frames[t])
        PROVE  i + 1 \in DOMAIN m.frames[t] /\ i < i + 1
    BY <2>2, <2>4
  <2>5. ASSUME NEW i \in DOMAIN m.frames[t]
        PROVE  m.frames[t][i].base.index <= m.frames[t][i].slots.index
                 /\ m.frames[t][i].slots.index <= End(t, i)
    <3>1. m.frames[t][i].base.index <= m.frames[t][i].slots.index /\ m.frames[t][i].slots.index <= Top(m, t)
      BY <2>1 DEF FramesNest
    <3>2. CASE i = Len(m.frames[t])
      BY <3>1, <3>2 DEF End
    <3>3. CASE i # Len(m.frames[t])
      <4>1. m.frames[t][i].slots.index <= m.frames[t][i + 1].base.index
        BY <2>1, <2>4, <3>3 DEF FramesNest
      <4> QED
        BY <3>1, <3>3, <4>1 DEF End
    <3> QED
      BY <3>2, <3>3
  <2>6. ASSUME NEW k \in DOMAIN m.handlers[t]
        PROVE  LET h == m.handlers[t][k] IN
               /\ h.frame \in DOMAIN m.frames[t]
               /\ m.frames[t][h.frame].slots.index <= h.level.index
               /\ h.level.index <= End(t, h.frame)
               /\ \A j \in 1 .. k - 1 : m.handlers[t][j].frame <= h.frame
                                         /\ m.handlers[t][j].level.index <= h.level.index
    <3> DEFINE h == m.handlers[t][k]
    <3>1. /\ h.frame \in DOMAIN m.frames[t] /\ m.frames[t][h.frame].slots.index <= h.level.index
          /\ h.level.index <= Top(m, t)
      BY <2>1 DEF HandlersNest
    <3>2. h.level.index <= End(t, h.frame)
      <4>1. CASE h.frame = Len(m.frames[t])
        BY <3>1, <4>1 DEF End
      <4>2. CASE h.frame # Len(m.frames[t])
        <5>1. h.frame + 1 \in DOMAIN m.frames[t] /\ h.frame < h.frame + 1
          BY <2>4, <3>1, <4>2
        <5>2. \A i \in DOMAIN m.frames[t] : h.frame < i => h.level.index <= m.frames[t][i].base.index
          BY <2>1 DEF HandlersNest
        <5>3. h.level.index <= m.frames[t][h.frame + 1].base.index
          BY <5>1, <5>2
        <5> QED
          BY <4>2, <5>3 DEF End
      <4> QED
        BY <4>1, <4>2
    <3>3. ASSUME NEW j \in 1 .. k - 1
          PROVE  m.handlers[t][j].frame <= h.frame /\ m.handlers[t][j].level.index <= h.level.index
      <4>1. j \in DOMAIN m.handlers[t] /\ j < k
        BY <2>2
      <4> QED
        BY <2>1, <4>1 DEF HandlersNest
    <3> QED
      BY <3>1, <3>2, <3>3, Zenon
  <2> QED
    BY <2>3, <2>5, <2>6
<1> QED
  BY <1>1, <1>2 DEF WellFormed, BlocksNest

\* Growth of a stack in any number of tasks leaves every state of the VM well
\* formed; frames and try blocks nest, so that a return or an exception finds
\* the stack as it was when its frame or block was entered.
THEOREM StacksAreWellFormed == Spec => []WellFormed
  BY VmAlways, InvIsWellFormed, PTL

LEMMA InvIsCurrent == VmInv => PointersAreCurrent
<1> SUFFICES ASSUME VmInv, NEW t \in Live
             PROVE  /\ \A f \in Elements(m.frames[t]) :
                          f.slots.gen = m.gen[t] /\ f.base.gen = m.gen[t]
                    /\ \A h \in Elements(m.handlers[t]) : h.level.gen = m.gen[t]
                    /\ \A c \in Elements(m.open[t]) :
                          m.place[c].task = t /\ m.place[c].gen = m.gen[t]
  BY DEF PointersAreCurrent
<1>1. Current(m, t) /\ OpenInOrder(m, t, lost)
  BY LiveTasks DEF TaskInv
<1>2. \A f \in Elements(m.frames[t]) : f.slots.gen = m.gen[t] /\ f.base.gen = m.gen[t]
  BY <1>1 DEF Elements, Current
<1>3. \A h \in Elements(m.handlers[t]) : h.level.gen = m.gen[t]
  BY <1>1 DEF Elements, Current
<1>4. ASSUME NEW c \in Elements(m.open[t]) PROVE m.place[c].task = t /\ m.place[c].gen = m.gen[t]
  <2>1. PICK k \in DOMAIN m.open[t] : c = m.open[t][k]
    BY DEF Elements
  <2>2. m.place[m.open[t][k]].task = t
    BY <1>1, <2>1 DEF OpenInOrder
  <2>3. m.place[m.open[t][k]].gen = m.gen[t]
    BY <1>1, <2>1 DEF Current
  <2> QED
    BY <2>1, <2>2, <2>3
<1> QED
  BY <1>2, <1>3, <1>4

\* ensureTaskStackCapacity misses no pointer: whatever the tasks do and however
\* often their stacks move, frames, handlers and open upvalues of a live task
\* point into the storage that its stack has.
THEOREM NoPointerDangles == Spec => []PointersAreCurrent
  BY VmAlways, InvIsCurrent, PTL

LEMMA InvOpensLocals == VmInv => OpenUpvaluesAreLocals
<1> SUFFICES ASSUME VmInv PROVE OpenUpvaluesAreLocals
  OBVIOUS
<1>1. ASSUME NEW t \in Live, NEW k \in DOMAIN m.open[t]
      PROVE  /\ m.open[t][k] \in lost \/ m.place[m.open[t][k]].index < Top(m, t)
             /\ \A j \in 1 .. k - 1 :
                   m.place[m.open[t][j]].index > m.place[m.open[t][k]].index
  <2>1. OpenInOrder(m, t, lost) /\ t \in Tasks /\ m \in VmStates
    BY LiveTasks DEF TaskInv
  <2>2. DOMAIN m.open[t] = 1 .. Len(m.open[t]) /\ Len(m.open[t]) \in Nat
    BY <2>1, TaskFields
  <2>3. \A j \in 1 .. k - 1 : j \in DOMAIN m.open[t] /\ j < k
    BY <2>2
  <2>4. m.open[t][k] \in lost \/ m.place[m.open[t][k]].index < Top(m, t)
    BY <2>1 DEF OpenInOrder
  <2>5. \A j \in DOMAIN m.open[t] : j < k => m.place[m.open[t][j]].index > m.place[m.open[t][k]].index
    BY <2>1 DEF OpenInOrder
  <2> QED
    BY <2>3, <2>4, <2>5
<1>2. ASSUME NEW c \in Cells, OnStack(c)
      PROVE  \/ life[m.place[c].task] = "failed"
             \/ life[m.place[c].task] = "live" /\ c \in Elements(m.open[m.place[c].task])
  <2>1. CellInv(m, life, variable, lost, c)
    BY DEF VmInv, Good
  <2> QED
    BY <1>2, <2>1 DEF CellInv, OnStack
<1> QED
  BY <1>1, <1>2 DEF OpenUpvaluesAreLocals

\* captureUpvalue and closeUpvalues keep the list of a task in order and free
\* of what is no longer on its stack, through every return, exception and end;
\* but for the upvalues of slots that compiled code pops without closing them,
\* which stay in the list, in order, until a frame or a scope below them ends.
THEOREM OpenListIsExact == Spec => []OpenUpvaluesAreLocals
  BY VmAlways, InvOpensLocals, PTL

LEMMA InvShares == VmInv => VariablesAreShared
<1> SUFFICES ASSUME VmInv, NEW c \in m.used, c \notin lost
             PROVE  /\ ~OnStack(c) => m.closed[c] = variable[c]
                    /\ OnStack(c) /\ m.place[c].task \in Live =>
                          /\ m.place[c].index < Top(m, m.place[c].task)
                          /\ Slot(m, m.place[c].task, m.place[c].index) = variable[c]
  BY DEF VariablesAreShared
<1>1. Good(m, life, variable, lost) /\ m \in VmStates
  BY DEF VmInv, Good
<1>2. c \in Cells
  BY <1>1, StateFields
<1>3. CellInv(m, life, variable, lost, c)
  BY <1>1, <1>2 DEF Good
<1>4. ~OnStack(c) => m.closed[c] = variable[c]
  BY <1>3 DEF CellInv, OnStack
<1>5. ASSUME OnStack(c), m.place[c].task \in Live
      PROVE  /\ m.place[c].index < Top(m, m.place[c].task)
             /\ Slot(m, m.place[c].task, m.place[c].index) = variable[c]
  BY <1>1, <1>2, <1>5, OpenSlot DEF OnStack, Live
<1> QED
  BY <1>4, <1>5

\* A captured variable has one value for its frame and for all closures, in
\* every task that has one, before and after the frame is left, as long as its
\* slot is not popped while a closure refers to it; such a slot, which other
\* values take, does no harm to the variables of other upvalues.
THEOREM ClosuresShareVariables == Spec => []VariablesAreShared
  BY VmAlways, InvShares, PTL
=============================================================================
