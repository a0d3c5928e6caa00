------------------------------- MODULE VmStack -------------------------------
(***************************************************************************)
(* The operand stacks of tasks and what points into them: the frames, the  *)
(* exception handlers and the open upvalues (src/src/vm.cpp).  The storage *)
(* of a stack moves when it grows; all pointers must move with it, and     *)
(* must go when the part of the stack they point to goes.                  *)
(*                                                                         *)
(* m is the state of the VM as a record; the functions of vm.cpp are       *)
(* operators on it.  A pointer is the generation of the storage it was     *)
(* taken from and the number of slots below it.  Instructions of live      *)
(* tasks interleave freely: a slice may end at any of them.                *)
(***************************************************************************)
EXTENDS Naturals, Sequences, FiniteSets, SequencesExt, FiniteSetsExt

CONSTANTS
    Tasks,
    RootTask,
    NoTask,
    Cells,              \* upvalue objects; bound
    Values,
    Unset,              \* the value of a parameter without argument
    InitialCapacity,    \* INITIAL_STACK_CAPACITY
    MinCapacity,        \* the least capacity that a stack grows to
    MaxSlots,           \* bound: slots of the stack of each task
    MaxFrames,          \* g_maxFrames
    MaxHandlers,        \* bound: exception handlers of each task
    MaxArgs             \* bound: arguments of a call

ASSUME StackAssumption ==
    /\ RootTask \in Tasks
    /\ NoTask \notin Tasks
    /\ IsFiniteSet(Cells)
    /\ Unset \in Values
    /\ InitialCapacity \in Nat \ {0} /\ MinCapacity \in Nat
    /\ MaxFrames \in Nat \ {0} /\ MaxArgs \in Nat
    /\ MaxSlots \in [Tasks -> Nat] /\ MaxHandlers \in [Tasks -> Nat]

VARIABLES
    m,          \* the stacks and the upvalues
    life,       \* of each task: "unborn", "live", "completed", "failed"
    variable,   \* history: the value of the variable that a cell stands for
    lost,       \* history: the cells whose slots were popped while they were open
    ended       \* why the model ends: "no", "moved", "abandoned"

vars == <<m, life, variable, lost, ended>>

Pointers == [gen : Nat, index : Nat]

\* Where the value of an upvalue is: in the object itself, or on a stack.
Own == [task |-> NoTask, gen |-> 0, index |-> 0]
Places == {Own} \cup [task : Tasks, gen : Nat, index : Nat]

TypeOK ==
    /\ m \in [stack : [Tasks -> Seq(Values)], cap : [Tasks -> Nat], gen : [Tasks -> Nat],
              frames : [Tasks -> Seq([slots : Pointers, base : Pointers])],
              handlers : [Tasks -> Seq([frame : Nat, level : Pointers])],
              open : [Tasks -> Seq(Cells)],
              place : [Cells -> Places], closed : [Cells -> Values], used : SUBSET Cells]
    /\ life \in [Tasks -> {"unborn", "live", "completed", "failed"}]
    /\ variable \in [Cells -> Values] /\ lost \in SUBSET Cells
    /\ ended \in {"no", "moved", "abandoned"}
    /\ \A t \in Tasks : Len(m.stack[t]) <= m.cap[t] /\ Len(m.frames[t]) <= MaxFrames

Bottom == [gen |-> 0, index |-> 0]

Init ==
    /\ m = [stack |-> [t \in Tasks |-> <<>>],
            cap |-> [t \in Tasks |-> InitialCapacity],
            gen |-> [t \in Tasks |-> 0],
            frames |-> [t \in Tasks |-> IF t = RootTask THEN <<[slots |-> Bottom, base |-> Bottom]>>
                                       ELSE <<>>],
            handlers |-> [t \in Tasks |-> <<>>],
            open |-> [t \in Tasks |-> <<>>],
            place |-> [c \in Cells |-> Own],
            closed |-> [c \in Cells |-> Unset],
            used |-> {}]
    /\ life = [t \in Tasks |-> IF t = RootTask THEN "live" ELSE "unborn"]
    /\ variable = [c \in Cells |-> Unset] /\ lost = {}
    /\ ended = "no"

-----------------------------------------------------------------------------
(* Functions of the VM on its state s                                      *)

Top(s, t) == Len(s.stack[t])

\* The value of slot i; what is above the top is not followed.
Slot(s, t, i) == IF i < Top(s, t) THEN s.stack[t][i + 1] ELSE Unset

Here(s, t, i) == [gen |-> s.gen[t], index |-> i]
Elements(q) == {q[i] : i \in DOMAIN q}

\* The stack of t has no room for n slots.
Needs(s, t, n) == n > s.cap[t]

Moved(s, p, t) == [p EXCEPT !.gen = s.gen[t] + 1]

MoveFrame(s, f, t) == [slots |-> Moved(s, f.slots, t), base |-> Moved(s, f.base, t)]

\* Mutant: handler records are not moved.
MutMoveHandler(s, h, t) == h

MoveHandler(s, h, t) == [h EXCEPT !.level = Moved(s, @, t)]

MovePlace(s, c, t) ==
    IF c \in Elements(s.open[t]) /\ s.place[c].gen = s.gen[t]
    THEN Moved(s, s.place[c], t)
    ELSE s.place[c]

\* ensureTaskStackCapacity
Ensure(s, t, n) ==
    IF ~Needs(s, t, n) THEN s
    ELSE [s EXCEPT
            !.cap[t] = Max({n, MinCapacity, 2 * s.cap[t]}),
            !.gen[t] = @ + 1,
            !.frames[t] = [i \in DOMAIN @ |-> MoveFrame(s, @[i], t)],
            !.handlers[t] = [i \in DOMAIN @ |-> MoveHandler(s, @[i], t)],
            !.place = [c \in Cells |-> MovePlace(s, c, t)]]

Push(s, t, v) == [Ensure(s, t, Top(s, t) + 1) EXCEPT !.stack[t] = Append(@, v)]

Peek(s, t) == Last(s.stack[t])
Drop(s, t, n) == [s EXCEPT !.stack[t] = SubSeq(@, 1, Len(@) - n)]

\* Mutant: closeUpvalues spares the cell of the slot it is given.
MutAbove(s, c, i) == s.place[c].index > i

Above(s, c, i) == s.place[c].index >= i

\* closeUpvalues: cells are taken from the head of the list, as long as they
\* refer to slot i or one above it.
CloseUpvalues(s, t, i) ==
    LET q    == s.open[t]
        n    == Min({Len(q)} \cup {k - 1 : k \in {k \in DOMAIN q : ~Above(s, q[k], i)}})
        gone == {q[k] : k \in 1 .. n}
    IN  [s EXCEPT
            !.closed = [c \in Cells |-> IF c \in gone THEN Slot(s, t, s.place[c].index) ELSE @[c]],
            !.place = [c \in Cells |-> IF c \in gone THEN Own ELSE @[c]],
            !.open[t] = SubSeq(q, n + 1, Len(q))]

\* Mutant: a local that is captured twice gets two cells.
MutFound(s, t, i) == {}

\* The open cell for slot i, if there is one.
Found(s, t, i) == {c \in Elements(s.open[t]) : s.place[c].index = i}

\* captureUpvalue: slot i of t, with c for a new upvalue if it takes one.
CaptureUpvalue(s, t, i, c) ==
    IF Found(s, t, i) # {} THEN s
    ELSE LET q == s.open[t]
             k == Cardinality({j \in DOMAIN q : s.place[q[j]].index > i})
         IN  [s EXCEPT
                !.open[t] = SubSeq(q, 1, k) \o <<c>> \o SubSeq(q, k + 1, Len(q)),
                !.place[c] = [task |-> t, gen |-> s.gen[t], index |-> i],
                !.used = @ \cup {c}]

\* Mutant: handlers outlive the frames they belong to.
MutPurge(q, n) == q

\* The handlers q without those at the end that belong to frames beyond the
\* first n.
Purge(q, n) == SubSeq(q, 1, Max({0} \cup {i \in DOMAIN q : q[i].frame <= n}))

\* The handlers that can take an exception; those above the last are stale.
Usable(s, t) == {i \in DOMAIN s.handlers[t] : s.handlers[t][i].frame <= Len(s.frames[t])}

\* The lowest slot whose upvalues an exception closes on its way to handler h,
\* frame by frame and then down to the level of the handler.
Lowest(s, t, h) ==
    Min({h.level.index}
          \cup {s.frames[t][i].slots.index : i \in h.frame + 1 .. Len(s.frames[t])})

\* propagateException, with a handler in reach
Catch(s, t, v) ==
    LET k == Max(Usable(s, t))
        h == s.handlers[t][k]
        r == [CloseUpvalues(s, t, Lowest(s, t, h)) EXCEPT
                !.frames[t] = SubSeq(@, 1, h.frame),
                !.handlers[t] = Purge(SubSeq(@, 1, k - 1), h.frame),
                !.stack[t] = SubSeq(@, 1, h.level.index)]
    IN  Push(r, t, v)

\* resolveTask and failTask: the task drops everything, open upvalues included.
Settle(s, t) ==
    [s EXCEPT !.stack[t] = <<>>, !.frames[t] = <<>>, !.handlers[t] = <<>>, !.open[t] = <<>>]

\* rewriteCallSlice: n arguments are made p, the missing ones unset.
FillArguments(s, t, n, p) ==
    [Ensure(s, t, Top(s, t) - n + p) EXCEPT !.stack[t] = @ \o [i \in 1 .. p - n |-> Unset]]

\* The frame of a callee with p arguments on top of the stack; a method finds
\* its receiver in slot 0, where the callee was.
NewFrame(s, t, p, method) ==
    LET base == Top(s, t) - p - 1
    IN  [slots |-> Here(s, t, IF method THEN base ELSE base + 1), base |-> Here(s, t, base)]

-----------------------------------------------------------------------------
(* Instructions                                                            *)

Running(t) == life[t] = "live" /\ ended = "no"
Frame(t) == Last(m.frames[t])
Room(t, n) == Top(m, t) + n <= MaxSlots[t]
Locals(t) == Frame(t).slots.index .. Top(m, t) - 1

\* Compiled code takes n values from the innermost frame and try block.
Within(t, n) ==
    LET rest == Top(m, t) - n
    IN  /\ rest >= Frame(t).slots.index
        /\ \A h \in Elements(m.handlers[t]) :
              h.frame = Len(m.frames[t]) => rest >= h.level.index

\* The open upvalues of slot i and the slots above it.
Captured(t, i) == {c \in Elements(m.open[t]) : m.place[c].index >= i}

\* Operands are temporaries: no closure refers to them, unless its variable was
\* popped and they took the slot.
Poppable(t, n) == Within(t, n) /\ Captured(t, Top(m, t) - n) \subseteq lost

\* Variables are assigned v where slot i of t belongs to them.
Assigned(t, i, v) ==
    variable' = [c \in Cells |-> IF c \in Found(m, t, i) THEN v ELSE variable[c]]

Goes == UNCHANGED <<life, lost, ended>>
EndsAs(why) == ended' = why /\ UNCHANGED <<m, life, variable, lost>>

\* OP_CONSTANT and all that push a new value; a resumption with a value, too.
Constant(t) ==
    /\ Running(t) /\ Room(t, 1)
    /\ \E v \in Values : m' = Push(m, t, v)
    /\ Goes /\ UNCHANGED variable

\* Arithmetic, properties, natives: n values are replaced by one.
Operate(t) ==
    /\ Running(t)
    /\ \E n \in 1 .. MaxArgs + 1, v \in Values :
          /\ Poppable(t, n)
          /\ m' = Push(Drop(m, t, n), t, v)
    /\ Goes /\ UNCHANGED variable

\* OP_POP and all that consume a value.  It ends the scope of locals, too, and
\* does not look whether a closure refers to them: emitScopeCleanup emits it in a
\* break that is read before the closure, and the slots that a failed case of a
\* match leaves shift it to locals that were captured.
Pop(t) ==
    /\ Running(t) /\ Within(t, 1)
    /\ m' = Drop(m, t, 1)
    /\ lost' = lost \cup Captured(t, Top(m, t) - 1)
    /\ UNCHANGED <<life, variable, ended>>

\* push() takes a reference to the slot: when the storage moves, the value is
\* read from where it was.
GetLocal(t) ==
    /\ Running(t) /\ Room(t, 1)
    /\ \E i \in Locals(t) :
          IF Needs(m, t, Top(m, t) + 1)
          THEN EndsAs("moved")
          ELSE m' = Push(m, t, Slot(m, t, i)) /\ Goes /\ UNCHANGED variable

SetLocal(t) ==
    /\ Running(t) /\ Top(m, t) > Frame(t).slots.index
    /\ \E i \in Locals(t) :
          /\ m' = [m EXCEPT !.stack[t][i + 1] = Peek(m, t)]
          /\ Assigned(t, i, Peek(m, t))
    /\ Goes

\* OP_CLOSURE with one local captured; the new closure is pushed.
Closure(t) ==
    /\ Running(t) /\ Room(t, 1)
    /\ \E i \in Locals(t), c \in Cells \ m.used, v \in Values :
          /\ m' = Push(CaptureUpvalue(m, t, i, c), t, v)
          /\ variable' = [variable EXCEPT ![c] = IF Found(m, t, i) = {} THEN Slot(m, t, i) ELSE @]
    /\ Goes

\* OP_CLOSE_UPVALUE, at the end of the scope of a local that some closure
\* refers to, whether it was made or not
CloseUpvalue(t) ==
    /\ Running(t) /\ Within(t, 1)
    /\ m' = Drop(CloseUpvalues(m, t, Top(m, t) - 1), t, 1)
    /\ Goes /\ UNCHANGED variable

OnStack(c) == m.place[c] # Own

\* What a closure finds where the value of c is; of a lost variable it may be
\* anything, the value of another variable or one that is long gone.
Finds(c) ==
    IF c \in lost THEN Values
    ELSE {IF OnStack(c) THEN Slot(m, m.place[c].task, m.place[c].index) ELSE m.closed[c]}

\* A closure that may have been passed to any task reads its variable ...
GetUpvalue(t) ==
    /\ Running(t) /\ Room(t, 1)
    /\ \E c \in m.used :
          LET u == m.place[c].task IN
          CASE OnStack(c) /\ life[u] # "live" -> EndsAs("abandoned")
            [] OnStack(c) /\ u = t /\ Needs(m, t, Top(m, t) + 1) -> EndsAs("moved")
            [] OTHER -> /\ \E v \in Finds(c) : m' = Push(m, t, v)
                        /\ Goes /\ UNCHANGED variable

\* v is written where the value of c is; above the top of the stack nothing that
\* lives is hit.
Stored(c, v) ==
    LET u == m.place[c].task
        i == m.place[c].index
    IN  IF ~OnStack(c) THEN [m EXCEPT !.closed[c] = v]
        ELSE IF i < Top(m, u) THEN [m EXCEPT !.stack[u][i + 1] = v] ELSE m

\* ... or assigns to it.
SetUpvalue(t) ==
    /\ Running(t) /\ Top(m, t) > Frame(t).slots.index
    /\ \E c \in m.used :
          IF OnStack(c) /\ life[m.place[c].task] # "live" THEN EndsAs("abandoned")
          ELSE /\ m' = Stored(c, Peek(m, t))
               /\ variable' = [variable EXCEPT ![c] = Peek(m, t)]
               /\ Goes

EnterTry(t) ==
    /\ Running(t) /\ Len(m.handlers[t]) < MaxHandlers[t]
    /\ m' = [m EXCEPT !.handlers[t] =
                Append(@, [frame |-> Len(m.frames[t]), level |-> Here(m, t, Top(m, t))])]
    /\ Goes /\ UNCHANGED variable

\* OP_POP_EXCEPTION_HANDLER does not look whose the last handler is.
LeaveTry(t) ==
    /\ Running(t) /\ m.handlers[t] # <<>>
    /\ m' = [m EXCEPT !.handlers[t] = Front(@)]
    /\ Goes /\ UNCHANGED variable

\* The exception v in task t, when the VM is in state s.
Raise(s, t, v) ==
    /\ IF Usable(s, t) # {}
       THEN m' = Catch(s, t, v) /\ UNCHANGED life
       ELSE m' = Settle(s, t) /\ life' = [life EXCEPT ![t] = "failed"]
    /\ UNCHANGED <<variable, lost, ended>>

Throw(t) == Running(t) /\ Poppable(t, 1) /\ Raise(Drop(m, t, 1), t, Peek(m, t))

\* An awaited task has failed.
Rethrow(t) == Running(t) /\ Room(t, 1) /\ \E v \in Values : Raise(m, t, v)

\* runtimeError, which any instruction may find a reason for
RuntimeError(t) ==
    /\ Running(t)
    /\ m' = Settle(m, t)
    /\ life' = [life EXCEPT ![t] = "failed"]
    /\ UNCHANGED <<variable, lost, ended>>

\* n arguments are given for p parameters; the callee is below them.
Call(t) ==
    /\ Running(t) /\ Len(m.frames[t]) < MaxFrames
    /\ \E n \in 0 .. MaxArgs : \E p \in n .. MaxArgs, method \in BOOLEAN :
          /\ Poppable(t, n + 1) /\ Room(t, p - n)
          /\ LET r == FillArguments(m, t, n, p)
             IN  m' = [r EXCEPT !.frames[t] = Append(@, NewFrame(r, t, p, method))]
    /\ Goes /\ UNCHANGED variable

Return(t) ==
    LET v == Peek(m, t)
        r == CloseUpvalues(Drop(m, t, 1), t, Frame(t).slots.index)
        f == Front(m.frames[t])
    IN  /\ Running(t) /\ Poppable(t, 1)
        /\ IF f = <<>>
           THEN m' = Settle(r, t) /\ life' = [life EXCEPT ![t] = "completed"]
           ELSE /\ m' = Push([r EXCEPT !.frames[t] = f,
                                       !.handlers[t] = Purge(@, Len(f)),
                                       !.stack[t] = SubSeq(@, 1, Frame(t).base.index)], t, v)
                /\ UNCHANGED life
        /\ UNCHANGED <<variable, lost, ended>>

\* createAsyncClosureTask, createAsyncBoundMethodTask: callee and arguments are
\* copied to the stack of the new task and replaced by its handle.
Spawn(t) ==
    /\ Running(t)
    /\ \E u \in Tasks, n \in 0 .. MaxArgs : \E p \in n .. MaxArgs, method \in BOOLEAN, v \in Values :
          /\ life[u] = "unborn" /\ Poppable(t, n + 1) /\ Room(t, p - n)
          /\ LET r == FillArguments(m, t, n, p)
                 q == [Ensure(r, u, p + 1) EXCEPT
                         !.stack[u] = SubSeq(r.stack[t], Top(r, t) - p, Top(r, t))]
             IN  m' = Push(Drop([q EXCEPT !.frames[u] = <<NewFrame(q, u, p, method)>>],
                                t, p + 1), t, v)
          /\ life' = [life EXCEPT ![u] = "live"]
    /\ UNCHANGED <<variable, lost, ended>>

Instruction(t) ==
    \/ Constant(t) \/ Operate(t) \/ Pop(t) \/ GetLocal(t) \/ SetLocal(t)
    \/ Closure(t) \/ CloseUpvalue(t) \/ GetUpvalue(t) \/ SetUpvalue(t)
    \/ EnterTry(t) \/ LeaveTry(t) \/ Throw(t) \/ Rethrow(t) \/ RuntimeError(t)
    \/ Call(t) \/ Return(t) \/ Spawn(t)

Next == \E t \in Tasks : Instruction(t)

Spec == Init /\ [][Next]_vars
-----------------------------------------------------------------------------
(* Properties                                                              *)

Live == {t \in Tasks : life[t] = "live"}

\* However often the storage moved, every pointer into it is to where it is.
PointersAreCurrent ==
    \A t \in Live :
        /\ \A f \in Elements(m.frames[t]) :
              f.slots.gen = m.gen[t] /\ f.base.gen = m.gen[t]
        /\ \A h \in Elements(m.handlers[t]) : h.level.gen = m.gen[t]
        /\ \A c \in Elements(m.open[t]) : m.place[c].task = t /\ m.place[c].gen = m.gen[t]

\* Where the part of the stack that belongs to frame i of t ends.
End(t, i) == IF i = Len(m.frames[t]) THEN Top(m, t) ELSE m.frames[t][i + 1].base.index

\* Frames and the try blocks in them nest: an exception or a return finds the
\* stack as it was, and no handler outlives its frame.
BlocksNest ==
    \A t \in Live :
        /\ m.frames[t] # <<>>
        /\ \A i \in DOMAIN m.frames[t] :
              m.frames[t][i].base.index <= m.frames[t][i].slots.index
                /\ m.frames[t][i].slots.index <= End(t, i)
        /\ \A k \in DOMAIN m.handlers[t] :
              LET h == m.handlers[t][k] IN
              /\ h.frame \in DOMAIN m.frames[t]
              /\ m.frames[t][h.frame].slots.index <= h.level.index
              /\ h.level.index <= End(t, h.frame)
              /\ \A j \in 1 .. k - 1 : m.handlers[t][j].frame <= h.frame
                                        /\ m.handlers[t][j].level.index <= h.level.index

\* The state is well formed, and frames and try blocks nest.
WellFormed == TypeOK /\ BlocksNest

\* The open upvalues of a task are in the order in which they will be closed,
\* one for each slot, and those of a task that has completed are all closed; only
\* a task that failed leaves any behind.  Each is of a local that is still there,
\* unless the slot was popped without closing it: such an upvalue stays in the
\* list until a scope or a frame below it ends, and disturbs no other.
OpenUpvaluesAreLocals ==
    /\ \A t \in Live : \A k \in DOMAIN m.open[t] :
          /\ m.open[t][k] \in lost \/ m.place[m.open[t][k]].index < Top(m, t)
          /\ \A j \in 1 .. k - 1 : m.place[m.open[t][j]].index > m.place[m.open[t][k]].index
    /\ \A c \in Cells : OnStack(c) =>
          \/ life[m.place[c].task] = "failed"
          \/ life[m.place[c].task] = "live" /\ c \in Elements(m.open[m.place[c].task])

\* The frame and all closures that captured a variable see one value, before
\* and after its frame is left by a return or an exception, unless the slot of
\* that variable was popped while a closure referred to it: what happens to one
\* variable so does not reach another.
VariablesAreShared ==
    \A c \in m.used \ lost :
        /\ ~OnStack(c) => m.closed[c] = variable[c]
        /\ OnStack(c) /\ m.place[c].task \in Live =>
              /\ m.place[c].index < Top(m, m.place[c].task)
              /\ Slot(m, m.place[c].task, m.place[c].index) = variable[c]

\* README.md:21, "dynamic stack scaling": growth is invisible to programs.
GrowthIsInvisible == ended # "moved"
=============================================================================
