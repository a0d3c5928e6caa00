------------------------------- MODULE Scopes --------------------------------
(***************************************************************************)
(* Variables: how the compiler turns names into stack slots and upvalues   *)
(* (src/compiler.cpp), and what the code it writes does with the stack     *)
(* (VM::runTaskSlice).                                                     *)
(*                                                                         *)
(* The compiler keeps a list of the locals of each function it is in, and  *)
(* takes the position in that list for the slot of the local at run time.  *)
(* Locals that go out of scope are popped, or closed if a closure has      *)
(* captured them by then; so are those that a break or continue leaves.    *)
(*                                                                         *)
(* A behaviour is one function, read statement by statement, whose code is *)
(* then run once with branches taken in any way.  Names are numbered by    *)
(* their first occurrence, variables by the statements that declare them.  *)
(* Slots and positions are counted from 1.                                 *)
(***************************************************************************)
EXTENDS Integers, Sequences, SequencesExt

CONSTANTS
    MaxNames,  \* bounds on a function: its names,
    MaxText,   \* its statements,
    MaxFns,    \* the depth of functions in it,
    MaxSlots   \* and the height of its stack

ASSUME BoundsAssumption == MaxNames \in Nat

VARIABLES
    blocks,  \* the constructs that are open, with what each declares: the reference
    fns,     \* the compilers of the functions that are open, outermost first
    text,    \* what was read: [length, names]
    status,  \* "compile", "refused" or "run"
    late,    \* history: a closure captured a loop variable after a break
    body,    \* the code that is run
    vm       \* the stack machine: [pc, stack, open, leaked]

scopeVars == <<blocks, fns, text, status, late, body, vm>>

-----------------------------------------------------------------------------
(* What a name means: the variable of the innermost construct around that  *)
(* declares it.                                                            *)

NoName == 0

Temp == 0   \* no variable: a value on the stack, or a global

Greatest(S) == Max({0} \union S)

Meaning(n) ==
    LET d == Greatest({d \in DOMAIN blocks : n \in DOMAIN blocks[d].decls})
    IN  IF d = 0 THEN Temp ELSE blocks[d].decls[n]

Declared(n) == n \in DOMAIN Last(blocks).decls

(* The variables of functions whose end is not reached. *)
Unfinished == {blocks[d].self : d \in {d \in DOMAIN blocks : blocks[d].kind = "fn"}} \ {Temp}

NoDecls == [n \in {} |-> Temp]

Block(kind) == [kind |-> kind, decls |-> NoDecls]

Function(v) == [kind |-> "fn", decls |-> NoDecls, self |-> v]

-----------------------------------------------------------------------------
(* The compiler c of a function. *)

Uninitialized == -1

NewCompiler == [locals |-> <<>>, upvalues |-> <<>>, scopeDepth |-> 1, params |-> <<>>, code |-> <<>>]

Emit(c, instructions) == [c EXCEPT !.code = @ \o instructions]

End(c) == Len(c.code) + 1

PushOf(v) == [op |-> "push", var |-> v]

Pop == [op |-> "pop"]

Jump(to) == [op |-> "jump", to |-> to]

(* A conditional jump.  Where a pattern fails, it leaves values behind. *)
Branch(to, leaves) == [op |-> "branch", to |-> to, leaves |-> leaves]

Patch(c, jumps, to) ==
    [c EXCEPT !.code = [i \in DOMAIN @ |-> IF i \in jumps THEN [@[i] EXCEPT !.to = to] ELSE @[i]]]

AddLocal(c, n, v) ==
    [c EXCEPT !.locals =
        Append(@, [name |-> n, var |-> v, depth |-> Uninitialized, captured |-> FALSE])]

MarkInitialized(c) == [c EXCEPT !.locals[Len(c.locals)].depth = c.scopeDepth]

(* addLocal finds the name among the locals of the scope. *)
Clashes(c, n) ==
    \E i \in DOMAIN c.locals :
        /\ c.locals[i].name = n
        /\ \A k \in i .. Len(c.locals) : c.locals[k].depth \notin 0 .. c.scopeDepth - 1

BeginScope(c) == [c EXCEPT !.scopeDepth = @ + 1]

(* The number of locals that are not in scopes deeper than d. *)
Kept(c, d) == Greatest({i \in DOMAIN c.locals : c.locals[i].depth <= d})

MutDiscard(local) == Pop

Discard(local) == IF local.captured THEN [op |-> "close"] ELSE Pop

(* emitScopeCleanup: code that leaves the scopes deeper than d. *)
Cleanup(c, d) == [i \in 1 .. Len(c.locals) - Kept(c, d) |-> Discard(Reverse(c.locals)[i])]

EndScope(c) ==
    LET d == c.scopeDepth - 1
    IN  [Emit(c, Cleanup(c, d)) EXCEPT !.scopeDepth = d, !.locals = SubSeq(@, 1, Kept(c, d))]

-----------------------------------------------------------------------------
(* Resolution, by the compilers f of the open functions. *)

MutFindLocal(c, n) ==
    LET found == {i \in DOMAIN c.locals : c.locals[i].name = n}
    IN  IF found = {} THEN 0 ELSE Min(found)

(* resolveLocal *)
FindLocal(c, n) == Greatest({i \in DOMAIN c.locals : c.locals[i].name = n})

(* The function whose local the name is: the last, or the nearest around.  *)
Holder(f, n) == Greatest({k \in DOMAIN f : FindLocal(f[k], n) # 0})

Local(f, n) == f[Holder(f, n)].locals[FindLocal(f[Holder(f, n)], n)]

(* "Cannot read a local variable in its own initializer." *)
Refuses(f, n) == Holder(f, n) # 0 /\ Local(f, n).depth = Uninitialized

(* addUpvalue: an equal one is taken again. *)
UpvalueIndex(c, u) ==
    LET same == {i \in DOMAIN c.upvalues : c.upvalues[i] = u}
    IN  IF same = {} THEN Len(c.upvalues) + 1 ELSE Min(same)

AddUpvalue(c, u) ==
    IF UpvalueIndex(c, u) \in DOMAIN c.upvalues THEN c ELSE [c EXCEPT !.upvalues = Append(@, u)]

(* resolveUpvalue: the descriptors by which the functions after k, one in  *)
(* another, reach the local i of function k.                               *)
Upvalues(f, k, i) ==
    LET u[l \in k + 1 .. Len(f)] ==
            IF l = k + 1 THEN [index |-> i, isLocal |-> TRUE]
            ELSE [index |-> UpvalueIndex(f[l - 1], u[l - 1]), isLocal |-> FALSE]
    IN  u

Capture(f, k, i) ==
    [l \in DOMAIN f |->
        CASE l < k -> f[l]
          [] l = k -> [f[l] EXCEPT !.locals[i].captured = TRUE]
          [] l > k -> AddUpvalue(f[l], Upvalues(f, k, i)[l])]

(* namedVariable *)
Read(f, n) ==
    LET k == Holder(f, n)
        i == FindLocal(f[k], n)
        top == Len(f)
        Get(g, op, at) ==
            [g EXCEPT ![top] = Emit(@, <<[op |-> op, at |-> at, var |-> Meaning(n)]>>)]
    IN  CASE k = 0 -> f
          [] k = top -> Get(f, "get", i)
          [] OTHER -> Get(Capture(f, k, i), "upvalue", UpvalueIndex(f[top], Upvalues(f, k, i)[top]))

-----------------------------------------------------------------------------
(* Statements. *)

Current == Last(fns)

Var == text.length + 1   \* the variable that the statement declares

Reads(n) ==
    /\ status = "compile"
    /\ text.length < MaxText
    /\ text' = [length |-> text.length + 1, names |-> Max({text.names, n})]
    /\ UNCHANGED <<body, vm>>

ReadsStatement(n) == Reads(n) /\ Last(blocks).kind # "match"

Closes(kind) ==
    /\ status = "compile"
    /\ Last(blocks).kind = kind
    /\ UNCHANGED <<text, status, late, body, vm>>

Compile(c) == fns' = [fns EXCEPT ![Len(fns)] = c]

Open(construct) == blocks' = Append(blocks, construct) /\ UNCHANGED <<status, late>>

With(decls, n) == [m \in DOMAIN decls \union {n} |-> IF m = n THEN Var ELSE decls[m]]

Declare(n) == [blocks EXCEPT ![Len(blocks)].decls = With(@, n)]

(* A break has popped the loop variable before a closure captures it. *)
Overdue(n) ==
    /\ Holder(fns, n) # Len(fns)
    /\ \E d \in DOMAIN blocks :
          blocks[d].kind = "loop" /\ blocks[d].left /\ blocks[d].own = Meaning(n)

Use(n) ==
    /\ ReadsStatement(n)
    /\ status' = IF Refuses(fns, n) THEN "refused" ELSE status
    /\ fns' = IF Refuses(fns, n) THEN fns ELSE Read(fns, n)
    /\ late' = (late \/ Overdue(n))
    /\ blocks' = blocks

(* An initializer that reads another name is a Use before it.  A scope     *)
(* that has the name already is an error, which is left out.               *)
Let(n) ==
    /\ ReadsStatement(n) /\ ~Declared(n)
    /\ Compile(MarkInitialized(Emit(AddLocal(Current, n, Var), <<PushOf(Var)>>)))
    /\ blocks' = Declare(n)
    /\ UNCHANGED <<status, late>>

BeginFn(n) ==
    /\ ReadsStatement(n) /\ ~Declared(n)
    /\ Len(fns) < MaxFns
    /\ fns' = Append([fns EXCEPT ![Len(fns)] = AddLocal(@, n, Var)], NewCompiler)
    /\ blocks' = Append(Declare(n), Function(Var))
    /\ UNCHANGED <<status, late>>

Param(n) ==
    /\ ReadsStatement(n) /\ ~Declared(n)
    /\ Last(blocks).kind = "fn" /\ Current.code = <<>>
    /\ Compile([MarkInitialized(AddLocal(Current, n, Var)) EXCEPT !.params = Append(@, Var)])
    /\ blocks' = Declare(n)
    /\ UNCHANGED <<status, late>>

(* The locals of the function e that a closure of c captures. *)
Captured(c, e) ==
    {[at |-> u.index, var |-> e.locals[u.index].var] : u \in {u \in ToSet(c.upvalues) : u.isLocal}}

EndFn ==
    LET e == fns[Len(fns) - 1]
        closure == [op |-> "closure", var |-> Last(blocks).self, captures |-> Captured(Current, e)]
    IN  /\ Closes("fn") /\ Len(fns) > 1
        /\ fns' = [Front(fns) EXCEPT ![Len(fns) - 1] = MarkInitialized(Emit(e, <<closure>>))]
        /\ blocks' = Front(blocks)

BeginBlock ==
    /\ ReadsStatement(NoName)
    /\ Compile(BeginScope(Current))
    /\ Open(Block("block"))

EndBlock ==
    /\ Closes("block")
    /\ Compile(EndScope(Current))
    /\ blocks' = Front(blocks)

(* The body of a loop is a block, and at its beginning the loop may end. *)
Loop(c, breakDepth, own) ==
    [kind |-> "loop", decls |-> NoDecls, start |-> End(c),
     breakDepth |-> breakDepth, continueDepth |-> c.scopeDepth, breaks |-> {}, own |-> own, left |-> FALSE]

BeginBody(c) == BeginScope(Emit(c, <<Branch(0, 0)>>))

BeginWhile ==
    /\ ReadsStatement(NoName)
    /\ Compile(BeginBody(Current))
    /\ Open(Loop(Current, Current.scopeDepth, Temp))

(* Its increment, at which the next round and a continue go on, declares   *)
(* nothing and is left out.                                                *)
BeginFor(n) ==
    LET c == MarkInitialized(Emit(AddLocal(BeginScope(Current), n, Var), <<PushOf(Var)>>))
    IN  /\ ReadsStatement(n)
        /\ Compile(BeginBody(c))
        /\ blocks' = blocks \o <<[kind |-> "for", decls |-> With(NoDecls, n)], Loop(c, Current.scopeDepth, Var)>>
        /\ UNCHANGED <<status, late>>

EndLoop ==
    LET loop == Last(blocks)
        c == Emit(EndScope(Current), <<Jump(loop.start)>>)
        exit == Patch(c, {loop.start}, End(c))
        out == IF loop.own = Temp THEN exit ELSE EndScope(exit)
    IN  /\ Closes("loop")
        /\ Compile(Patch(out, loop.breaks, End(out)))
        /\ blocks' = IF loop.own = Temp THEN Front(blocks) ELSE Front(Front(blocks))

(* A break or continue that stands in an if, in a loop of its function. *)
Leave(kind) ==
    LET d == Greatest({d \in DOMAIN blocks : blocks[d].kind = "loop"})
        loop == blocks[d]
        break == kind = "break"
        cleanup == Cleanup(Current, IF break THEN loop.breakDepth ELSE loop.continueDepth)
        jump == End(Current) + 1 + Len(cleanup)
        popsOwn == \E x \in ToSet(Current.locals) : x.var = loop.own /\ x.var # Temp /\ ~x.captured
    IN  /\ ReadsStatement(NoName)
        /\ d # 0 /\ \A k \in d .. Len(blocks) : blocks[k].kind # "fn"
        /\ Compile(Emit(Current, <<Branch(jump + 1, 0)>> \o cleanup \o
                             <<Jump(IF break THEN 0 ELSE loop.start)>>))
        /\ blocks' = IF break
                     THEN [blocks EXCEPT ![d].breaks = @ \union {jump}, ![d].left = @ \/ popsOwn]
                     ELSE blocks
        /\ UNCHANGED <<status, late>>

(* match, and switch, whose cases are values. *)
BeginMatch ==
    /\ ReadsStatement(NoName)
    /\ Compile(MarkInitialized(Emit(AddLocal(BeginScope(Current), NoName, Temp), <<PushOf(Temp)>>)))
    /\ Open([kind |-> "match", decls |-> NoDecls, ends |-> {}])

(* A pattern is a value, a name, or an array of one of these.  The test of *)
(* an array puts its element on the stack; a test that fails jumps away    *)
(* and leaves what is there, the variable of the pattern included.         *)
Test(array, bound) ==
    CASE array /\ bound  -> <<Branch(0, 1), PushOf(Temp), Pop>>
      [] array /\ ~bound -> <<Branch(0, 0), PushOf(Temp), Branch(0, 1), Pop>>
      [] ~array /\ bound -> <<>>
      [] OTHER           -> <<Branch(0, 0)>>

BeginCase(array, n) ==
    LET bound == n # NoName
        c == BeginScope(Current)
        d == IF bound THEN Emit(AddLocal(c, n, Var), <<PushOf(Var)>>) ELSE c
        t == Emit(d, Test(array, bound))
        case == [kind |-> "case", decls |-> IF bound THEN With(NoDecls, n) ELSE NoDecls,
                 fails |-> {i \in End(d) .. End(t) - 1 : t.code[i].op = "branch"}]
    IN  /\ Reads(n) /\ Last(blocks).kind = "match"
        /\ Compile(IF bound THEN MarkInitialized(t) ELSE t)
        /\ Open(case)

EndCase ==
    LET c == EndScope(Current)
        j == Emit(c, <<Jump(0)>>)
    IN  /\ Closes("case")
        /\ Compile(Patch(j, Last(blocks).fails, End(j)))
        /\ blocks' = [Front(blocks) EXCEPT ![Len(blocks) - 1].ends = @ \union {End(c)}]

EndMatch ==
    /\ Closes("match")
    /\ Compile(EndScope(Patch(Current, Last(blocks).ends, End(Current))))
    /\ blocks' = Front(blocks)

-----------------------------------------------------------------------------
(* The function is called. *)

Call ==
    /\ status = "compile" /\ Len(blocks) = 1
    /\ status' = "run"
    /\ body' = Current.code
    /\ vm' = [pc |-> 1, stack |-> Current.params, open |-> {}, leaked |-> FALSE]
    /\ fns' = <<>> /\ blocks' = <<>> /\ text' = [length |-> 0, names |-> 0]
    /\ late' = late

(* captureUpvalue, of what the new closure captures. *)
NowOpen(i) == vm.open \union {x.at : x \in i.captures}

(* closeUpvalues, from the top of the stack on. *)
StillOpen == {s \in vm.open : s < Len(vm.stack)}

(* What the machine may be after instruction i. *)
After(i) ==
    LET next == [vm EXCEPT !.pc = @ + 1]
    IN  CASE i.op = "push"    -> {[next EXCEPT !.stack = Append(@, i.var)]}
          [] i.op = "pop"     -> {[next EXCEPT !.stack = Front(@)]}
          [] i.op = "close"   -> {[next EXCEPT !.stack = Front(@), !.open = StillOpen]}
          [] i.op = "closure" -> {[next EXCEPT !.stack = Append(@, i.var), !.open = NowOpen(i)]}
          [] i.op = "jump"    -> {[vm EXCEPT !.pc = i.to]}
          [] i.op = "branch"  -> {next, [vm EXCEPT !.pc = i.to, !.leaked = @ \/ i.leaves > 0]}
          [] OTHER            -> {next}

Execute ==
    /\ status = "run" /\ vm.pc \in DOMAIN body
    /\ Len(vm.stack) < MaxSlots
    /\ vm' \in After(body[vm.pc])
    /\ UNCHANGED <<blocks, fns, text, status, late, body>>

ScopesInit ==
    /\ blocks = <<Function(Temp)>>
    /\ fns = <<NewCompiler>>
    /\ text = [length |-> 0, names |-> 0]
    /\ status = "compile"
    /\ late = FALSE
    /\ body = <<>>
    /\ vm = [pc |-> 0, stack |-> <<>>, open |-> {}, leaked |-> FALSE]

Known == 1 .. Min({text.names + 1, MaxNames})

ScopesNext ==
    \/ \E n \in Known : Use(n) \/ Let(n) \/ BeginFn(n) \/ Param(n) \/ BeginFor(n)
    \/ EndFn \/ BeginBlock \/ EndBlock
    \/ BeginWhile \/ EndLoop \/ Leave("break") \/ Leave("continue")
    \/ BeginMatch \/ EndCase \/ EndMatch
    \/ \E array \in BOOLEAN, n \in Known \union {NoName} : BeginCase(array, n)
    \/ Call \/ Execute

ScopesSpec == ScopesInit /\ [][ScopesNext]_scopeVars

-----------------------------------------------------------------------------
ScopesTypeOK ==
    /\ text.length \in 0 .. MaxText /\ text.names \in 0 .. MaxNames
    /\ status \in {"compile", "refused", "run"}
    /\ \A d \in DOMAIN blocks :
           blocks[d].kind \in {"fn", "block", "for", "loop", "match", "case"}
    /\ \A k \in DOMAIN fns : \A u \in ToSet(fns[k].upvalues) :
           k > 1 /\ u.index \in DOMAIN (IF u.isLocal THEN fns[k - 1].locals ELSE fns[k - 1].upvalues)
    /\ ToSet(vm.stack) \subseteq Temp .. MaxText

(* The variable that upvalue i of function k stands for. *)
Denoted(k, i) ==
    LET denoted[l \in 1 .. k] ==
            [j \in DOMAIN fns[l].upvalues |->
                LET u == fns[l].upvalues[j]
                IN  IF u.isLocal THEN fns[l - 1].locals[u.index].var ELSE denoted[l - 1][u.index]]
    IN  denoted[k][i]

Holds(x) == x.at \in DOMAIN vm.stack /\ vm.stack[x.at] = x.var

(* At every point of a function a name is resolved to the variable of the  *)
(* innermost scope that declares it, through any number of functions, and  *)
(* refused if that is declared and unfinished (namedVariable,              *)
(* resolveLocal, resolveUpvalue).                                          *)
NamesAreResolved ==
    status = "compile" =>
        /\ \A n \in 1 .. MaxNames :
               /\ Last(blocks).kind # "match" => (Clashes(Current, n) <=> Declared(n))
               /\ Refuses(fns, n) <=> Meaning(n) \in Unfinished
               /\ (IF Holder(fns, n) = 0 THEN Temp ELSE Local(fns, n).var) = Meaning(n)
        /\ \A k \in DOMAIN fns : \A i \in ToSet(fns[k].code) :
               i.op = "upvalue" => Denoted(k, i.at) = i.var

(* "Degiskenler blok kapsamlidir (lexical scoping)" (language.md:26), and  *)
(* match has "literal/path/array/object patterns" (process.md:22): when    *)
(* the code runs, the slots that it reads and captures hold the variables  *)
(* that are meant.  They do not after a case with a binding or a nested    *)
(* pattern has failed, which leaves its slots on the stack (matchStatement,*)
(* patchPatternFailJumps).                                                 *)
SlotsHoldTheirVariables ==
    status = "run" /\ vm.pc \in DOMAIN body =>
        LET i == body[vm.pc]
        IN  /\ i.op = "get" => Holds(i)
            /\ i.op = "closure" => \A x \in i.captures : Holds(x)

(* A name means the variable of the innermost scope that declares it, when *)
(* it is compiled and when it is run, as long as no case of a match with a *)
(* binding or nested pattern has failed (namedVariable, resolveUpvalue,    *)
(* endScope, emitScopeCleanup).                                            *)
NamesMeanTheirVariables == NamesAreResolved /\ (vm.leaked \/ SlotsHoldTheirVariables)

(* No open upvalue points above the top of the stack ("closures / nested   *)
(* functions / upvalues", process.md:25).  It does when a break is read    *)
(* before the closure that captures the variable of its loop, which it     *)
(* pops without closing it (emitScopeCleanup).                             *)
OpenSlotsExist == vm.open \subseteq DOMAIN vm.stack

(* A slot is closed, not popped, once a closure has captured it, on every  *)
(* way out of its scope, unless that way is a break that the compiler has  *)
(* read before the closure, or a case of a match has failed as above       *)
(* (endScope, emitScopeCleanup).                                           *)
CapturedAreClosed == late \/ vm.leaked \/ OpenSlotsExist
=============================================================================
