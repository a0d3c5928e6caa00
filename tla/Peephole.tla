------------------------------ MODULE Peephole ------------------------------
(***************************************************************************)
(* The optimizer's first two levels (src/optimizer.cpp): optimizeChunk     *)
(* folds constants and removes pushes that are popped at once, and         *)
(* optimizeChunkO2 shortens chains of jumps and removes branches on        *)
(* constants.  Both overwrite instructions in place and leave OP_NOPs.     *)
(*                                                                         *)
(* A behaviour is one chunk, written as the compiler writes it (emitByte,  *)
(* emitJump, patchJump), with the stack equally high on all ways to an     *)
(* instruction; then the optimizer's passes.  Code is a sequence of cells, *)
(* one for each byte, those of operands being Operand.  Jumps are          *)
(* relative.  Left out: loops, handlers, and opcodes that fold like these. *)
(***************************************************************************)
EXTENDS Integers, Sequences, FiniteSetsExt

CONSTANTS
    MaxCode,   \* bound on the instructions of a chunk
    MaxJumps,  \* bound on its jumps
    MaxStack   \* bound on the height of its stack

VARIABLES
    code,    \* the chunk
    source,  \* the chunk as it was before the optimizer saw it
    asm,     \* the compiler: [height, dead, count, open]
    pass,    \* the optimizer: [stage, at, again]
    unsafe   \* history: a jump led to a NOP of a rewriting, or a branch was removed

vars == <<code, source, asm, pass, unsafe>>

Op(name) == [op |-> name]

Operand == Op("operand")

Nop == Op("NOP")

(* Values: numbers, and two that are none. *)
True == -1
False == -2
Inputs == {True, False}

IsNumber(v) == v >= 0

Push(v) ==
    CASE v = True  -> <<[op |-> "TRUE", value |-> v]>>
      [] v = False -> <<[op |-> "FALSE", value |-> v]>>
      [] OTHER     -> <<[op |-> "CONSTANT", value |-> v], Operand>>

Negation(v) == IF v = False THEN True ELSE False

-----------------------------------------------------------------------------
(* The compiler. *)

Emit(cells, height) ==
    /\ pass.stage = "compile" /\ ~asm.dead
    /\ asm.count < MaxCode /\ height \in 0 .. MaxStack
    /\ code' = code \o cells
    /\ asm' = [asm EXCEPT !.height = height, !.count = @ + 1]
    /\ UNCHANGED <<source, pass, unsafe>>

EmitPush ==
    \/ \E v \in {True, 1} : Emit(Push(v), asm.height + 1)
    \/ Emit(<<Op("GET_GLOBAL"), Operand>>, asm.height + 1)

EmitUse ==
    \/ Emit(<<Op("POP")>>, asm.height - 1)
    \/ asm.height >= 1 /\ Emit(<<Op("NOT")>>, asm.height)
    \/ asm.height >= 2 /\ Emit(<<Op("ADD")>>, asm.height - 1)

(* The code after OP_JUMP is reached by another jump only. *)
EmitJump(name) ==
    /\ pass.stage = "compile" /\ ~asm.dead
    /\ asm.count < MaxCode /\ Cardinality({j \in DOMAIN code : "by" \in DOMAIN code[j]}) < MaxJumps
    /\ name = "JUMP_IF_FALSE" => asm.height >= 1
    /\ code' = code \o <<[op |-> name, by |-> 0], Operand, Operand>>
    /\ asm' = [asm EXCEPT !.dead = name = "JUMP", !.count = @ + 1,
                          !.open = @ \union {[jump |-> Len(code) + 1, height |-> asm.height]}]
    /\ UNCHANGED <<source, pass, unsafe>>

PatchJump(j) ==
    /\ pass.stage = "compile" /\ j \in asm.open
    /\ asm.dead \/ asm.height = j.height
    /\ code' = [code EXCEPT ![j.jump].by = Len(code) + 1 - (j.jump + 3)]
    /\ asm' = [asm EXCEPT !.height = j.height, !.dead = FALSE, !.open = @ \ {j}]
    /\ UNCHANGED <<source, pass, unsafe>>

(* The end of compile(), with --O2 or higher.  (With --O1 the second level  *)
(* does not begin.)                                                         *)
BeginPasses ==
    /\ pass.stage = "compile" /\ ~asm.dead /\ asm.open = {}
    /\ code # <<>>
    /\ source' = code
    /\ pass' = [pass EXCEPT !.stage = "fold"]
    /\ UNCHANGED <<code, asm, unsafe>>

-----------------------------------------------------------------------------
(* What both levels look at. *)

InCode(o) == o \in DOMAIN code

IsOp(o, name) == InCode(o) /\ code[o].op = name

Decodes(o) == InCode(o) /\ code[o].op \in {"TRUE", "FALSE", "CONSTANT"}

Size(o) ==
    CASE code[o].op \in {"JUMP", "JUMP_IF_FALSE"}    -> 3
      [] code[o].op \in {"CONSTANT", "GET_GLOBAL"} -> 2
      [] OTHER -> 1

NextMeaningful(o) ==
    CHOOSE s \in o .. Len(code) + 1 :
        /\ ~IsOp(s, "NOP")
        /\ \A k \in o .. s - 1 : IsOp(k, "NOP")

Target(o) == o + 3 + code[o].by

Jumps == {o \in DOMAIN code : code[o].op \in {"JUMP", "JUMP_IF_FALSE"}}

Protected == {1} \union {Target(o) : o \in Jumps}

(* The cells before the end are overwritten from o on, the rest with NOPs. *)
Overwrite(o, end, cells) ==
    [k \in DOMAIN code |->
        CASE k \in o .. o + Len(cells) - 1   -> cells[k - o + 1]
          [] k \in o + Len(cells) .. end - 1 -> Nop
          [] OTHER                           -> code[k]]

Rewrite(o, end, cells) ==
    /\ code' = Overwrite(o, end, cells)
    /\ pass' = [pass EXCEPT !.at = o + Size(o), !.again = TRUE]
    /\ unsafe' = (unsafe \/ \E t \in Protected \cap o + 1 .. end - 1 : IsOp(t, "NOP"))
    /\ UNCHANGED <<source, asm>>

-----------------------------------------------------------------------------
(* optimizeChunk: what follows a constant is looked up past the NOPs. *)

Second(o) == NextMeaningful(o + Size(o))

Third(o) == NextMeaningful(Second(o) + Size(Second(o)))

MutFree(o, name) == IsOp(o, name)

Free(o, name) == IsOp(o, name) /\ o \notin Protected

PoppedAtOnce(o) == Decodes(o) /\ Free(Second(o), "POP")

Negated(o) == Decodes(o) /\ Free(Second(o), "NOT")

Added(o) ==
    /\ Decodes(o) /\ Decodes(Second(o)) /\ Second(o) \notin Protected
    /\ Free(Third(o), "ADD")
    /\ IsNumber(code[o].value) /\ IsNumber(code[Second(o)].value)

(* The next offset of the pass at which there is something to do. *)
First(P(_)) ==
    LET found == {o \in pass.at .. Len(code) : P(o)}
    IN  IF found = {} THEN 0 ELSE Min(found)

NextFold == First(LAMBDA o : PoppedAtOnce(o) \/ Negated(o) \/ Added(o))

AtFold(P(_)) == pass.stage = "fold" /\ NextFold # 0 /\ P(NextFold)

RemoveDeadPush ==
    /\ AtFold(PoppedAtOnce)
    /\ Rewrite(NextFold, Second(NextFold) + 1, <<>>)

FoldNot ==
    /\ AtFold(Negated)
    /\ Rewrite(NextFold, Second(NextFold) + 1, Push(Negation(code[NextFold].value)))

FoldAdd ==
    /\ AtFold(Added)
    /\ Rewrite(NextFold, Third(NextFold) + 1,
               Push(code[NextFold].value + code[Second(NextFold)].value))

(* Passes are made until one changes nothing. *)
EndPass(next) ==
    /\ pass' = IF pass.again THEN [pass EXCEPT !.at = 1, !.again = FALSE]
               ELSE [pass EXCEPT !.at = 1, !.stage = next]
    /\ UNCHANGED <<code, source, asm, unsafe>>

EndFold ==
    /\ pass.stage = "fold" /\ NextFold = 0
    /\ EndPass("jumps")

-----------------------------------------------------------------------------
(* optimizeChunkO2. *)

JumpsToJump(o) == IsOp(o, "JUMP") /\ IsOp(Target(o), "JUMP")

(* The end of a chain of jumps, which all go forward here. *)
EndOfChain(o) ==
    LET end[k \in DOMAIN code] == IF JumpsToJump(k) THEN end[Target(k)] ELSE Target(k)
    IN  end[o]

Branches(o) ==
    /\ InCode(o) /\ code[o].op \in {"TRUE", "FALSE"}
    /\ IsOp(o + 1, "JUMP_IF_FALSE")

NextJump == First(LAMBDA o : JumpsToJump(o) \/ Branches(o))

ThreadJump ==
    LET o == NextJump
    IN  /\ pass.stage = "jumps" /\ o # 0 /\ JumpsToJump(o)
        /\ code' = [code EXCEPT ![o].by = EndOfChain(o) - (o + 3)]
        /\ pass' = [pass EXCEPT !.at = o + Size(o), !.again = TRUE]
        /\ UNCHANGED <<source, asm, unsafe>>

(* The branch goes with its condition, which the code after it still pops. *)
RemoveBranch ==
    LET o == NextJump
    IN  /\ pass.stage = "jumps" /\ o # 0 /\ Branches(o)
        /\ code' = IF code[o].op = "TRUE" THEN Overwrite(o, o + 4, <<>>)
                   ELSE [code EXCEPT ![o] = Nop, ![o + 1].op = "JUMP"]
        /\ pass' = [pass EXCEPT !.at = o + Size(o), !.again = TRUE]
        /\ unsafe' = TRUE
        /\ UNCHANGED <<source, asm>>

EndJumps ==
    /\ pass.stage = "jumps" /\ NextJump = 0
    /\ EndPass("done")

Init ==
    /\ code = <<>>
    /\ source = <<>>
    /\ asm = [height |-> 0, dead |-> FALSE, count |-> 0, open |-> {}]
    /\ pass = [stage |-> "compile", at |-> 1, again |-> FALSE]
    /\ unsafe = FALSE

Next ==
    \/ EmitPush \/ EmitUse \/ EmitJump("JUMP") \/ EmitJump("JUMP_IF_FALSE")
    \/ \E j \in asm.open : PatchJump(j)
    \/ BeginPasses
    \/ RemoveDeadPush \/ FoldNot \/ FoldAdd \/ EndFold
    \/ ThreadJump \/ RemoveBranch \/ EndJumps

Spec == Init /\ [][Next]_vars

-----------------------------------------------------------------------------
(* What code does: VM::runTaskSlice of these opcodes. *)

Halt(s, why) == [s EXCEPT !.end = why]

Step(c, input, s) ==
    LET i    == c[s.at]
        n    == Len(s.stack)
        To(at, stack) == [s EXCEPT !.at = at, !.stack = stack]
        top  == s.stack[n]
        below == SubSeq(s.stack, 1, n - 1)
    IN  CASE i.op = "NOP" -> To(s.at + 1, s.stack)
          [] i.op \in {"TRUE", "FALSE"} -> To(s.at + 1, Append(s.stack, i.value))
          [] i.op = "CONSTANT"   -> To(s.at + 2, Append(s.stack, i.value))
          [] i.op = "GET_GLOBAL" -> To(s.at + 2, Append(s.stack, input))
          [] i.op = "JUMP"       -> To(s.at + 3 + i.by, s.stack)
          [] OTHER ->
                IF n = 0 \/ (n = 1 /\ i.op = "ADD") THEN Halt(s, "underflow")
                ELSE CASE i.op = "POP" -> To(s.at + 1, below)
                       [] i.op = "NOT" -> To(s.at + 1, Append(below, Negation(top)))
                       [] i.op = "JUMP_IF_FALSE" ->
                              To(IF top = False THEN s.at + 3 + i.by ELSE s.at + 3, s.stack)
                       [] i.op = "ADD" ->
                              IF IsNumber(top) /\ IsNumber(s.stack[n - 1])
                              THEN To(s.at + 1, [SubSeq(s.stack, 1, n - 1) EXCEPT ![n - 1] = @ + top])
                              ELSE Halt(s, "error")

(* The stack that code leaves behind, or why it stops. *)
Outcome(c, input) ==
    LET s[k \in 0 .. Len(c)] ==
            IF k = 0 THEN [at |-> 1, stack |-> <<>>, end |-> "none"]
            ELSE LET before == s[k - 1]
                 IN  IF before.end # "none" \/ before.at > Len(c) THEN before
                     ELSE Step(c, input, before)
    IN  IF s[Len(c)].end = "none" THEN s[Len(c)].stack ELSE <<s[Len(c)].end>>

TypeOK ==
    /\ \A o \in DOMAIN code : code[o].op \in
          {"NOP", "operand", "TRUE", "FALSE", "CONSTANT", "GET_GLOBAL", "POP", "NOT", "ADD",
           "JUMP", "JUMP_IF_FALSE"}
    /\ pass.stage \in {"compile", "fold", "jumps", "done"}
    /\ pass.stage # "compile" => Len(code) = Len(source)

SameOutcome == \A v \in Inputs : Outcome(code, v) = Outcome(source, v)

(* After every rewriting the code does what it did, unless one has spanned *)
(* a NOP that is the target of a jump, which only the instructions it      *)
(* takes part of are tested for, or removed a branch on a constant.        *)
SafeRewritesKeepMeaning == pass.stage # "compile" /\ ~unsafe => SameOutcome

(* The same without the exception, which does not hold.                    *)
OptimizedMeansTheSame == pass.stage # "compile" => SameOutcome
=============================================================================
