-------------------------- MODULE ScopesCodeProofs --------------------------
(***************************************************************************)
(* What module Scopes keeps true of one function: its locals are what its  *)
(* blocks declare, and its code has a stack at every place that every way  *)
(* there leads to, on which the locals of the scopes around have their     *)
(* slots.  Each operation of the compiler is shown to keep this, so that   *)
(* ScopesProofs is left with the functions that are open in one another.   *)
(***************************************************************************)
EXTENDS Scopes, FiniteSetTheorems, SequenceTheorems, TLAPS

-----------------------------------------------------------------------------
(* The compilers of functions, and their blocks                            *)

Locals == [name : Nat, var : Nat, depth : Int, captured : BOOLEAN]

UpvalueRefs == [index : Nat, isLocal : BOOLEAN]

Pushes == [op : {"push"}, var : Nat]

Discards == [op : {"pop", "close"}]

Closures == [op : {"closure"}, var : Nat, captures : SUBSET [at : Nat, var : Nat]]

JumpsTo == [op : {"jump"}, to : Nat]

Branches == [op : {"branch"}, to : Nat, leaves : Nat]

Gets == [op : {"get", "upvalue"}, at : Nat, var : Nat]

Instructions ==
    Pushes \union Discards \union Closures \union JumpsTo \union Branches \union Gets

Compilers ==
    [locals : Seq(Locals), upvalues : Seq(UpvalueRefs), scopeDepth : Nat, params : Seq(Nat),
     code : Seq(Instructions)]

Decls == UNION {[S -> Nat] : S \in SUBSET (Nat \ {0})}

Constructs ==
    [kind : {"fn"}, decls : Decls, self : Nat]
    \union [kind : {"block", "for"}, decls : Decls]
    \union [kind : {"loop"}, decls : Decls, start : Nat, breakDepth : Nat, continueDepth : Nat,
            breaks : SUBSET Nat, own : Nat, left : BOOLEAN]
    \union [kind : {"match"}, decls : Decls, ends : SUBSET Nat]
    \union [kind : {"case"}, decls : Decls, fails : SUBSET Nat]

\* The scope that a local belongs to.
Level(c, i) == IF c.locals[i].depth = Uninitialized THEN c.scopeDepth ELSE c.locals[i].depth

\* The last local is a function whose end is not reached.
Inner(c) == Len(c.locals) > 0 /\ c.locals[Len(c.locals)].depth = Uninitialized

\* The locals of c are what its blocks bs declare.
Named(c, bs) ==
    /\ Len(bs) = c.scopeDepth
    /\ \A i \in 1 .. Len(c.locals) : Level(c, i) \in 1 .. Len(bs)
    /\ \A i, j \in 1 .. Len(c.locals) :
           i < j => Level(c, i) <= Level(c, j) /\ c.locals[i].depth # Uninitialized
    /\ \A i \in 1 .. Len(c.locals) : c.locals[i].name # NoName =>
           /\ c.locals[i].name \in DOMAIN bs[Level(c, i)].decls
           /\ bs[Level(c, i)].decls[c.locals[i].name] = c.locals[i].var
    /\ \A d \in 1 .. Len(bs) : \A n \in DOMAIN bs[d].decls :
           \E i \in 1 .. Len(c.locals) : Level(c, i) = d /\ c.locals[i].name = n
    /\ \A i, j \in 1 .. Len(c.locals) :
           i # j /\ c.locals[i].name = c.locals[j].name /\ c.locals[i].name # NoName
           => Level(c, i) # Level(c, j)

(* What is on the stack at each place of the code.                         *)

\* The number of locals that have a slot already, in the scopes up to d.
Base(c, d) == Greatest({i \in 1 .. Len(c.locals) : c.locals[i].depth \in 1 .. d})

Slots(c, d) == [i \in 1 .. Base(c, d) |-> c.locals[i].var]

\* L gives the stack before each of n instructions, and after the last.
FlowStep(i, L, p, n) ==
    /\ i.op \in {"push", "closure"} => L[p + 1] = Append(L[p], i.var)
    /\ i.op = "closure" => \A x \in i.captures : x.at \in 1 .. Len(L[p]) /\ L[p][x.at] = x.var
    /\ i.op \in {"pop", "close"} => Len(L[p]) > 0 /\ L[p + 1] = Front(L[p])
    /\ i.op \in {"get", "upvalue", "branch"} => L[p + 1] = L[p]
    /\ i.op = "get" => i.at \in 1 .. Len(L[p]) /\ L[p][i.at] = i.var
    /\ i.op = "jump" /\ i.to # 0 => i.to \in 1 .. n + 1 /\ L[i.to] = L[p]
    /\ i.op = "branch" /\ i.to # 0 /\ i.leaves = 0 => i.to \in 1 .. n + 1 /\ L[i.to] = L[p]

Flow(code, L) ==
    /\ L \in [Nat -> Seq(Nat)]
    /\ \A p \in 1 .. Len(code) : FlowStep(code[p], L, p, Len(code))

\* What the jumps of the construct b, at depth d of c, are waiting for.
BlockLaid(b, d, c, L) ==
    /\ b.kind = "loop" =>
          /\ b.continueDepth = d - 1 /\ d > 1
          /\ b.start \in 1 .. Len(c.code) /\ c.code[b.start].op = "branch" /\ c.code[b.start].leaves = 0
          /\ L[b.start] = Slots(c, d - 1)
          /\ \A j \in b.breaks :
                j \in 1 .. Len(c.code) /\ c.code[j].op = "jump" /\ L[j] = Slots(c, b.breakDepth)
          /\ b.own = Temp => b.breakDepth = d - 1 /\ b.left = FALSE
          /\ b.own # Temp =>
                /\ d > 2 /\ b.breakDepth = d - 2
                /\ Base(c, d - 1) = Base(c, d - 2) + 1
                /\ c.locals[Base(c, d - 1)].var = b.own
          /\ \A p \in b.start .. Len(c.code) :
                /\ c.code[p].op = "pop" =>
                      Len(L[p]) > Len(L[b.start]) \/ (b.left = TRUE /\ Len(L[p]) = Len(L[b.start]))
                /\ c.code[p].op \in {"jump", "branch"} => c.code[p].to = 0 \/ c.code[p].to >= b.start
    /\ b.kind = "match" =>
          \A j \in b.ends : j \in 1 .. Len(c.code) /\ c.code[j].op = "jump" /\ L[j] = Slots(c, d)
    /\ b.kind = "case" =>
          /\ d > 1
          /\ \A j \in b.fails :
                /\ j \in 1 .. Len(c.code) /\ c.code[j].op = "branch"
                /\ c.code[j].leaves = 0 => L[j] = Slots(c, d - 1)

Laid(c, bs, L) ==
    /\ Flow(c.code, L)
    /\ \A d \in 1 .. Len(bs) : BlockLaid(bs[d], d, c, L)
    /\ \A d, e \in 1 .. Len(bs) :
           d < e /\ bs[d].kind = "loop" /\ bs[e].kind = "loop" => bs[d].start < bs[e].start
    /\ \A d \in 1 .. Len(bs) : bs[d].kind = "case" => bs[d - 1].kind = "match"

(* Which slots are captured and not closed, at each place of the code.     *)

OpenStep(i, L, O, p) ==
    /\ i.op = "pop" => Len(L[p]) \notin O[p]
    /\ i.op = "closure" => \A x \in i.captures : x.at \in O[p + 1]
    /\ i.op = "close" => O[p] \ {Len(L[p])} \subseteq O[p + 1]
    /\ i.op \notin {"jump", "close"} => O[p] \subseteq O[p + 1]
    /\ i.op = "jump" /\ i.to # 0 => O[p] \subseteq O[i.to]
    /\ i.op = "branch" /\ i.to # 0 /\ i.leaves = 0 => O[p] \subseteq O[i.to]

OpenFlow(code, L, O) ==
    /\ O \in [Nat -> SUBSET Nat]
    /\ \A p \in 1 .. Len(code) + 1 : O[p] \subseteq 1 .. Len(L[p])
    /\ \A p \in 1 .. Len(code) : OpenStep(code[p], L, O, p)

CapturedSlots(c) == {i \in 1 .. Len(c.locals) : c.locals[i].captured = TRUE}

\* The jumps of the construct b that will lead to the end of c.
Pending(b, c) ==
    CASE b.kind = "loop"  -> {b.start} \union b.breaks
      [] b.kind = "match" -> b.ends
      [] b.kind = "case"  -> {j \in b.fails : c.code[j].leaves = 0}
      [] OTHER            -> {}

Covers(c, bs, L, O) ==
    \A d \in 1 .. Len(bs) :
        /\ \A j \in Pending(bs[d], c) : O[j] \subseteq O[End(c)]
        /\ bs[d].kind = "loop" => O[End(c)] \cap 1 .. Len(L[bs[d].start]) \subseteq O[bs[d].start]

OpenLaid(c, bs, L, O) ==
    /\ OpenFlow(c.code, L, O)
    /\ Covers(c, bs, L, O)

\* The code of c so far, when the construct it stands in is complete.
Compiled(t, c, bs) ==
    \E L : /\ Laid(c, bs, L)
           /\ L[1] = c.params
           /\ L[End(c)] = Slots(c, c.scopeDepth)
           /\ t \/ \E O : OpenLaid(c, bs, L, O) /\ O[End(c)] \subseteq CapturedSlots(c)

(* The compilers f of the open functions, and the blocks b.                *)

\* The blocks of function k are those from p[k] on.
Segmented(f, b, p) ==
    /\ p \in [1 .. Len(f) + 1 -> Nat]
    /\ p[1] = 1 /\ p[Len(f) + 1] = Len(b) + 1
    /\ \A k, l \in 1 .. Len(f) + 1 : k < l => p[k] < p[l]
    /\ \A k \in 1 .. Len(f) : p[k + 1] = p[k] + f[k].scopeDepth
    /\ \A d \in 1 .. Len(b) : \E k \in 1 .. Len(f) : p[k] <= d /\ d < p[k + 1]
    /\ \A d \in 1 .. Len(b) : b[d].kind = "fn" <=> \E k \in 1 .. Len(f) : d = p[k]

Segment(f, b, p, k) == [d \in 1 .. f[k].scopeDepth |-> b[p[k] + d - 1]]

Nested(f, b, p) ==
    /\ b[1].self = Temp
    /\ ~Inner(f[Len(f)])
    /\ \A k \in 1 .. Len(f) - 1 :
          /\ Inner(f[k])
          /\ f[k].locals[Len(f[k].locals)].var = b[p[k + 1]].self
          /\ f[k].locals[Len(f[k].locals)].name # NoName

\* The variables are numbered by the n statements read.
DeclaredOnce(b, n) ==
    /\ \A d \in 1 .. Len(b) : \A m \in DOMAIN b[d].decls : b[d].decls[m] \in 1 .. n
    /\ \A d, e \in 1 .. Len(b) : \A m \in DOMAIN b[d].decls, i \in DOMAIN b[e].decls :
           b[d].decls[m] = b[e].decls[i] => d = e /\ m = i

\* The upvalue j of function k stands for the variable D[k][j].
UpvalueDenotes(f, D, k, j) ==
    LET u == f[k].upvalues[j]
    IN  /\ k > 1
        /\ u.isLocal = TRUE =>
              /\ u.index \in 1 .. Len(f[k - 1].locals)
              /\ f[k - 1].locals[u.index].depth # Uninitialized
              /\ f[k - 1].locals[u.index].captured = TRUE
              /\ f[k - 1].locals[u.index].var = D[k][j]
        /\ u.isLocal = FALSE =>
              u.index \in 1 .. Len(f[k - 1].upvalues) /\ D[k - 1][u.index] = D[k][j]

UpvalueRead(f, D, k, i) ==
    i.op = "upvalue" => i.at \in 1 .. Len(f[k].upvalues) /\ D[k][i.at] = i.var

UpvaluesDenote(f, D) ==
    /\ D \in Seq(Seq(Nat)) /\ Len(D) = Len(f)
    /\ \A k \in 1 .. Len(f) :
          /\ Len(D[k]) = Len(f[k].upvalues)
          /\ \A j \in 1 .. Len(f[k].upvalues) : UpvalueDenotes(f, D, k, j)
          /\ \A q \in 1 .. Len(f[k].code) : UpvalueRead(f, D, k, f[k].code[q])

\* A loop that a break has left without closing its variable is not captured any more.
LeftAlone(f, b, p) ==
    \A k \in 2 .. Len(f) : \A j \in 1 .. Len(f[k].upvalues) :
        LET u == f[k].upvalues[j]
        IN  u.isLocal = TRUE => \A d \in p[k - 1] .. p[k] - 1 :
                b[d].kind = "loop" /\ b[d].left = TRUE => f[k - 1].locals[u.index].var # b[d].own

Sits(c, bs) ==
    /\ c \in Compilers /\ bs \in Seq(Constructs) /\ Named(c, bs) /\ Len(bs) > 0
    /\ Inner(c) => bs[Len(bs)].kind # "match"

\* The blocks from p[k] on are those of the open function k; t says that a capture was late.
Consistent(f, b, t, p) ==
    /\ Segmented(f, b, p) /\ Nested(f, b, p)
    /\ \A k \in 1 .. Len(f) : Sits(f[k], Segment(f, b, p, k)) /\ Compiled(t, f[k], Segment(f, b, p, k))
    /\ t \/ LeftAlone(f, b, p)

\* So far n statements are read.
CompileOk(f, b, n, t) ==
    /\ f \in Seq(Compilers) /\ Len(f) > 0
    /\ b \in Seq(Constructs)
    /\ \E p : Consistent(f, b, t, p)
    /\ DeclaredOnce(b, n)
    /\ \E D : UpvaluesDenote(f, D)

CompileInv == CompileOk(fns, blocks, text.length, late)

Machine(v) ==
    /\ v = [pc |-> v.pc, stack |-> v.stack, open |-> v.open, leaked |-> v.leaked]
    /\ v.pc \in Nat /\ v.leaked \in BOOLEAN

\* The stack of v is what L says of the place where it is, and the open slots are among those of O.
StackOk(code, v, L) ==
    v.leaked = TRUE \/ (v.stack \in Seq(Nat) /\ (v.pc \in 1 .. Len(code) => v.stack = L[v.pc]))

OpenOk(code, v, O) ==
    v.open \subseteq 1 .. Len(v.stack) /\ (v.pc \in 1 .. Len(code) => v.open \subseteq O[v.pc])

RunOk(code, v, t) ==
    /\ code \in Seq(Instructions) /\ Machine(v)
    /\ \E L : /\ Flow(code, L) /\ StackOk(code, v, L)
              /\ t \/ v.leaked = TRUE \/ \E O : OpenFlow(code, L, O) /\ OpenOk(code, v, O)

RunInv == RunOk(body, vm, late)

ScopesInv ==
    /\ text.length \in Nat /\ text.names \in Nat
    /\ status \in {"compile", "refused", "run"}
    /\ late \in BOOLEAN
    /\ status = "compile" => CompileInv
    /\ status = "run" => RunInv

LEMMA LeastNatural ==
    ASSUME NEW S \in SUBSET Nat, S # {}
    PROVE  \E x \in S : \A y \in S : x <= y
<1> DEFINE R == StrictSubsetOrdering(Nat)
           F == FiniteSubsetsOf(Nat)
           T == {1 .. n : n \in S}
<1>1. IsWellFoundedOn(R, F)
  BY FS_StrictSubsetOrderingWellFounded
<1>2. T \subseteq F /\ T # {}
  <2>1. \A n \in Nat : IsFiniteSet(1 .. n) /\ 1 .. n \in SUBSET Nat
    BY FS_Interval
  <2> QED
    BY <2>1 DEF FiniteSubsetsOf
<1>3. \E x \in T : \A y \in T : ~(<<y, x>> \in R)
  <2> HIDE DEF R, F, T
  <2> QED
    BY <1>1, <1>2, WFMin
<1>4. PICK x \in S : \A y \in S : ~(<<1 .. y, 1 .. x>> \in R)
  BY <1>3
<1>5. ASSUME NEW y \in S, y < x PROVE FALSE
  <2>1. 1 .. y \subseteq 1 .. x /\ x \in 1 .. x /\ x \notin 1 .. y
    BY <1>5
  <2>2. <<1 .. y, 1 .. x>> \in (SUBSET Nat) \X (SUBSET Nat)
    OBVIOUS
  <2>3. <<1 .. y, 1 .. x>> \in R
    BY <2>1, <2>2 DEF StrictSubsetOrdering
  <2> QED
    BY <2>3, <1>4
<1> QED
  BY <1>5

LEMMA AllNaturals ==
    ASSUME NEW P \in SUBSET Nat, 0 \in P, \A n \in P : n + 1 \in P
    PROVE  P = Nat
<1> SUFFICES ASSUME P # Nat PROVE FALSE
  OBVIOUS
<1>1. Nat \ P \in SUBSET Nat /\ Nat \ P # {}
  OBVIOUS
<1>2. PICK x \in Nat \ P : \A y \in Nat \ P : x <= y
  BY <1>1, LeastNatural
<1>3. x # 0 /\ x - 1 \in Nat /\ ~(x <= x - 1) /\ (x - 1) + 1 = x
  BY <1>2
<1>4. x - 1 \in P
  BY <1>2, <1>3
<1> QED
  BY <1>2, <1>3, <1>4

LEMMA FunctionIsSeq ==
    ASSUME NEW n, n \in Nat, NEW S, NEW f, f \in [1 .. n -> S]
    PROVE  f \in Seq(S)
<1>1. [1 .. n -> S] \in {[1 .. k -> S] : k \in Nat}
  OBVIOUS
<1>2. Seq(S) = UNION {[1 .. k -> S] : k \in Nat}
  BY SeqDef
<1> QED
  BY <1>1, <1>2, Zenon

LEMMA FrontIs ==
    ASSUME NEW S, NEW s \in Seq(S), Len(s) # 0
    PROVE  /\ Front(s) \in Seq(S) /\ Len(Front(s)) = Len(s) - 1
           /\ \A i \in 1 .. Len(s) - 1 : Front(s)[i] = s[i]
<1> DEFINE k == Len(s) - 1
<1>1. Len(s) \in Nat /\ k \in Nat /\ k \in 1 - 1 .. Len(s) /\ 1 \in 1 .. Len(s) + 1
  BY LenProperties
<1>2. \A i \in 1 .. k : i \in 1 .. Len(s)
  BY <1>1
<1>3. Front(s) = SubSeq(s, 1, k)
  BY DEF Front
<1>4. k - 1 + 1 = k /\ (1 <= k + 1)
  BY <1>1
<1>5. \A i \in 1 .. k : 1 + i - 1 = i
  BY <1>1
<1> HIDE DEF k
<1> QED
  BY <1>1, <1>2, <1>3, <1>4, <1>5, SubSeqProperties DEF k

LEMMA LeastIs ==
    ASSUME NEW S \in SUBSET Nat, S # {}
    PROVE  Min(S) \in S /\ \A x \in S : Min(S) <= x
<1>1. PICK x \in S : \A y \in S : x <= y
  BY LeastNatural
<1> QED
  BY <1>1 DEF Min

LEMMA HighestIs ==
    ASSUME NEW n \in Nat, NEW S \in SUBSET (1 .. n)
    PROVE  /\ Greatest(S) \in Nat
           /\ \A k \in S : k <= Greatest(S)
           /\ S = {} => Greatest(S) = 0
           /\ S # {} => Greatest(S) \in S
           /\ \A x \in S : (\A k \in S : k <= x) => Greatest(S) = x
<1> DEFINE T == {0} \union S
           U == {x \in Nat : \A y \in T : y <= x}
<1>0. /\ \A k \in S : k \in Nat /\ k >= 1 /\ k <= n
      /\ \A k \in T : k \in Nat /\ k <= n
  <2>1. \A k \in 1 .. n : k \in Nat /\ k >= 1 /\ k <= n
    OBVIOUS
  <2>2. \A k \in S : k \in 1 .. n
    OBVIOUS
  <2> QED
    BY <2>1, <2>2
<1>1. PICK x \in U : \A z \in U : x <= z
  <2>1. n \in U /\ U \in SUBSET Nat
    BY <1>0
  <2> HIDE DEF U
  <2> QED
    BY <2>1, LeastNatural
<1>2. x \in T
  <2> SUFFICES ASSUME x \notin T PROVE FALSE
    OBVIOUS
  <2>1. x # 0 /\ x \in Nat /\ \A y \in T : y <= x /\ y # x /\ y \in Nat
    BY <1>0, <1>1
  <2>2. x - 1 \in Nat /\ \A y \in T : y <= x - 1
    BY <2>1
  <2>3. x - 1 \in U /\ ~(x <= x - 1)
    BY <2>1, <2>2
  <2> QED
    BY <1>1, <2>3
<1>3. Greatest(S) = CHOOSE d \in T : \A k \in T : d >= k
  BY DEF Greatest, Max
<1>4. Greatest(S) \in T /\ \A k \in T : k <= Greatest(S)
  <2>1. \A k \in T : x >= k
    BY <1>0, <1>1
  <2>2. Greatest(S) \in T /\ \A k \in T : Greatest(S) >= k
    BY <1>2, <1>3, <2>1
  <2> QED
    BY <1>0, <2>2
<1> DEFINE d == Greatest(S)
<1>5. d \in Nat /\ (d \in S \/ d = 0) /\ \A k \in S : k <= d
  BY <1>0, <1>4
<1> HIDE DEF d
<1>6. S = {} => d = 0
  BY <1>5
<1>7. S # {} => d \in S
  <2> SUFFICES ASSUME NEW k \in S PROVE d # 0
    BY <1>5
  <2> QED
    BY <1>0, <1>5
<1>8. ASSUME NEW y \in S, \A k \in S : k <= y PROVE d = y
  BY <1>0, <1>5, <1>7, <1>8
<1> QED
  BY <1>5, <1>6, <1>7, <1>8 DEF d

-----------------------------------------------------------------------------
(* What the operations of the compiler do to its fields                    *)

LEMMA CompilerIs ==
    ASSUME NEW c \in Compilers
    PROVE  /\ c.locals \in Seq(Locals) /\ c.upvalues \in Seq(UpvalueRefs) /\ c.scopeDepth \in Nat
           /\ c.params \in Seq(Nat) /\ c.code \in Seq(Instructions)
           /\ Len(c.locals) \in Nat /\ DOMAIN c.locals = 1 .. Len(c.locals)
           /\ Len(c.code) \in Nat /\ DOMAIN c.code = 1 .. Len(c.code)
           /\ End(c) = Len(c.code) + 1 /\ End(c) \in Nat
           /\ \A i \in 1 .. Len(c.locals) : c.locals[i] \in Locals
           /\ \A p \in 1 .. Len(c.code) : c.code[p] \in Instructions
<1>1. /\ c.locals \in Seq(Locals) /\ c.upvalues \in Seq(UpvalueRefs) /\ c.scopeDepth \in Nat
      /\ c.params \in Seq(Nat) /\ c.code \in Seq(Instructions)
  BY DEF Compilers
<1>2. /\ Len(c.locals) \in Nat /\ DOMAIN c.locals = 1 .. Len(c.locals)
      /\ Len(c.code) \in Nat /\ DOMAIN c.code = 1 .. Len(c.code)
  BY <1>1, LenProperties
<1>3. /\ \A i \in 1 .. Len(c.locals) : c.locals[i] \in Locals
      /\ \A p \in 1 .. Len(c.code) : c.code[p] \in Instructions
  BY <1>1, ElementOfSeq
<1> QED
  BY <1>1, <1>2, <1>3 DEF End

LEMMA LocalIs ==
    ASSUME NEW x \in Locals
    PROVE  /\ x.name \in Nat /\ x.var \in Nat /\ x.depth \in Int /\ x.captured \in BOOLEAN
           /\ DOMAIN x = {"name", "var", "depth", "captured"}
           /\ x = [name |-> x.name, var |-> x.var, depth |-> x.depth, captured |-> x.captured]
<1>1. /\ x.name \in Nat /\ x.var \in Nat /\ x.depth \in Int /\ x.captured \in BOOLEAN
      /\ DOMAIN x = {"name", "var", "depth", "captured"}
  BY DEF Locals
<1>2. x = [name |-> x.name, var |-> x.var, depth |-> x.depth, captured |-> x.captured]
  BY Zenon DEF Locals
<1> QED
  BY <1>1, <1>2

LEMMA EmitIs ==
    ASSUME NEW c \in Compilers, NEW xs \in Seq(Instructions)
    PROVE  LET e == Emit(c, xs)
           IN  /\ e \in Compilers
               /\ e.locals = c.locals /\ e.upvalues = c.upvalues /\ e.scopeDepth = c.scopeDepth
               /\ e.params = c.params
               /\ Len(xs) \in Nat /\ Len(e.code) = Len(c.code) + Len(xs)
               /\ \A p \in 1 .. Len(c.code) : e.code[p] = c.code[p]
               /\ \A q \in 1 .. Len(xs) : e.code[Len(c.code) + q] = xs[q]
<1> DEFINE e == Emit(c, xs)
<1>1. /\ e.locals = c.locals /\ e.upvalues = c.upvalues /\ e.scopeDepth = c.scopeDepth
      /\ e.params = c.params /\ e.code = c.code \o xs
  BY DEF Emit, Compilers
<1>2. c.code \in Seq(Instructions) /\ Len(c.code) \in Nat /\ Len(xs) \in Nat
  BY CompilerIs, LenProperties
<1>3. /\ c.code \o xs \in Seq(Instructions)
      /\ Len(c.code \o xs) = Len(c.code) + Len(xs)
      /\ \A i \in 1 .. Len(c.code) + Len(xs) :
             (c.code \o xs)[i] = IF i <= Len(c.code) THEN c.code[i] ELSE xs[i - Len(c.code)]
  BY <1>2, ConcatProperties
<1>4. e \in Compilers
  BY <1>3 DEF Emit, Compilers
<1> HIDE DEF e
<1>5. \A p \in 1 .. Len(c.code) : e.code[p] = c.code[p]
  BY <1>1, <1>2, <1>3
<1>6. ASSUME NEW q \in 1 .. Len(xs) PROVE e.code[Len(c.code) + q] = xs[q]
  <2>1. /\ Len(c.code) + q \in 1 .. Len(c.code) + Len(xs) /\ ~(Len(c.code) + q <= Len(c.code))
        /\ (Len(c.code) + q) - Len(c.code) = q
    BY <1>2
  <2> QED
    BY <1>1, <1>3, <2>1
<1> QED
  BY <1>1, <1>2, <1>3, <1>4, <1>5, <1>6 DEF e

LEMMA InstructionIs ==
    ASSUME NEW x \in Instructions
    PROVE  /\ x.op \in {"push", "pop", "close", "closure", "jump", "branch", "get", "upvalue"}
           /\ x.op = "push" => x \in Pushes
           /\ x.op \in {"pop", "close"} => x \in Discards
           /\ x.op = "closure" => x \in Closures
           /\ x.op = "jump" => x \in JumpsTo
           /\ x.op = "branch" => x \in Branches
           /\ x.op \in {"get", "upvalue"} => x \in Gets
<1>1. x \in Pushes => x.op = "push"
  BY Zenon DEF Pushes
<1>2. x \in Discards => x.op \in {"pop", "close"}
  BY Zenon DEF Discards
<1>3. x \in Closures => x.op = "closure"
  BY Zenon DEF Closures
<1>4. x \in JumpsTo => x.op = "jump"
  BY Zenon DEF JumpsTo
<1>5. x \in Branches => x.op = "branch"
  BY Zenon DEF Branches
<1>6. x \in Gets => x.op \in {"get", "upvalue"}
  BY Zenon DEF Gets
<1>7. x \in Pushes \/ x \in Discards \/ x \in Closures \/ x \in JumpsTo \/ x \in Branches \/ x \in Gets
  BY Zenon DEF Instructions
<1>8. PICK o : o = x.op
  OBVIOUS
<1> QED
  BY <1>1, <1>2, <1>3, <1>4, <1>5, <1>6, <1>7, <1>8, Zenon

LEMMA PatchIs ==
    ASSUME NEW c \in Compilers, NEW J, NEW to \in Nat,
           \A p \in J : p \in 1 .. Len(c.code) => c.code[p].op \in {"jump", "branch"}
    PROVE  LET e == Patch(c, J, to)
           IN  /\ e \in Compilers
               /\ e.locals = c.locals /\ e.upvalues = c.upvalues /\ e.scopeDepth = c.scopeDepth
               /\ e.params = c.params
               /\ Len(e.code) = Len(c.code)
               /\ \A p \in 1 .. Len(c.code) :
                     /\ p \notin J => e.code[p] = c.code[p]
                     /\ p \in J => /\ e.code[p].op = c.code[p].op /\ e.code[p].to = to
                                   /\ c.code[p].op = "branch" => e.code[p].leaves = c.code[p].leaves
<1> DEFINE F == [i \in 1 .. Len(c.code) |-> IF i \in J THEN [c.code[i] EXCEPT !.to = to] ELSE c.code[i]]
           e == Patch(c, J, to)
<1>1. e = [c EXCEPT !.code = F]
  BY CompilerIs, Zenon DEF Patch
<1>2. ASSUME NEW p \in 1 .. Len(c.code), p \in J
      PROVE  /\ F[p] \in Instructions
             /\ F[p].op = c.code[p].op /\ F[p].to = to
             /\ c.code[p].op = "branch" => F[p].leaves = c.code[p].leaves
  <2>1. PICK x : x = c.code[p]
    OBVIOUS
  <2>2. F[p] = [x EXCEPT !.to = to]
    BY <1>2, <2>1
  <2>3. x \in Instructions /\ x.op \in {"jump", "branch"}
    BY <1>2, <2>1, CompilerIs
  <2> HIDE DEF F
  <2>4. CASE x.op = "jump"
    <3>1. x \in JumpsTo
      BY <2>3, <2>4, InstructionIs, Zenon
    <3>2. /\ [x EXCEPT !.to = to] \in JumpsTo /\ [x EXCEPT !.to = to].op = x.op
          /\ [x EXCEPT !.to = to].to = to
      BY <3>1 DEF JumpsTo
    <3> QED
      BY <2>1, <2>2, <2>4, <3>2 DEF Instructions
  <2>5. CASE x.op = "branch"
    <3>1. x \in Branches
      BY <2>3, <2>5, InstructionIs, Zenon
    <3>2. /\ [x EXCEPT !.to = to] \in Branches /\ [x EXCEPT !.to = to].op = x.op
          /\ [x EXCEPT !.to = to].to = to /\ [x EXCEPT !.to = to].leaves = x.leaves
      BY <3>1 DEF Branches
    <3> QED
      BY <2>1, <2>2, <2>5, <3>2 DEF Instructions
  <2> QED
    BY <2>3, <2>4, <2>5
<1>3. \A p \in 1 .. Len(c.code) : p \notin J => F[p] = c.code[p]
  OBVIOUS
<1>4. DOMAIN F = 1 .. Len(c.code)
  OBVIOUS
<1>5. F \in [1 .. Len(c.code) -> Instructions]
  <2>1. \A p \in 1 .. Len(c.code) : F[p] \in Instructions
    <3> HIDE DEF F
    <3> QED
      BY <1>2, <1>3, CompilerIs
  <2> QED
    BY <2>1
<1> HIDE DEF F
<1>6. F \in Seq(Instructions) /\ Len(F) = Len(c.code)
  <2>1. F \in Seq(Instructions)
    BY <1>5, CompilerIs, FunctionIsSeq
  <2>2. Len(c.code) \in Nat /\ Len(F) \in Nat /\ 1 .. Len(F) = 1 .. Len(c.code)
    BY <1>4, <2>1, CompilerIs, LenProperties
  <2> QED
    BY <2>1, <2>2
<1>7. /\ e.locals = c.locals /\ e.upvalues = c.upvalues /\ e.scopeDepth = c.scopeDepth
      /\ e.params = c.params /\ e.code = F /\ e \in Compilers
  BY <1>1, <1>6 DEF Compilers
<1> HIDE DEF e
<1> QED
  BY <1>2, <1>3, <1>6, <1>7 DEF e

LEMMA AddLocalIs ==
    ASSUME NEW c \in Compilers, NEW n \in Nat, NEW v \in Nat
    PROVE  LET e == AddLocal(c, n, v)
           IN  /\ e \in Compilers
               /\ e.code = c.code /\ e.upvalues = c.upvalues /\ e.scopeDepth = c.scopeDepth
               /\ e.params = c.params
               /\ Len(e.locals) = Len(c.locals) + 1
               /\ \A i \in 1 .. Len(c.locals) : e.locals[i] = c.locals[i]
               /\ e.locals[Len(c.locals) + 1] =
                     [name |-> n, var |-> v, depth |-> Uninitialized, captured |-> FALSE]
<1> DEFINE x == [name |-> n, var |-> v, depth |-> Uninitialized, captured |-> FALSE]
           e == AddLocal(c, n, v)
<1>1. x \in Locals
  BY DEF Locals, Uninitialized
<1>2. e = [c EXCEPT !.locals = Append(@, x)]
  BY Zenon DEF AddLocal
<1> HIDE DEF x
<1>3. /\ Append(c.locals, x) \in Seq(Locals) /\ Len(Append(c.locals, x)) = Len(c.locals) + 1
      /\ \A i \in 1 .. Len(c.locals) : Append(c.locals, x)[i] = c.locals[i]
      /\ Append(c.locals, x)[Len(c.locals) + 1] = x
  BY <1>1, CompilerIs, AppendProperties
<1>4. /\ e.locals = Append(c.locals, x) /\ e \in Compilers
      /\ e.code = c.code /\ e.upvalues = c.upvalues /\ e.scopeDepth = c.scopeDepth
      /\ e.params = c.params
  BY <1>2, <1>3 DEF Compilers
<1> HIDE DEF e
<1> QED
  BY <1>3, <1>4 DEF e, x

LEMMA MarkIs ==
    ASSUME NEW c \in Compilers, Len(c.locals) > 0
    PROVE  LET e == MarkInitialized(c)
               n == Len(c.locals)
           IN  /\ e \in Compilers
               /\ e.code = c.code /\ e.upvalues = c.upvalues /\ e.scopeDepth = c.scopeDepth
               /\ e.params = c.params
               /\ Len(e.locals) = n /\ n \in 1 .. n
               /\ \A i \in 1 .. n : i # n => e.locals[i] = c.locals[i]
               /\ e.locals[n].name = c.locals[n].name /\ e.locals[n].var = c.locals[n].var
               /\ e.locals[n].captured = c.locals[n].captured
               /\ e.locals[n].depth = c.scopeDepth
<1> DEFINE e == MarkInitialized(c)
           n == Len(c.locals)
           x == [c.locals[n] EXCEPT !.depth = c.scopeDepth]
           s == [c.locals EXCEPT ![n] = x]
<1>1. n \in 1 .. n /\ c.locals \in Seq(Locals) /\ c.locals[n] \in Locals /\ c.scopeDepth \in Nat
  BY CompilerIs
<1>2. PICK y \in Locals : y = c.locals[n]
  BY <1>1
<1>3. [y EXCEPT !.depth = c.scopeDepth] =
         [name |-> y.name, var |-> y.var, depth |-> c.scopeDepth, captured |-> y.captured]
  BY <1>1 DEF Locals
<1>4. y.name \in Nat /\ y.var \in Nat /\ y.captured \in BOOLEAN
  BY LocalIs
<1>5. PICK z : z = [name |-> y.name, var |-> y.var, depth |-> c.scopeDepth, captured |-> y.captured]
  OBVIOUS
<1>6. z \in Locals
  BY <1>1, <1>4, <1>5 DEF Locals
<1>7. z.name = y.name /\ z.var = y.var /\ z.captured = y.captured /\ z.depth = c.scopeDepth
  BY <1>5
<1>8. x = z
  BY <1>2, <1>3, <1>5, Zenon
<1> HIDE DEF x
<1>9. /\ s \in Seq(Locals) /\ Len(s) = n
      /\ \A j \in 1 .. n : s[j] = IF j = n THEN x ELSE c.locals[j]
  BY <1>1, <1>6, <1>8, ExceptSeq
<1>10. e = [c EXCEPT !.locals = s]
  BY <1>1, Zenon DEF MarkInitialized, x, Compilers
<1> HIDE DEF s
<1>11. /\ e.locals = s /\ e \in Compilers
       /\ e.code = c.code /\ e.upvalues = c.upvalues /\ e.scopeDepth = c.scopeDepth
       /\ e.params = c.params
  BY <1>9, <1>10 DEF Compilers
<1> HIDE DEF e
<1>12. s[n] = x /\ \A i \in 1 .. n : i # n => s[i] = c.locals[i]
  BY <1>1, <1>9
<1> QED
  BY <1>1, <1>2, <1>7, <1>8, <1>9, <1>11, <1>12 DEF e

LEMMA ScopeIs ==
    ASSUME NEW c \in Compilers, NEW d \in Nat, NEW k \in 0 .. Len(c.locals)
    PROVE  LET e == [c EXCEPT !.scopeDepth = d, !.locals = SubSeq(@, 1, k)]
           IN  /\ e \in Compilers
               /\ e.code = c.code /\ e.upvalues = c.upvalues /\ e.scopeDepth = d
               /\ e.params = c.params
               /\ Len(e.locals) = k
               /\ \A i \in 1 .. k : e.locals[i] = c.locals[i]
<1> DEFINE s == SubSeq(c.locals, 1, k)
           e == [c EXCEPT !.scopeDepth = d, !.locals = SubSeq(@, 1, k)]
<1>1. k \in Nat /\ Len(c.locals) \in Nat /\ \A i \in 1 .. k : i \in 1 .. Len(c.locals)
  BY CompilerIs
<1>2. \A i \in 1 .. k : c.locals[i] \in Locals
  BY <1>1, CompilerIs
<1>3. /\ s \in Seq(Locals) /\ Len(s) = IF 1 <= k THEN k - 1 + 1 ELSE 0
      /\ \A i \in 1 .. k - 1 + 1 : s[i] = c.locals[1 + i - 1]
  BY <1>1, <1>2, SubSeqProperties
<1>4. Len(s) = k /\ \A i \in 1 .. k : s[i] = c.locals[i]
  <2>1. k - 1 + 1 = k /\ \A i \in 1 .. k : 1 + i - 1 = i
    BY <1>1
  <2>2. Len(s) = IF 1 <= k THEN k ELSE 0
    BY <1>3, <2>1
  <2>3. ~(1 <= k) => k = 0
    BY <1>1
  <2>4. \A i \in 1 .. k : s[i] = c.locals[i]
    BY <1>3, <2>1
  <2> QED
    BY <2>2, <2>3, <2>4
<1>5. e = [c EXCEPT !.scopeDepth = d, !.locals = s]
  OBVIOUS
<1> HIDE DEF s
<1>6. /\ e.locals = s /\ e \in Compilers
      /\ e.code = c.code /\ e.upvalues = c.upvalues /\ e.scopeDepth = d
      /\ e.params = c.params
  BY <1>3, <1>5 DEF Compilers
<1> HIDE DEF e
<1> QED
  BY <1>4, <1>6 DEF e

LEMMA BeginScopeIs ==
    ASSUME NEW c \in Compilers
    PROVE  LET e == BeginScope(c)
           IN  /\ e \in Compilers /\ e.scopeDepth = c.scopeDepth + 1
               /\ e.code = c.code /\ e.upvalues = c.upvalues /\ e.params = c.params
               /\ e.locals = c.locals
  BY DEF BeginScope, Compilers

\* Two compilers whose locals differ in what is captured only.
SameLocals(c, e) ==
    /\ Len(e.locals) = Len(c.locals) /\ e.scopeDepth = c.scopeDepth
    /\ \A i \in 1 .. Len(c.locals) :
          /\ e.locals[i].name = c.locals[i].name /\ e.locals[i].var = c.locals[i].var
          /\ e.locals[i].depth = c.locals[i].depth

-----------------------------------------------------------------------------
(* The locals that have a slot                                             *)

\* The locals are in the order of their scopes.
Sorted(c) ==
    /\ \A i \in 1 .. Len(c.locals) :
           c.locals[i].depth = Uninitialized \/ c.locals[i].depth \in 1 .. c.scopeDepth
    /\ \A i, j \in 1 .. Len(c.locals) : i < j =>
           /\ c.locals[i].depth # Uninitialized
           /\ c.locals[j].depth # Uninitialized => c.locals[i].depth <= c.locals[j].depth

LEMMA NamedIsSorted ==
    ASSUME NEW c \in Compilers, NEW bs, Named(c, bs)
    PROVE  Sorted(c)
<1>1. Len(bs) = c.scopeDepth
  BY DEF Named
<1>2. \A i \in 1 .. Len(c.locals) :
           c.locals[i].depth = Uninitialized \/ c.locals[i].depth \in 1 .. c.scopeDepth
  BY <1>1 DEF Named, Level
<1>3. ASSUME NEW i \in 1 .. Len(c.locals), NEW j \in 1 .. Len(c.locals), i < j
      PROVE  /\ c.locals[i].depth # Uninitialized
             /\ c.locals[j].depth # Uninitialized => c.locals[i].depth <= c.locals[j].depth
  BY <1>3 DEF Named, Level
<1> QED
  BY <1>2, <1>3 DEF Sorted

LEMMA BaseIs ==
    ASSUME NEW c \in Compilers, Sorted(c), NEW d \in Nat
    PROVE  /\ Base(c, d) \in 0 .. Len(c.locals)
           /\ \A i \in 1 .. Len(c.locals) : i <= Base(c, d) <=> c.locals[i].depth \in 1 .. d
           /\ Slots(c, d) \in Seq(Nat) /\ Len(Slots(c, d)) = Base(c, d)
           /\ \A i \in 1 .. Base(c, d) :
                 i \in 1 .. Len(c.locals) /\ Slots(c, d)[i] = c.locals[i].var
<1> DEFINE n == Len(c.locals)
           S == {i \in 1 .. n : c.locals[i].depth \in 1 .. d}
           b == Base(c, d)
<1>1. n \in Nat /\ \A i \in 1 .. n : c.locals[i].depth \in Int /\ c.locals[i].var \in Nat
  BY CompilerIs, LocalIs
<1>2. S \in SUBSET (1 .. n) /\ b = Greatest(S)
  BY DEF Base
<1>3. /\ b \in Nat /\ \A k \in S : k <= b
      /\ S = {} => b = 0
      /\ S # {} => b \in S
  <2> HIDE DEF S, b, n
  <2>1. /\ Greatest(S) \in Nat /\ \A k \in S : k <= Greatest(S)
        /\ S = {} => Greatest(S) = 0
        /\ S # {} => Greatest(S) \in S
    BY <1>1, <1>2, HighestIs
  <2> QED
    BY <1>2, <2>1
<1>4. b \in 0 .. n
  <2>1. \A k \in S : k <= n
    BY <1>1
  <2> HIDE DEF S, b
  <2>2. S # {} => b <= n
    BY <1>3, <2>1
  <2> QED
    BY <1>1, <1>3, <2>2
<1>5. ASSUME NEW i \in 1 .. n PROVE i <= b <=> c.locals[i].depth \in 1 .. d
  <2>1. c.locals[i].depth \in 1 .. d => i <= b
    BY <1>3
  <2>2. ASSUME i <= b PROVE c.locals[i].depth \in 1 .. d
    <3>1. b # 0
      BY <1>1, <2>2
    <3>2. b \in 1 .. n /\ c.locals[b].depth \in 1 .. d
      BY <1>3, <3>1
    <3> HIDE DEF b, S
    <3>3. CASE i = b
      BY <3>2, <3>3
    <3>4. CASE i # b
      <4>1. i < b /\ i \in 1 .. n
        BY <1>1, <1>3, <2>2, <3>4
      <4>2. c.locals[i].depth # Uninitialized /\ c.locals[b].depth # Uninitialized
        BY <3>2, <4>1 DEF Sorted, Uninitialized
      <4>3. c.locals[i].depth \in 1 .. c.scopeDepth /\ c.locals[i].depth <= c.locals[b].depth
        BY <3>2, <4>1, <4>2 DEF Sorted
      <4> QED
        BY <1>1, <3>2, <4>3
    <3> QED
      BY <3>3, <3>4
  <2> QED
    BY <2>1, <2>2
<1> HIDE DEF S, b, n
<1>6. \A i \in 1 .. b : i \in 1 .. n
  BY <1>1, <1>4
<1>7. Slots(c, d) = [i \in 1 .. b |-> c.locals[i].var]
  BY DEF Slots, b
<1>8. Slots(c, d) \in [1 .. b -> Nat]
  BY <1>1, <1>6, <1>7
<1>9. Slots(c, d) \in Seq(Nat)
  BY <1>3, <1>8, FunctionIsSeq
<1>10. Len(Slots(c, d)) = b
  <2>1. DOMAIN Slots(c, d) = 1 .. b
    BY <1>7
  <2>2. Len(Slots(c, d)) \in Nat /\ 1 .. Len(Slots(c, d)) = 1 .. b
    BY <1>9, <2>1, LenProperties
  <2> QED
    BY <1>3, <2>2
<1>11. \A i \in 1 .. b : Slots(c, d)[i] = c.locals[i].var
  BY <1>7
<1> QED
  BY <1>4, <1>5, <1>6, <1>9, <1>10, <1>11 DEF b, n

\* When the locals that have a slot up to d are the same.
LEMMA SameSlots ==
    ASSUME NEW c \in Compilers, Sorted(c), NEW e \in Compilers, Sorted(e), NEW d \in Nat,
           \A i \in 1 .. Len(c.locals) : c.locals[i].depth \in 1 .. d =>
               /\ i \in 1 .. Len(e.locals) /\ e.locals[i].depth \in 1 .. d
               /\ e.locals[i].var = c.locals[i].var,
           \A i \in 1 .. Len(e.locals) : e.locals[i].depth \in 1 .. d =>
               i \in 1 .. Len(c.locals) /\ c.locals[i].depth \in 1 .. d
    PROVE  Base(e, d) = Base(c, d) /\ Slots(e, d) = Slots(c, d)
<1>1. \A i : (i \in 1 .. Len(c.locals) /\ c.locals[i].depth \in 1 .. d)
             <=> (i \in 1 .. Len(e.locals) /\ e.locals[i].depth \in 1 .. d)
  OBVIOUS
<1>2. {i \in 1 .. Len(c.locals) : c.locals[i].depth \in 1 .. d}
         = {i \in 1 .. Len(e.locals) : e.locals[i].depth \in 1 .. d}
  BY <1>1
<1>3. Base(e, d) = Base(c, d)
  BY <1>2 DEF Base
<1>4. \A i \in 1 .. Base(c, d) : e.locals[i].var = c.locals[i].var
  <2> SUFFICES ASSUME NEW i \in 1 .. Base(c, d) PROVE e.locals[i].var = c.locals[i].var
    OBVIOUS
  <2>1. i \in 1 .. Len(c.locals) /\ i <= Base(c, d)
    BY BaseIs
  <2>2. c.locals[i].depth \in 1 .. d
    BY <2>1, BaseIs
  <2> QED
    BY <2>1, <2>2
<1> QED
  BY <1>3, <1>4 DEF Slots

-----------------------------------------------------------------------------
(* The locals are what the blocks declare                                  *)

LEMMA NamedIs ==
    ASSUME NEW c \in Compilers, NEW bs, Named(c, bs)
    PROVE  /\ Len(bs) = c.scopeDepth /\ Len(bs) \in Nat
           /\ \A i \in 1 .. Len(c.locals) : Level(c, i) \in 1 .. Len(bs)
           /\ \A i \in 1 .. Len(c.locals) :
                 c.locals[i].depth # Uninitialized => Level(c, i) = c.locals[i].depth
           /\ ~Inner(c) => \A i \in 1 .. Len(c.locals) : c.locals[i].depth # Uninitialized
           /\ \A i \in 1 .. Len(c.locals) : i # Len(c.locals) => c.locals[i].depth # Uninitialized
<1>1. /\ Len(bs) = c.scopeDepth /\ Len(bs) \in Nat
      /\ \A i \in 1 .. Len(c.locals) : Level(c, i) \in 1 .. Len(bs)
  BY CompilerIs DEF Named
<1>2. \A i \in 1 .. Len(c.locals) :
                 c.locals[i].depth # Uninitialized => Level(c, i) = c.locals[i].depth
  BY DEF Level
<1>3. Len(c.locals) \in Nat
  BY CompilerIs
<1>4. ASSUME NEW i \in 1 .. Len(c.locals), i # Len(c.locals)
      PROVE  c.locals[i].depth # Uninitialized
  <2>1. i < Len(c.locals) /\ Len(c.locals) \in 1 .. Len(c.locals)
    BY <1>3, <1>4
  <2> QED
    BY <2>1 DEF Named
<1>5. ASSUME ~Inner(c), NEW i \in 1 .. Len(c.locals)
      PROVE  c.locals[i].depth # Uninitialized
  <2>1. Len(c.locals) > 0
    BY <1>3
  <2> QED
    BY <2>1, <1>4, <1>5 DEF Inner
<1> QED
  BY <1>1, <1>2, <1>4, <1>5

LEMMA NamedSame ==
    ASSUME NEW c \in Compilers, NEW bs, Named(c, bs), NEW e \in Compilers, SameLocals(c, e),
           NEW bb, Len(bb) = Len(bs), \A d \in 1 .. Len(bs) : bb[d].decls = bs[d].decls
    PROVE  Named(e, bb) /\ (Inner(e) <=> Inner(c))
<1>1. /\ Len(e.locals) = Len(c.locals) /\ e.scopeDepth = c.scopeDepth /\ Len(c.locals) \in Nat
      /\ \A i \in 1 .. Len(c.locals) :
            /\ e.locals[i].name = c.locals[i].name /\ e.locals[i].var = c.locals[i].var
            /\ e.locals[i].depth = c.locals[i].depth
  BY CompilerIs DEF SameLocals
<1>2. \A i \in 1 .. Len(c.locals) : Level(e, i) = Level(c, i)
  BY <1>1 DEF Level
<1>3. Inner(e) <=> Inner(c)
  BY <1>1 DEF Inner
<1>4. Len(bb) = e.scopeDepth
  BY <1>1 DEF Named
<1>5. \A i \in 1 .. Len(e.locals) : Level(e, i) \in 1 .. Len(bb)
  BY <1>1, <1>2 DEF Named
<1>6. \A i, j \in 1 .. Len(e.locals) :
          i < j => Level(e, i) <= Level(e, j) /\ e.locals[i].depth # Uninitialized
  BY <1>1, <1>2 DEF Named
<1>7. \A i \in 1 .. Len(e.locals) : e.locals[i].name # NoName =>
           /\ e.locals[i].name \in DOMAIN bb[Level(e, i)].decls
           /\ bb[Level(e, i)].decls[e.locals[i].name] = e.locals[i].var
  <2> SUFFICES ASSUME NEW i \in 1 .. Len(e.locals), e.locals[i].name # NoName
               PROVE  /\ e.locals[i].name \in DOMAIN bb[Level(e, i)].decls
                      /\ bb[Level(e, i)].decls[e.locals[i].name] = e.locals[i].var
    OBVIOUS
  <2>1. i \in 1 .. Len(c.locals) /\ c.locals[i].name # NoName
    BY <1>1
  <2>2. /\ c.locals[i].name \in DOMAIN bs[Level(c, i)].decls
        /\ bs[Level(c, i)].decls[c.locals[i].name] = c.locals[i].var
    BY <2>1 DEF Named
  <2>3. bb[Level(c, i)].decls = bs[Level(c, i)].decls
    BY <2>1, <1>5, <1>1, <1>2
  <2> QED
    BY <1>1, <1>2, <2>1, <2>2, <2>3
<1>8. ASSUME NEW d \in 1 .. Len(bb), NEW n \in DOMAIN bb[d].decls
      PROVE  \E i \in 1 .. Len(e.locals) : Level(e, i) = d /\ e.locals[i].name = n
  <2>1. d \in 1 .. Len(bs) /\ n \in DOMAIN bs[d].decls
    OBVIOUS
  <2>2. PICK i \in 1 .. Len(c.locals) : Level(c, i) = d /\ c.locals[i].name = n
    BY <2>1 DEF Named
  <2> QED
    BY <1>1, <1>2, <2>2
<1>9. \A i, j \in 1 .. Len(e.locals) :
           i # j /\ e.locals[i].name = e.locals[j].name /\ e.locals[i].name # NoName
           => Level(e, i) # Level(e, j)
  BY <1>1, <1>2 DEF Named
<1> QED
  BY <1>3, <1>4, <1>5, <1>6, <1>7, <1>8, <1>9 DEF Named

\* bb is bs, with n declared for v in the last block if it is a name.
NamesMore(bs, bb, n, v) ==
    /\ Len(bb) = Len(bs)
    /\ \A d \in 1 .. Len(bs) : \A m \in DOMAIN bs[d].decls :
           m \in DOMAIN bb[d].decls /\ bb[d].decls[m] = bs[d].decls[m]
    /\ \A d \in 1 .. Len(bs) : \A m \in DOMAIN bb[d].decls :
           m \in DOMAIN bs[d].decls \/ (d = Len(bs) /\ m = n)
    /\ n # NoName => /\ n \notin DOMAIN bs[Len(bs)].decls /\ n \in DOMAIN bb[Len(bs)].decls
                     /\ bb[Len(bs)].decls[n] = v

\* e is c with the local n for the variable v.
LocalMore(c, e, n, v) ==
    /\ e.scopeDepth = c.scopeDepth /\ Len(e.locals) = Len(c.locals) + 1
    /\ \A i \in 1 .. Len(c.locals) : e.locals[i] = c.locals[i]
    /\ e.locals[Len(c.locals) + 1].name = n /\ e.locals[Len(c.locals) + 1].var = v
    /\ e.locals[Len(c.locals) + 1].depth \in {Uninitialized, c.scopeDepth}

LEMMA NamedDeclare ==
    ASSUME NEW c \in Compilers, NEW bs, Named(c, bs), ~Inner(c), Len(bs) > 0,
           NEW n \in Nat, NEW v \in Nat, NEW e \in Compilers, LocalMore(c, e, n, v),
           NEW bb, NamesMore(bs, bb, n, v)
    PROVE  Named(e, bb)
<1>0. /\ e.scopeDepth = c.scopeDepth /\ Len(e.locals) = Len(c.locals) + 1
      /\ \A i \in 1 .. Len(c.locals) : e.locals[i] = c.locals[i]
      /\ e.locals[Len(c.locals) + 1].name = n /\ e.locals[Len(c.locals) + 1].var = v
      /\ e.locals[Len(c.locals) + 1].depth \in {Uninitialized, c.scopeDepth}
      /\ Len(bb) = Len(bs)
      /\ \A d \in 1 .. Len(bs) : \A m \in DOMAIN bs[d].decls :
             m \in DOMAIN bb[d].decls /\ bb[d].decls[m] = bs[d].decls[m]
      /\ \A d \in 1 .. Len(bs) : \A m \in DOMAIN bb[d].decls :
             m \in DOMAIN bs[d].decls \/ (d = Len(bs) /\ m = n)
      /\ n # NoName => /\ n \notin DOMAIN bs[Len(bs)].decls /\ n \in DOMAIN bb[Len(bs)].decls
                       /\ bb[Len(bs)].decls[n] = v
  BY DEF LocalMore, NamesMore
<1> USE <1>0
<1> DEFINE k == Len(c.locals)
<1>1. k \in Nat /\ k + 1 \in Nat /\ \A i \in 1 .. k + 1 : i \in 1 .. k \/ i = k + 1
  BY CompilerIs
<1>2. /\ Len(bs) = c.scopeDepth /\ Len(bs) \in Nat
      /\ \A i \in 1 .. k : /\ c.locals[i].depth \in 1 .. Len(bs) /\ Level(c, i) = c.locals[i].depth
                           /\ c.locals[i].depth # Uninitialized
  BY NamedIs
<1>3. Level(e, k + 1) = Len(bs)
  BY <1>2 DEF Level
<1>4. \A i \in 1 .. k : Level(e, i) = Level(c, i) /\ Level(e, i) \in 1 .. Len(bs)
  BY <1>2 DEF Level
<1> HIDE DEF k
<1>5. \A i \in 1 .. k + 1 : Level(e, i) \in 1 .. Len(bs)
  BY <1>1, <1>2, <1>3, <1>4
<1>6. ASSUME NEW i \in 1 .. k + 1, NEW j \in 1 .. k + 1, i < j
      PROVE  Level(e, i) <= Level(e, j) /\ e.locals[i].depth # Uninitialized
  <2>1. i \in 1 .. k
    BY <1>1, <1>6
  <2>2. CASE j \in 1 .. k
    <3>1. Level(c, i) <= Level(c, j)
      BY <1>6, <2>1, <2>2 DEF Named, k
    <3> QED
      BY <1>2, <1>4, <2>1, <2>2, <3>1 DEF k
  <2>3. CASE j = k + 1
    BY <1>2, <1>3, <1>4, <2>1, <2>3 DEF k
  <2> QED
    BY <1>1, <2>2, <2>3
<1>7. ASSUME NEW i \in 1 .. k + 1, e.locals[i].name # NoName
      PROVE  /\ e.locals[i].name \in DOMAIN bb[Level(e, i)].decls
             /\ bb[Level(e, i)].decls[e.locals[i].name] = e.locals[i].var
  <2>1. CASE i \in 1 .. k
    <3>1. e.locals[i] = c.locals[i]
      BY <2>1 DEF k
    <3>2. /\ c.locals[i].name \in DOMAIN bs[Level(c, i)].decls
          /\ bs[Level(c, i)].decls[c.locals[i].name] = c.locals[i].var
      BY <1>7, <2>1, <3>1 DEF Named, k
    <3> QED
      BY <1>4, <2>1, <3>1, <3>2
  <2>2. CASE i = k + 1
    BY <1>3, <1>7, <2>2 DEF k
  <2> QED
    BY <1>1, <2>1, <2>2
<1>8. ASSUME NEW d \in 1 .. Len(bs), NEW m \in DOMAIN bb[d].decls
      PROVE  \E i \in 1 .. k + 1 : Level(e, i) = d /\ e.locals[i].name = m
  <2>1. CASE m \in DOMAIN bs[d].decls
    <3>1. PICK i \in 1 .. k : Level(c, i) = d /\ c.locals[i].name = m
      BY <2>1 DEF Named, k
    <3>2. i \in 1 .. k + 1 /\ e.locals[i] = c.locals[i]
      BY <1>1, <3>1 DEF k
    <3> QED
      BY <1>4, <3>1, <3>2
  <2>2. CASE d = Len(bs) /\ m = n
    <3>1. k + 1 \in 1 .. k + 1
      BY <1>1
    <3> QED
      BY <1>3, <2>2, <3>1 DEF k
  <2> QED
    BY <2>1, <2>2
<1>9. ASSUME NEW i \in 1 .. k + 1, NEW j \in 1 .. k + 1, i # j,
             e.locals[i].name = e.locals[j].name, e.locals[i].name # NoName
      PROVE  Level(e, i) # Level(e, j)
  <2>1. ASSUME NEW x \in 1 .. k, e.locals[x].name = n, n # NoName PROVE Level(e, x) # Len(bs)
    <3>1. c.locals[x].name = n
      BY <2>1 DEF k
    <3>2. n \in DOMAIN bs[Level(c, x)].decls
      BY <2>1, <3>1 DEF Named, k
    <3> QED
      BY <1>4, <2>1, <3>2
  <2>2. CASE i \in 1 .. k /\ j \in 1 .. k
    <3>1. e.locals[i] = c.locals[i] /\ e.locals[j] = c.locals[j]
      BY <2>2 DEF k
    <3>2. Level(c, i) # Level(c, j)
      BY <1>9, <2>2, <3>1 DEF Named, k
    <3> QED
      BY <1>4, <2>2, <3>2
  <2>3. CASE i = k + 1
    <3>1. j \in 1 .. k /\ e.locals[j].name = n /\ n # NoName
      BY <1>1, <1>9, <2>3 DEF k
    <3> QED
      BY <1>3, <2>1, <2>3, <3>1
  <2>4. CASE j = k + 1
    <3>1. i \in 1 .. k /\ e.locals[i].name = n /\ n # NoName
      BY <1>1, <1>9, <2>4 DEF k
    <3> QED
      BY <1>3, <2>1, <2>4, <3>1
  <2> QED
    BY <1>1, <2>2, <2>3, <2>4
<1>10. Len(e.locals) = k + 1 /\ Len(bb) = e.scopeDepth
  BY <1>2 DEF k
<1> QED
  BY <1>5, <1>6, <1>7, <1>8, <1>9, <1>10 DEF Named

LEMMA NamedMark ==
    ASSUME NEW c \in Compilers, NEW bs, Named(c, bs), Inner(c),
           NEW e \in Compilers, e.scopeDepth = c.scopeDepth, Len(e.locals) = Len(c.locals),
           \A i \in 1 .. Len(c.locals) : i # Len(c.locals) => e.locals[i] = c.locals[i],
           e.locals[Len(c.locals)].name = c.locals[Len(c.locals)].name,
           e.locals[Len(c.locals)].var = c.locals[Len(c.locals)].var,
           e.locals[Len(c.locals)].depth = c.scopeDepth
    PROVE  Named(e, bs) /\ ~Inner(e)
<1> DEFINE k == Len(c.locals)
<1>1. k \in Nat /\ k > 0 /\ k \in 1 .. k /\ c.locals[k].depth = Uninitialized /\ c.scopeDepth \in Nat
  BY CompilerIs DEF Inner
<1>2. \A i \in 1 .. k : Level(e, i) = Level(c, i)
  BY <1>1 DEF Level, Uninitialized
<1>3. \A i \in 1 .. k : e.locals[i].name = c.locals[i].name /\ e.locals[i].var = c.locals[i].var
  BY <1>1
<1>4. Len(e.locals) = k
  OBVIOUS
<1>5. \A i \in 1 .. k : i # k => e.locals[i] = c.locals[i]
  OBVIOUS
<1>6. ~Inner(e)
  BY <1>1, <1>4 DEF Inner, Uninitialized
<1>7. Len(bs) = e.scopeDepth
  BY DEF Named
<1>8. \A i, j \in 1 .. k : i < j => Level(e, i) <= Level(e, j) /\ e.locals[i].depth # Uninitialized
  <2> SUFFICES ASSUME NEW i \in 1 .. k, NEW j \in 1 .. k, i < j
               PROVE  Level(e, i) <= Level(e, j) /\ e.locals[i].depth # Uninitialized
    OBVIOUS
  <2>1. Level(c, i) <= Level(c, j) /\ c.locals[i].depth # Uninitialized
    BY DEF Named
  <2>2. i # k
    BY <1>1
  <2> QED
    BY <1>2, <1>5, <2>1, <2>2
<1>9. \A i \in 1 .. k : Level(e, i) \in 1 .. Len(bs)
  BY <1>2 DEF Named
<1>10. \A i \in 1 .. k : e.locals[i].name # NoName =>
           /\ e.locals[i].name \in DOMAIN bs[Level(e, i)].decls
           /\ bs[Level(e, i)].decls[e.locals[i].name] = e.locals[i].var
  BY <1>2, <1>3 DEF Named
<1>11. \A d \in 1 .. Len(bs) : \A n \in DOMAIN bs[d].decls :
           \E i \in 1 .. k : Level(e, i) = d /\ e.locals[i].name = n
  BY <1>2, <1>3 DEF Named
<1>12. \A i, j \in 1 .. k :
           i # j /\ e.locals[i].name = e.locals[j].name /\ e.locals[i].name # NoName
           => Level(e, i) # Level(e, j)
  BY <1>2, <1>3 DEF Named
<1> HIDE DEF k
<1> QED
  BY <1>4, <1>6, <1>7, <1>8, <1>9, <1>10, <1>11, <1>12 DEF Named

LEMMA NamedOpen ==
    ASSUME NEW c \in Compilers, NEW bs, Named(c, bs), ~Inner(c),
           NEW e \in Compilers, e.scopeDepth = c.scopeDepth + 1, e.locals = c.locals,
           NEW bb, Len(bb) = Len(bs) + 1, \A d \in 1 .. Len(bs) : bb[d].decls = bs[d].decls,
           DOMAIN bb[Len(bs) + 1].decls = {}
    PROVE  Named(e, bb) /\ ~Inner(e)
<1>1. /\ Len(bs) = c.scopeDepth /\ Len(bs) \in Nat
      /\ \A i \in 1 .. Len(c.locals) :
            Level(c, i) = c.locals[i].depth /\ c.locals[i].depth # Uninitialized
      /\ \A i \in 1 .. Len(c.locals) : Level(c, i) \in 1 .. Len(bs)
  BY NamedIs
<1>2. \A i \in 1 .. Len(c.locals) : Level(e, i) = Level(c, i)
  BY <1>1 DEF Level
<1>3. \A d \in 1 .. Len(bb) : d \in 1 .. Len(bs) \/ d = Len(bs) + 1
  BY <1>1
<1>4. \A d \in 1 .. Len(bs) : d \in 1 .. Len(bb)
  BY <1>1
<1>5. ~Inner(e)
  BY DEF Inner
<1>6. \A i \in 1 .. Len(c.locals) : Level(e, i) \in 1 .. Len(bb)
  BY <1>1, <1>2, <1>4
<1>7. \A i, j \in 1 .. Len(c.locals) :
          i < j => Level(e, i) <= Level(e, j) /\ c.locals[i].depth # Uninitialized
  BY <1>2 DEF Named
<1>8. \A i \in 1 .. Len(c.locals) : c.locals[i].name # NoName =>
           /\ c.locals[i].name \in DOMAIN bb[Level(e, i)].decls
           /\ bb[Level(e, i)].decls[c.locals[i].name] = c.locals[i].var
  <2> SUFFICES ASSUME NEW i \in 1 .. Len(c.locals), c.locals[i].name # NoName
               PROVE  /\ c.locals[i].name \in DOMAIN bb[Level(e, i)].decls
                      /\ bb[Level(e, i)].decls[c.locals[i].name] = c.locals[i].var
    OBVIOUS
  <2>1. Level(e, i) = Level(c, i) /\ Level(c, i) \in 1 .. Len(bs)
    BY <1>1, <1>2
  <2>2. /\ c.locals[i].name \in DOMAIN bs[Level(c, i)].decls
        /\ bs[Level(c, i)].decls[c.locals[i].name] = c.locals[i].var
    BY DEF Named
  <2> QED
    BY <2>1, <2>2
<1>9. \A d \in 1 .. Len(bb) : \A n \in DOMAIN bb[d].decls :
           \E i \in 1 .. Len(c.locals) : Level(e, i) = d /\ c.locals[i].name = n
  BY <1>2, <1>3 DEF Named
<1>10. \A i, j \in 1 .. Len(c.locals) :
           i # j /\ c.locals[i].name = c.locals[j].name /\ c.locals[i].name # NoName
           => Level(e, i) # Level(e, j)
  BY <1>2 DEF Named
<1> QED
  BY <1>1, <1>5, <1>6, <1>7, <1>8, <1>9, <1>10 DEF Named

LEMMA NamedClose ==
    ASSUME NEW c \in Compilers, NEW bs, Named(c, bs), ~Inner(c), Len(bs) > 1,
           NEW e \in Compilers, e.scopeDepth = c.scopeDepth - 1,
           Len(e.locals) = Base(c, c.scopeDepth - 1),
           \A i \in 1 .. Len(e.locals) : e.locals[i] = c.locals[i],
           NEW bb, Len(bb) = Len(bs) - 1, \A d \in 1 .. Len(bs) - 1 : bb[d].decls = bs[d].decls
    PROVE  Named(e, bb) /\ ~Inner(e)
<1> DEFINE k == Base(c, c.scopeDepth - 1)
<1>1. /\ Len(bs) = c.scopeDepth /\ Len(bs) \in Nat /\ c.scopeDepth - 1 \in Nat
      /\ \A i \in 1 .. Len(c.locals) :
            Level(c, i) = c.locals[i].depth /\ c.locals[i].depth # Uninitialized
      /\ \A i \in 1 .. Len(c.locals) : Level(c, i) \in 1 .. Len(bs)
      /\ Len(c.locals) \in Nat
  BY NamedIs, CompilerIs
<1>2. /\ k \in 0 .. Len(c.locals)
      /\ \A i \in 1 .. Len(c.locals) : i <= k <=> c.locals[i].depth \in 1 .. c.scopeDepth - 1
  BY <1>1, NamedIsSorted, BaseIs
<1> HIDE DEF k
<1>3. \A i \in 1 .. k : i \in 1 .. Len(c.locals) /\ i <= k
  BY <1>1, <1>2
<1>4. \A i \in 1 .. k : Level(e, i) = Level(c, i) /\ Level(e, i) \in 1 .. Len(bb)
  BY <1>1, <1>2, <1>3 DEF Level, k
<1>5. ~Inner(e)
  <2> SUFFICES ASSUME Len(e.locals) > 0 PROVE e.locals[Len(e.locals)].depth # Uninitialized
    BY DEF Inner
  <2>1. k \in 1 .. k /\ Len(e.locals) = k
    BY <1>1, <1>2 DEF k
  <2>2. e.locals[k] = c.locals[k] /\ k \in 1 .. Len(c.locals)
    BY <1>3, <2>1
  <2> QED
    BY <1>1, <2>1, <2>2
<1>6. \A i, j \in 1 .. k : i < j => Level(e, i) <= Level(e, j) /\ e.locals[i].depth # Uninitialized
  BY <1>3, <1>4 DEF Named, k
<1>7. \A d \in 1 .. Len(bb) : d \in 1 .. Len(bs) - 1 /\ d \in 1 .. Len(bs)
  BY <1>1
<1>8. \A i \in 1 .. k : e.locals[i].name # NoName =>
           /\ e.locals[i].name \in DOMAIN bb[Level(e, i)].decls
           /\ bb[Level(e, i)].decls[e.locals[i].name] = e.locals[i].var
  <2> SUFFICES ASSUME NEW i \in 1 .. k, e.locals[i].name # NoName
               PROVE  /\ e.locals[i].name \in DOMAIN bb[Level(e, i)].decls
                      /\ bb[Level(e, i)].decls[e.locals[i].name] = e.locals[i].var
    OBVIOUS
  <2>1. i \in 1 .. Len(c.locals) /\ e.locals[i] = c.locals[i] /\ Level(e, i) = Level(c, i)
        /\ bb[Level(e, i)].decls = bs[Level(e, i)].decls
    BY <1>3, <1>4, <1>7 DEF k
  <2>2. /\ c.locals[i].name \in DOMAIN bs[Level(c, i)].decls
        /\ bs[Level(c, i)].decls[c.locals[i].name] = c.locals[i].var
    BY <2>1 DEF Named
  <2> QED
    BY <2>1, <2>2
<1>9. ASSUME NEW d \in 1 .. Len(bb), NEW n \in DOMAIN bb[d].decls
      PROVE  \E i \in 1 .. k : Level(e, i) = d /\ e.locals[i].name = n
  <2>1. d \in 1 .. Len(bs) - 1 /\ d \in 1 .. Len(bs) /\ n \in DOMAIN bs[d].decls
    BY <1>7
  <2>2. PICK i \in 1 .. Len(c.locals) : Level(c, i) = d /\ c.locals[i].name = n
    BY <2>1 DEF Named
  <2>3. i <= k
    BY <1>1, <1>2, <2>1, <2>2
  <2>4. i \in 1 .. k
    BY <1>1, <1>2, <2>3
  <2> QED
    BY <1>4, <2>2, <2>4 DEF k
<1>10. \A i, j \in 1 .. k :
           i # j /\ e.locals[i].name = e.locals[j].name /\ e.locals[i].name # NoName
           => Level(e, i) # Level(e, j)
  BY <1>3, <1>4 DEF Named, k
<1>11. Len(e.locals) = k /\ Len(bb) = e.scopeDepth
  BY <1>1 DEF k
<1> QED
  BY <1>4, <1>5, <1>6, <1>8, <1>9, <1>10, <1>11 DEF Named

\* What emitScopeCleanup leaves are the locals that have a slot.
LEMMA KeptIs ==
    ASSUME NEW c \in Compilers, Sorted(c), ~Inner(c), NEW d \in Nat
    PROVE  Kept(c, d) = Base(c, d)
<1>1. Len(c.locals) \in Nat /\ DOMAIN c.locals = 1 .. Len(c.locals)
  BY CompilerIs
<1>2. ASSUME NEW i \in 1 .. Len(c.locals) PROVE c.locals[i].depth \in 1 .. c.scopeDepth
  <2>1. c.locals[i].depth # Uninitialized
    <3>1. CASE i = Len(c.locals)
      <4>1. Len(c.locals) > 0
        BY <1>1
      <4> QED
        BY <3>1, <4>1 DEF Inner
    <3>2. CASE i # Len(c.locals)
      <4>1. i < Len(c.locals) /\ Len(c.locals) \in 1 .. Len(c.locals)
        BY <1>1, <3>2
      <4> QED
        BY <4>1 DEF Sorted
    <3> QED
      BY <3>1, <3>2
  <2> QED
    BY <2>1 DEF Sorted
<1>3. \A i \in 1 .. Len(c.locals) : c.locals[i].depth <= d <=> c.locals[i].depth \in 1 .. d
  BY <1>2, CompilerIs
<1>4. {i \in DOMAIN c.locals : c.locals[i].depth <= d}
         = {i \in 1 .. Len(c.locals) : c.locals[i].depth \in 1 .. d}
  BY <1>1, <1>3
<1> QED
  BY <1>4 DEF Kept, Base

-----------------------------------------------------------------------------
(* Code that grows keeps what its stack is                                 *)

LEMMA ConstructIs ==
    ASSUME NEW b \in Constructs
    PROVE  /\ b.kind \in {"fn", "block", "for", "loop", "match", "case"}
           /\ b.decls \in Decls
           /\ b.kind = "fn" => b.self \in Nat
           /\ b.kind = "loop" =>
                 /\ b.start \in Nat /\ b.breakDepth \in Nat /\ b.continueDepth \in Nat
                 /\ b.breaks \in SUBSET Nat /\ b.own \in Nat /\ b.left \in BOOLEAN
           /\ b.kind = "match" => b.ends \in SUBSET Nat
           /\ b.kind = "case" => b.fails \in SUBSET Nat
<1> DEFINE F == [kind : {"fn"}, decls : Decls, self : Nat]
           B == [kind : {"block", "for"}, decls : Decls]
           W == [kind : {"loop"}, decls : Decls, start : Nat, breakDepth : Nat, continueDepth : Nat,
                 breaks : SUBSET Nat, own : Nat, left : BOOLEAN]
           M == [kind : {"match"}, decls : Decls, ends : SUBSET Nat]
           C == [kind : {"case"}, decls : Decls, fails : SUBSET Nat]
<1>1. b \in F \/ b \in B \/ b \in W \/ b \in M \/ b \in C
  BY Zenon DEF Constructs
<1>2. b \in F => b.kind = "fn" /\ b.decls \in Decls /\ b.self \in Nat
  BY Zenon
<1>3. b \in B => b.kind \in {"block", "for"} /\ b.decls \in Decls
  BY Zenon
<1>4. b \in W => /\ b.kind = "loop" /\ b.decls \in Decls
                 /\ b.start \in Nat /\ b.breakDepth \in Nat /\ b.continueDepth \in Nat
                 /\ b.breaks \in SUBSET Nat /\ b.own \in Nat /\ b.left \in BOOLEAN
  BY Zenon
<1>5. b \in M => b.kind = "match" /\ b.decls \in Decls /\ b.ends \in SUBSET Nat
  BY Zenon
<1>6. b \in C => b.kind = "case" /\ b.decls \in Decls /\ b.fails \in SUBSET Nat
  BY Zenon
<1> HIDE DEF F, B, W, M, C
<1>7. PICK k : k = b.kind
  OBVIOUS
<1> QED
  BY <1>1, <1>2, <1>3, <1>4, <1>5, <1>6, <1>7, Zenon

LEMMA FlowStepKeep ==
    ASSUME NEW i \in Instructions, NEW n \in Nat, NEW p \in 1 .. n, NEW k \in Nat, n <= k,
           NEW L \in [Nat -> Seq(Nat)], NEW M \in [Nat -> Seq(Nat)],
           \A q \in 1 .. n + 1 : M[q] = L[q],
           FlowStep(i, L, p, n)
    PROVE  FlowStep(i, M, p, k)
<1>1. /\ p \in 1 .. n + 1 /\ p + 1 \in 1 .. n + 1
      /\ \A q \in 1 .. n + 1 : q \in 1 .. k + 1
  OBVIOUS
<1>2. M[p] = L[p] /\ M[p + 1] = L[p + 1]
  BY <1>1
<1>3. ASSUME NEW t \in 1 .. n + 1 PROVE t \in 1 .. k + 1 /\ M[t] = L[t]
  BY <1>1
<1>4. /\ i.op \in {"push", "closure"} => M[p + 1] = Append(M[p], i.var)
      /\ i.op = "closure" => \A x \in i.captures : x.at \in 1 .. Len(M[p]) /\ M[p][x.at] = x.var
      /\ i.op \in {"pop", "close"} => Len(M[p]) > 0 /\ M[p + 1] = Front(M[p])
      /\ i.op \in {"get", "upvalue", "branch"} => M[p + 1] = M[p]
      /\ i.op = "get" => i.at \in 1 .. Len(M[p]) /\ M[p][i.at] = i.var
  BY <1>2, Zenon DEF FlowStep
<1>5. /\ i.op = "jump" /\ i.to # 0 => i.to \in 1 .. k + 1 /\ M[i.to] = M[p]
      /\ i.op = "branch" /\ i.to # 0 /\ i.leaves = 0 => i.to \in 1 .. k + 1 /\ M[i.to] = M[p]
  <2>1. /\ i.op = "jump" /\ i.to # 0 => i.to \in 1 .. n + 1 /\ L[i.to] = L[p]
        /\ i.op = "branch" /\ i.to # 0 /\ i.leaves = 0 => i.to \in 1 .. n + 1 /\ L[i.to] = L[p]
    BY Zenon DEF FlowStep
  <2> QED
    BY <1>2, <1>3, <2>1, Zenon
<1> QED
  BY <1>4, <1>5, Zenon DEF FlowStep

\* The code of e is that of c, and then xs.
Grown(c, e, xs) ==
    /\ Len(e.code) = Len(c.code) + Len(xs)
    /\ \A p \in 1 .. Len(c.code) : e.code[p] = c.code[p]
    /\ \A q \in 1 .. Len(xs) : e.code[Len(c.code) + q] = xs[q]

LEMMA GrownIs ==
    ASSUME NEW c \in Compilers, NEW e \in Compilers, NEW xs \in Seq(Instructions), Grown(c, e, xs)
    PROVE  /\ Len(c.code) \in Nat /\ Len(xs) \in Nat /\ Len(c.code) <= Len(e.code)
           /\ Len(e.code) \in Nat
           /\ End(c) = Len(c.code) + 1 /\ End(e) = Len(c.code) + Len(xs) + 1
           /\ End(c) \in 1 .. Len(c.code) + 1
           /\ \A p \in 1 .. Len(c.code) :
                 /\ p \in 1 .. Len(e.code) /\ e.code[p] = c.code[p]
                 /\ p \in 1 .. Len(c.code) + 1 /\ p + 1 \in 1 .. Len(c.code) + 1
<1>1. PICK n \in Nat, k \in Nat, l \in Nat : n = Len(c.code) /\ k = Len(xs) /\ l = Len(e.code)
  BY CompilerIs, LenProperties
<1>2. l = n + k
  BY <1>1 DEF Grown
<1>3. End(c) = n + 1 /\ End(e) = l + 1
  BY <1>1, CompilerIs
<1>4. \A p \in 1 .. n : p \in 1 .. l /\ p \in 1 .. n + 1 /\ p + 1 \in 1 .. n + 1
  BY <1>2
<1>7. n <= l /\ l + 1 = n + k + 1 /\ n + 1 \in 1 .. n + 1
  BY <1>2
<1>8. \A p \in 1 .. n : e.code[p] = c.code[p]
  BY <1>1 DEF Grown
<1> QED
  BY <1>1, <1>3, <1>4, <1>7, <1>8

LEMMA GrownSplit ==
    ASSUME NEW c \in Compilers, NEW e \in Compilers, NEW xs \in Seq(Instructions), Grown(c, e, xs)
    PROVE  /\ \A p \in 1 .. Len(e.code) :
                 p \in 1 .. Len(c.code)
                 \/ \E q \in 1 .. Len(xs) : p = Len(c.code) + q /\ e.code[p] = xs[q]
           /\ \A p \in 1 .. Len(e.code) + 1 :
                 p \in 1 .. Len(c.code) + 1 \/ \E q \in 1 .. Len(xs) : p = Len(c.code) + q + 1
<1>1. PICK n \in Nat, k \in Nat, l \in Nat : n = Len(c.code) /\ k = Len(xs) /\ l = Len(e.code)
  BY CompilerIs, LenProperties
<1>2. l = n + k
  BY <1>1 DEF Grown
<1>5. \A p \in 1 .. l : p \in 1 .. n \/ (p - n \in 1 .. k /\ p = n + (p - n))
  BY <1>2
<1>6. \A p \in 1 .. l + 1 : p \in 1 .. n + 1 \/ (p - n - 1 \in 1 .. k /\ p = n + (p - n - 1) + 1)
  BY <1>2
<1>9. \A q \in 1 .. k : e.code[n + q] = xs[q]
  BY <1>1 DEF Grown
<1>10. ASSUME NEW p \in 1 .. l PROVE p \in 1 .. n \/ \E q \in 1 .. k : p = n + q /\ e.code[p] = xs[q]
  BY <1>5, <1>9
<1>11. ASSUME NEW p \in 1 .. l + 1 PROVE p \in 1 .. n + 1 \/ \E q \in 1 .. k : p = n + q + 1
  BY <1>6
<1> QED
  BY <1>1, <1>10, <1>11

\* The slots in the scopes up to m are the same.
SameUpTo(c, e, m) ==
    \A d \in 0 .. m : Base(e, d) = Base(c, d) /\ Slots(e, d) = Slots(c, d)

\* Instruction i at p, with the stack s before it, is one that may stand in the loop b.
InLoop(i, s, b, L) ==
    /\ i.op = "pop" => Len(s) > Len(L[b.start]) \/ (b.left = TRUE /\ Len(s) = Len(L[b.start]))
    /\ i.op \in {"jump", "branch"} => i.to = 0 \/ i.to >= b.start

LEMMA OwnIs ==
    ASSUME NEW c \in Compilers, Sorted(c), NEW e \in Compilers, Sorted(e), NEW m \in Nat,
           Base(e, m) = Base(c, m), Slots(e, m) = Slots(c, m), Base(c, m) > 0
    PROVE  e.locals[Base(e, m)].var = c.locals[Base(c, m)].var
<1>1. Base(c, m) \in 1 .. Base(c, m)
  <2>1. Base(c, m) \in 0 .. Len(c.locals) /\ Len(c.locals) \in Nat
    BY BaseIs, CompilerIs
  <2> QED
    BY <2>1
<1>2. /\ Slots(c, m)[Base(c, m)] = c.locals[Base(c, m)].var
      /\ Slots(e, m)[Base(e, m)] = e.locals[Base(e, m)].var
  BY <1>1, BaseIs
<1> QED
  BY <1>2

LEMMA BlockKept ==
    ASSUME NEW c \in Compilers, Sorted(c), NEW e \in Compilers, Sorted(e),
           NEW xs \in Seq(Instructions), Grown(c, e, xs),
           NEW d \in Nat \ {0}, NEW m \in Nat, SameUpTo(c, e, m), d - 1 <= m,
           NEW b \in Constructs, b.kind = "match" => d <= m,
           NEW L \in [Nat -> Seq(Nat)], NEW M \in [Nat -> Seq(Nat)],
           \A p \in 1 .. Len(c.code) + 1 : M[p] = L[p],
           b.kind = "loop" => \A q \in 1 .. Len(xs) : InLoop(xs[q], M[Len(c.code) + q], b, L),
           BlockLaid(b, d, c, L)
    PROVE  BlockLaid(b, d, e, M)
<1>1. PICK n \in Nat : n = Len(c.code)
  BY CompilerIs
<1>2. \A p \in 1 .. n : p \in 1 .. Len(e.code) /\ e.code[p] = c.code[p] /\ M[p] = L[p]
  <2>1. \A p \in 1 .. n : p \in 1 .. Len(e.code) /\ e.code[p] = c.code[p] /\ p \in 1 .. n + 1
    BY <1>1, GrownIs
  <2> QED
    BY <1>1, <2>1
<1>3. \A p \in 1 .. Len(e.code) :
          p \in 1 .. n \/ \E q \in 1 .. Len(xs) : p = n + q /\ e.code[p] = xs[q]
  <2>1. \A p \in 1 .. Len(e.code) :
            p \in 1 .. Len(c.code)
            \/ \E q \in 1 .. Len(xs) : p = Len(c.code) + q /\ e.code[p] = xs[q]
    BY GrownSplit
  <2> QED
    BY <1>1, <2>1
<1>4. CASE b.kind = "loop"
  <2>1. /\ b.continueDepth = d - 1 /\ d > 1
        /\ b.start \in 1 .. n /\ c.code[b.start].op = "branch" /\ c.code[b.start].leaves = 0
        /\ L[b.start] = Slots(c, d - 1)
        /\ \A j \in b.breaks :
               j \in 1 .. n /\ c.code[j].op = "jump" /\ L[j] = Slots(c, b.breakDepth)
        /\ b.own = Temp => b.breakDepth = d - 1 /\ b.left = FALSE
        /\ b.own # Temp =>
                /\ d > 2 /\ b.breakDepth = d - 2
                /\ Base(c, d - 1) = Base(c, d - 2) + 1
                /\ c.locals[Base(c, d - 1)].var = b.own
        /\ \A p \in b.start .. n :
                /\ c.code[p].op = "pop" =>
                      Len(L[p]) > Len(L[b.start]) \/ (b.left = TRUE /\ Len(L[p]) = Len(L[b.start]))
                /\ c.code[p].op \in {"jump", "branch"} => c.code[p].to = 0 \/ c.code[p].to >= b.start
    BY <1>1, <1>4 DEF BlockLaid
  <2>2. d - 1 \in 0 .. m /\ b.breakDepth \in 0 .. m
    <3>1. d - 1 \in 0 .. m
      BY <2>1
    <3>2. b.own = Temp \/ b.own # Temp
      OBVIOUS
    <3>3. b.breakDepth = d - 1 \/ (b.breakDepth = d - 2 /\ d > 2)
      BY <2>1, <3>2
    <3>4. d \in Nat /\ m \in Nat /\ d > 1 /\ d - 1 <= m
      BY <2>1
    <3>5. CASE b.breakDepth = d - 1
      BY <3>1, <3>5
    <3>6. CASE b.breakDepth = d - 2 /\ d > 2
      <4>1. d - 2 \in 0 .. m
        BY <3>4, <3>6
      <4> QED
        BY <3>1, <3>6, <4>1
    <3> QED
      BY <3>3, <3>5, <3>6
  <2>3. Slots(e, d - 1) = Slots(c, d - 1) /\ Slots(e, b.breakDepth) = Slots(c, b.breakDepth)
        /\ Base(e, d - 1) = Base(c, d - 1)
    BY <2>2 DEF SameUpTo
  <2>4. /\ b.start \in 1 .. Len(e.code) /\ e.code[b.start].op = "branch"
        /\ e.code[b.start].leaves = 0 /\ M[b.start] = Slots(e, d - 1)
    BY <1>2, <2>1, <2>3
  <2>5. \A j \in b.breaks :
           j \in 1 .. Len(e.code) /\ e.code[j].op = "jump" /\ M[j] = Slots(e, b.breakDepth)
    <3> TAKE j \in b.breaks
    <3>1. j \in 1 .. n /\ c.code[j].op = "jump" /\ L[j] = Slots(c, b.breakDepth)
      BY <2>1
    <3> QED
      BY <1>2, <2>3, <3>1
  <2>6. b.own # Temp => /\ d > 2 /\ b.breakDepth = d - 2
                        /\ Base(e, d - 1) = Base(e, d - 2) + 1
                        /\ e.locals[Base(e, d - 1)].var = b.own
    <3> SUFFICES ASSUME b.own # Temp
                 PROVE  /\ Base(e, d - 1) = Base(e, d - 2) + 1
                        /\ e.locals[Base(e, d - 1)].var = b.own
      BY <2>1
    <3>1. d - 2 \in 0 .. m /\ d - 1 \in Nat /\ d - 2 \in Nat
      BY <2>1
    <3>2. Base(e, d - 2) = Base(c, d - 2)
      BY <3>1 DEF SameUpTo
    <3>3. Base(c, d - 1) = Base(c, d - 2) + 1 /\ Base(c, d - 2) \in Nat
      BY <2>1, <3>1, BaseIs, CompilerIs
    <3>4. e.locals[Base(e, d - 1)].var = c.locals[Base(c, d - 1)].var
      <4>1. \A x, y : y \in Nat /\ x = y + 1 => x > 0
        OBVIOUS
      <4>2. Base(c, d - 1) > 0
        BY <3>3, <4>1, Zenon
      <4> QED
        BY <2>3, <3>1, <4>2, OwnIs
    <3> QED
      BY <2>1, <2>3, <3>2, <3>3, <3>4
  <2>7. ASSUME NEW p \in b.start .. Len(e.code)
        PROVE  /\ e.code[p].op = "pop" =>
                      Len(M[p]) > Len(M[b.start]) \/ (b.left = TRUE /\ Len(M[p]) = Len(M[b.start]))
               /\ e.code[p].op \in {"jump", "branch"} => e.code[p].to = 0 \/ e.code[p].to >= b.start
    <3>1. p \in 1 .. Len(e.code) /\ M[b.start] = L[b.start]
      <4>1. b.start \in 1 .. n /\ p \in b.start .. Len(e.code)
        BY <2>1
      <4>2. \A x, y, z : y \in 1 .. n /\ z \in Int /\ x \in y .. z => x \in 1 .. z
        BY <1>1
      <4>3. Len(e.code) \in Int
        BY CompilerIs
      <4> QED
        BY <1>2, <4>1, <4>2, <4>3, Zenon
    <3>2. CASE p \in 1 .. n
      <4>1. p \in b.start .. n
        BY <3>2
      <4>2. /\ c.code[p].op = "pop" =>
                  Len(L[p]) > Len(L[b.start]) \/ (b.left = TRUE /\ Len(L[p]) = Len(L[b.start]))
            /\ c.code[p].op \in {"jump", "branch"} => c.code[p].to = 0 \/ c.code[p].to >= b.start
        BY <2>1, <4>1
      <4>3. e.code[p] = c.code[p] /\ M[p] = L[p]
        BY <1>2, <3>2
      <4> QED
        BY <3>1, <4>2, <4>3
    <3>3. CASE \E q \in 1 .. Len(xs) : p = n + q /\ e.code[p] = xs[q]
      <4>1. PICK q \in 1 .. Len(xs) : p = n + q /\ e.code[p] = xs[q]
        BY <3>3
      <4>2. InLoop(e.code[p], M[p], b, L)
        BY <1>1, <1>4, <4>1
      <4> QED
        BY <3>1, <4>2 DEF InLoop
    <3> QED
      BY <1>3, <3>1, <3>2, <3>3
  <2> QED
    BY <1>4, <2>1, <2>4, <2>5, <2>6, <2>7 DEF BlockLaid
<1>5. CASE b.kind = "match"
  <2>1. \A j \in b.ends : j \in 1 .. n /\ c.code[j].op = "jump" /\ L[j] = Slots(c, d)
    BY <1>1, <1>5 DEF BlockLaid
  <2>2. Slots(e, d) = Slots(c, d)
    BY <1>5 DEF SameUpTo
  <2>3. \A j \in b.ends : j \in 1 .. Len(e.code) /\ e.code[j].op = "jump" /\ M[j] = Slots(e, d)
    BY <1>2, <2>1, <2>2
  <2> QED
    BY <1>5, <2>3 DEF BlockLaid
<1>6. CASE b.kind = "case"
  <2>1. /\ d > 1
        /\ \A j \in b.fails :
                /\ j \in 1 .. n /\ c.code[j].op = "branch"
                /\ c.code[j].leaves = 0 => L[j] = Slots(c, d - 1)
    BY <1>1, <1>6 DEF BlockLaid
  <2>2. Slots(e, d - 1) = Slots(c, d - 1)
    BY <2>1 DEF SameUpTo
  <2>3. \A j \in b.fails :
                /\ j \in 1 .. Len(e.code) /\ e.code[j].op = "branch"
                /\ e.code[j].leaves = 0 => M[j] = Slots(e, d - 1)
    <3> TAKE j \in b.fails
    <3>1. j \in 1 .. n /\ c.code[j].op = "branch" /\ (c.code[j].leaves = 0 => L[j] = Slots(c, d - 1))
      BY <2>1
    <3>2. j \in 1 .. Len(e.code) /\ e.code[j] = c.code[j] /\ M[j] = L[j]
      BY <1>2, <3>1
    <3> QED
      BY <2>2, <3>1, <3>2
  <2> QED
    BY <1>6, <2>1, <2>3 DEF BlockLaid
<1> QED
  BY <1>4, <1>5, <1>6 DEF BlockLaid

LEMMA ExtendLaid ==
    ASSUME NEW c \in Compilers, Sorted(c), NEW e \in Compilers, Sorted(e),
           NEW xs \in Seq(Instructions), Grown(c, e, xs),
           NEW bs, Len(bs) \in Nat, NEW m \in Nat, SameUpTo(c, e, m),
           \A d \in 1 .. Len(bs) : bs[d] \in Constructs /\ d - 1 <= m /\ (bs[d].kind = "match" => d <= m),
           NEW L, Laid(c, bs, L),
           NEW M \in [Nat -> Seq(Nat)], \A p \in 1 .. Len(c.code) + 1 : M[p] = L[p],
           \A q \in 1 .. Len(xs) : FlowStep(xs[q], M, Len(c.code) + q, Len(c.code) + Len(xs)),
           \A d \in 1 .. Len(bs) : bs[d].kind = "loop" =>
               \A q \in 1 .. Len(xs) : InLoop(xs[q], M[Len(c.code) + q], bs[d], L)
    PROVE  Laid(e, bs, M)
<1>1. PICK n \in Nat, l \in Nat : n = Len(c.code) /\ l = Len(e.code) /\ n <= l
  <2>1. Len(c.code) \in Nat /\ Len(e.code) \in Nat /\ Len(c.code) <= Len(e.code)
    BY GrownIs, Zenon
  <2> QED
    BY <2>1, Zenon
<1>2. L \in [Nat -> Seq(Nat)] /\ \A p \in 1 .. n : FlowStep(c.code[p], L, p, n)
  BY <1>1 DEF Laid, Flow
<1>3. ASSUME NEW p \in 1 .. l PROVE FlowStep(e.code[p], M, p, l)
  <2>1. CASE p \in 1 .. n
    <3>1. e.code[p] = c.code[p] /\ c.code[p] \in Instructions
      BY <1>1, <2>1, CompilerIs, GrownIs
    <3>2. FlowStep(c.code[p], L, p, n)
      BY <1>2, <2>1
    <3>3. \A q \in 1 .. n + 1 : M[q] = L[q]
      BY <1>1
    <3>4. FlowStep(c.code[p], M, p, l)
      BY <1>1, <1>2, <2>1, <3>1, <3>2, <3>3, FlowStepKeep
    <3> QED
      BY <3>1, <3>4
  <2>2. CASE \E q \in 1 .. Len(xs) : p = n + q /\ e.code[p] = xs[q]
    <3>1. l = n + Len(xs)
      BY <1>1 DEF Grown
    <3> QED
      BY <1>1, <2>2, <3>1
  <2>3. \A x \in 1 .. Len(e.code) :
            x \in 1 .. Len(c.code)
            \/ \E q \in 1 .. Len(xs) : x = Len(c.code) + q /\ e.code[x] = xs[q]
    BY GrownSplit
  <2> QED
    BY <1>1, <2>1, <2>2, <2>3, Zenon
<1>4. Flow(e.code, M)
  BY <1>1, <1>3 DEF Flow
<1>5. ASSUME NEW d \in 1 .. Len(bs) PROVE BlockLaid(bs[d], d, e, M)
  <2>1. BlockLaid(bs[d], d, c, L)
    BY DEF Laid
  <2>4. d \in Nat \ {0}
    OBVIOUS
  <2>2. bs[d] \in Constructs /\ d - 1 <= m /\ (bs[d].kind = "match" => d <= m)
    OBVIOUS
  <2>3. bs[d].kind = "loop" => \A q \in 1 .. Len(xs) : InLoop(xs[q], M[Len(c.code) + q], bs[d], L)
    OBVIOUS
  <2> QED
    BY <1>2, <2>1, <2>2, <2>3, <2>4, BlockKept
<1> QED
  BY <1>4, <1>5 DEF Laid

LEMMA PendingIs ==
    ASSUME NEW c \in Compilers, NEW d, NEW b \in Constructs, NEW L, BlockLaid(b, d, c, L),
           NEW j \in Pending(b, c)
    PROVE  /\ j \in 1 .. Len(c.code) /\ c.code[j].op \in {"jump", "branch"}
           /\ c.code[j].op = "branch" => c.code[j].leaves = 0
<1>1. CASE b.kind = "loop"
  BY <1>1 DEF Pending, BlockLaid
<1>2. CASE b.kind = "match"
  BY <1>2 DEF Pending, BlockLaid
<1>3. CASE b.kind = "case"
  BY <1>3 DEF Pending, BlockLaid
<1> QED
  BY <1>1, <1>2, <1>3 DEF Pending

\* How high the stack is where the construct waits.
LEMMA PendingHeight ==
    ASSUME NEW c \in Compilers, Sorted(c), NEW d \in Nat, NEW b \in Constructs,
           NEW L, BlockLaid(b, d, c, L), NEW j \in Pending(b, c)
    PROVE  \E m \in 0 .. d : L[j] = Slots(c, m) /\ (b.kind # "match" => m <= d - 1)
<1>1. CASE b.kind = "loop"
  <2>1. d - 1 \in 0 .. d /\ d - 1 <= d - 1 /\ L[b.start] = Slots(c, d - 1)
    BY <1>1 DEF BlockLaid
  <2>2. b.breakDepth \in 0 .. d /\ b.breakDepth <= d - 1
    BY <1>1 DEF BlockLaid
  <2>3. \A k \in b.breaks : L[k] = Slots(c, b.breakDepth)
    BY <1>1 DEF BlockLaid
  <2>4. j = b.start \/ j \in b.breaks
    BY <1>1 DEF Pending
  <2> QED
    BY <2>1, <2>2, <2>3, <2>4
<1>2. CASE b.kind = "match"
  BY <1>2 DEF Pending, BlockLaid
<1>3. CASE b.kind = "case"
  <2>1. d - 1 \in 0 .. d /\ d - 1 <= d - 1
    BY <1>3 DEF BlockLaid
  <2> QED
    BY <1>3, <2>1 DEF Pending, BlockLaid
<1> QED
  BY <1>1, <1>2, <1>3 DEF Pending

LEMMA ExtendOpen ==
    ASSUME NEW c \in Compilers, NEW e \in Compilers,
           NEW xs \in Seq(Instructions), Grown(c, e, xs),
           NEW bs, Len(bs) \in Nat, \A d \in 1 .. Len(bs) : bs[d] \in Constructs,
           NEW L, Laid(c, bs, L), NEW M \in [Nat -> Seq(Nat)],
           \A p \in 1 .. Len(c.code) + 1 : M[p] = L[p],
           NEW O, OpenLaid(c, bs, L, O),
           NEW P \in [Nat -> SUBSET Nat], \A p \in 1 .. Len(c.code) + 1 : P[p] = O[p],
           \A q \in 1 .. Len(xs) :
               /\ OpenStep(xs[q], M, P, Len(c.code) + q)
               /\ P[Len(c.code) + q + 1] \subseteq 1 .. Len(M[Len(c.code) + q + 1]),
           \A d \in 1 .. Len(bs) :
               /\ \A j \in Pending(bs[d], c) : O[j] \subseteq P[End(e)]
               /\ bs[d].kind = "loop" =>
                      P[End(e)] \cap 1 .. Len(L[bs[d].start]) \subseteq O[bs[d].start]
    PROVE  OpenLaid(e, bs, M, P)
<1>1. PICK n \in Nat, l \in Nat : n = Len(c.code) /\ l = Len(e.code) /\ n <= l
  <2>1. Len(c.code) \in Nat /\ Len(e.code) \in Nat /\ Len(c.code) <= Len(e.code)
    BY GrownIs, Zenon
  <2> QED
    BY <2>1, Zenon
<1>2. /\ O \in [Nat -> SUBSET Nat]
      /\ \A p \in 1 .. n + 1 : O[p] \subseteq 1 .. Len(L[p])
      /\ \A p \in 1 .. n : OpenStep(c.code[p], L, O, p)
      /\ Covers(c, bs, L, O)
  BY <1>1 DEF OpenLaid, OpenFlow
<1>0. \A p \in 1 .. n + 1 : M[p] = L[p] /\ P[p] = O[p]
  BY <1>1
<1>3. ASSUME NEW p \in 1 .. l + 1 PROVE P[p] \subseteq 1 .. Len(M[p])
  <2>1. CASE p \in 1 .. n + 1
    BY <1>0, <1>2, <2>1
  <2>2. CASE \E q \in 1 .. Len(xs) : p = n + q + 1
    BY <1>1, <2>2
  <2>3. \A x \in 1 .. Len(e.code) + 1 :
            x \in 1 .. Len(c.code) + 1 \/ \E q \in 1 .. Len(xs) : x = Len(c.code) + q + 1
    BY GrownSplit
  <2> QED
    BY <1>1, <2>1, <2>2, <2>3, Zenon
<1>4. ASSUME NEW p \in 1 .. l PROVE OpenStep(e.code[p], M, P, p)
  <2>1. CASE p \in 1 .. n
    <3>1. e.code[p] = c.code[p] /\ OpenStep(c.code[p], L, O, p)
      BY <1>1, <1>2, <2>1, GrownIs
    <3>2. p \in 1 .. n + 1 /\ p + 1 \in 1 .. n + 1
      BY <2>1
    <3>3. M[p] = L[p] /\ P[p] = O[p] /\ P[p + 1] = O[p + 1]
      BY <1>0, <3>2
    <3>4. FlowStep(c.code[p], L, p, n)
      BY <1>1, <2>1 DEF Laid, Flow
    <3>5. /\ c.code[p].op = "jump" /\ c.code[p].to # 0 => c.code[p].to \in 1 .. n + 1
          /\ c.code[p].op = "branch" /\ c.code[p].to # 0 /\ c.code[p].leaves = 0 =>
                c.code[p].to \in 1 .. n + 1
      BY <3>4, Zenon DEF FlowStep
    <3>6. /\ c.code[p].op = "jump" /\ c.code[p].to # 0 => P[c.code[p].to] = O[c.code[p].to]
          /\ c.code[p].op = "branch" /\ c.code[p].to # 0 /\ c.code[p].leaves = 0 =>
                P[c.code[p].to] = O[c.code[p].to]
      BY <1>0, <3>5, Zenon
    <3> QED
      BY <3>1, <3>3, <3>6 DEF OpenStep
  <2>2. CASE \E q \in 1 .. Len(xs) : p = n + q /\ e.code[p] = xs[q]
    BY <1>1, <2>2
  <2>3. \A x \in 1 .. Len(e.code) :
            x \in 1 .. Len(c.code)
            \/ \E q \in 1 .. Len(xs) : x = Len(c.code) + q /\ e.code[x] = xs[q]
    BY GrownSplit
  <2> QED
    BY <1>1, <2>1, <2>2, <2>3, Zenon
<1>5. OpenFlow(e.code, M, P)
  BY <1>1, <1>3, <1>4 DEF OpenFlow
<1>6. ASSUME NEW d \in 1 .. Len(bs), NEW j \in Pending(bs[d], e)
      PROVE  P[j] \subseteq P[End(e)]
  <2>1. BlockLaid(bs[d], d, c, L) /\ bs[d] \in Constructs
    BY DEF Laid
  <2>2. j \in Pending(bs[d], c)
    <3>1. CASE bs[d].kind = "case"
      <4>1. j \in bs[d].fails /\ e.code[j].leaves = 0
        BY <3>1 DEF Pending
      <4>2. j \in 1 .. n
        BY <1>1, <2>1, <3>1, <4>1 DEF BlockLaid
      <4>3. e.code[j] = c.code[j]
        BY <1>1, <4>2, GrownIs
      <4> QED
        BY <3>1, <4>1, <4>3 DEF Pending
    <3>2. CASE bs[d].kind # "case"
      BY <3>2 DEF Pending
    <3> QED
      BY <3>1, <3>2
  <2>3. j \in 1 .. n
    BY <1>1, <2>1, <2>2, PendingIs
  <2>4. P[j] = O[j]
    <3>1. j \in 1 .. n + 1
      BY <2>3
    <3> QED
      BY <1>0, <3>1
  <2> QED
    BY <2>2, <2>4
<1>7. ASSUME NEW d \in 1 .. Len(bs), bs[d].kind = "loop"
      PROVE  P[End(e)] \cap 1 .. Len(M[bs[d].start]) \subseteq P[bs[d].start]
  <2>1. bs[d].start \in 1 .. n
    BY <1>1, <1>7 DEF Laid, BlockLaid
  <2>2. M[bs[d].start] = L[bs[d].start] /\ P[bs[d].start] = O[bs[d].start]
    <3>1. bs[d].start \in 1 .. n + 1
      <4>1. \A x \in 1 .. n : x \in 1 .. n + 1
        OBVIOUS
      <4> QED
        BY <2>1, <4>1, Zenon
    <3> QED
      BY <1>0, <3>1
  <2> QED
    BY <1>7, <2>2
<1> QED
  BY <1>5, <1>6, <1>7 DEF OpenLaid, Covers

-----------------------------------------------------------------------------
(* Jumps that are patched, and blocks that change                          *)

LEMMA PatchLaid ==
    ASSUME NEW c \in Compilers, NEW J \in SUBSET (1 .. Len(c.code)),
           NEW bs, Len(bs) \in Nat, \A d \in 1 .. Len(bs) : bs[d] \in Constructs,
           NEW L, Laid(c, bs, L),
           \A j \in J : /\ c.code[j].op \in {"jump", "branch"}
                        /\ c.code[j].op = "jump" \/ c.code[j].leaves = 0 => L[j] = L[End(c)]
    PROVE  Laid(Patch(c, J, End(c)), bs, L)
<1>1. PICK n \in Nat : n = Len(c.code) /\ End(c) = n + 1 /\ n + 1 \in Nat /\ n + 1 # 0
  BY CompilerIs
<1>2. PICK e : e = Patch(c, J, End(c))
  OBVIOUS
<1>3. /\ e \in Compilers
      /\ e.locals = c.locals /\ e.scopeDepth = c.scopeDepth
      /\ Len(e.code) = n
      /\ \A p \in 1 .. n :
            /\ p \notin J => e.code[p] = c.code[p]
            /\ p \in J => /\ e.code[p].op = c.code[p].op /\ e.code[p].to = n + 1
                          /\ c.code[p].op = "branch" => e.code[p].leaves = c.code[p].leaves
  BY <1>1, <1>2, PatchIs
<1>4. \A d : Slots(e, d) = Slots(c, d) /\ Base(e, d) = Base(c, d)
  BY <1>3 DEF Slots, Base
<1>5. \A p \in 1 .. n : /\ e.code[p].op = c.code[p].op
                        /\ c.code[p].op = "branch" => e.code[p].leaves = c.code[p].leaves
  BY <1>3
<1>6. L \in [Nat -> Seq(Nat)] /\ \A p \in 1 .. n : FlowStep(c.code[p], L, p, n)
  BY <1>1 DEF Laid, Flow
<1>7. ASSUME NEW p \in 1 .. n PROVE FlowStep(e.code[p], L, p, n)
  <2>1. CASE p \notin J
    BY <1>3, <1>6, <2>1
  <2>2. CASE p \in J
    <3>1. PICK i : i = e.code[p]
      OBVIOUS
    <3>2. PICK o : o = c.code[p]
      OBVIOUS
    <3>3. /\ i.op = o.op /\ i.op \in {"jump", "branch"} /\ i.to = n + 1
          /\ i.op = "branch" => i.leaves = o.leaves
      BY <1>3, <2>2, <3>1, <3>2
    <3>4. o.op = "jump" \/ o.leaves = 0 => L[p] = L[n + 1]
      BY <1>1, <2>2, <3>2
    <3>5. i.op = "branch" => L[p + 1] = L[p]
      <4>1. FlowStep(o, L, p, n)
        BY <1>6, <3>2
      <4>2. o.op \in {"get", "upvalue", "branch"} => L[p + 1] = L[p]
        BY <4>1, Zenon DEF FlowStep
      <4> QED
        BY <3>3, <4>2
    <3>6. n + 1 \in 1 .. n + 1
      BY <1>1
    <3>7. /\ i.op = "jump" => i.to \in 1 .. n + 1 /\ L[i.to] = L[p]
          /\ i.op = "branch" /\ i.leaves = 0 => i.to \in 1 .. n + 1 /\ L[i.to] = L[p]
      BY <3>3, <3>4, <3>6, Zenon
    <3> QED
      BY <3>1, <3>3, <3>5, <3>7, Zenon DEF FlowStep
  <2> QED
    BY <2>1, <2>2
<1>8. Flow(e.code, L)
  BY <1>3, <1>6, <1>7 DEF Flow
<1>9. ASSUME NEW d \in 1 .. Len(bs) PROVE BlockLaid(bs[d], d, e, L)
  <2>1. PICK b \in Constructs : b = bs[d]
    OBVIOUS
  <2>2. BlockLaid(b, d, c, L)
    BY <2>1 DEF Laid
  <2>3. CASE b.kind = "loop"
    <3>1. b.start \in 1 .. n /\ b.start \in Nat
      BY <1>1, <2>2, <2>3 DEF BlockLaid
    <3>2. ASSUME NEW p \in b.start .. n
          PROVE  /\ e.code[p].op = "pop" =>
                      Len(L[p]) > Len(L[b.start]) \/ (b.left = TRUE /\ Len(L[p]) = Len(L[b.start]))
                 /\ e.code[p].op \in {"jump", "branch"} => e.code[p].to = 0 \/ e.code[p].to >= b.start
      <4>1. p \in 1 .. n /\ n + 1 >= b.start
        BY <3>1
      <4>2. /\ c.code[p].op = "pop" =>
                  Len(L[p]) > Len(L[b.start]) \/ (b.left = TRUE /\ Len(L[p]) = Len(L[b.start]))
            /\ c.code[p].op \in {"jump", "branch"} => c.code[p].to = 0 \/ c.code[p].to >= b.start
        BY <1>1, <2>2, <2>3 DEF BlockLaid
      <4> QED
        BY <1>3, <1>5, <4>1, <4>2
    <3>3. /\ b.start \in 1 .. Len(e.code) /\ e.code[b.start].op = "branch"
          /\ e.code[b.start].leaves = 0
      <4>1. c.code[b.start].op = "branch" /\ c.code[b.start].leaves = 0
        BY <2>2, <2>3 DEF BlockLaid
      <4> QED
        BY <1>3, <1>5, <3>1, <4>1
    <3>4. \A j \in b.breaks :
            j \in 1 .. Len(e.code) /\ e.code[j].op = "jump" /\ L[j] = Slots(e, b.breakDepth)
      BY <1>1, <1>3, <1>4, <1>5, <2>2, <2>3 DEF BlockLaid
    <3>5. /\ b.continueDepth = d - 1 /\ d > 1 /\ L[b.start] = Slots(e, d - 1)
          /\ b.own = Temp => b.breakDepth = d - 1 /\ b.left = FALSE
          /\ b.own # Temp =>
                /\ d > 2 /\ b.breakDepth = d - 2
                /\ Base(e, d - 1) = Base(e, d - 2) + 1
                /\ e.locals[Base(e, d - 1)].var = b.own
      BY <1>3, <1>4, <2>2, <2>3 DEF BlockLaid
    <3>6. \A p \in b.start .. Len(e.code) :
                /\ e.code[p].op = "pop" =>
                      Len(L[p]) > Len(L[b.start]) \/ (b.left = TRUE /\ Len(L[p]) = Len(L[b.start]))
                /\ e.code[p].op \in {"jump", "branch"} => e.code[p].to = 0 \/ e.code[p].to >= b.start
      BY <1>3, <3>2
    <3> QED
      BY <2>1, <2>3, <3>3, <3>4, <3>5, <3>6 DEF BlockLaid
  <2>4. CASE b.kind = "match"
    BY <1>1, <1>3, <1>4, <1>5, <2>1, <2>2, <2>4 DEF BlockLaid
  <2>5. CASE b.kind = "case"
    BY <1>1, <1>3, <1>4, <1>5, <2>1, <2>2, <2>5 DEF BlockLaid
  <2> QED
    BY <2>1, <2>3, <2>4, <2>5 DEF BlockLaid
<1> QED
  BY <1>2, <1>8, <1>9 DEF Laid

LEMMA PatchOpen ==
    ASSUME NEW c \in Compilers, NEW J \in SUBSET (1 .. Len(c.code)),
           NEW bs, Len(bs) \in Nat, \A d \in 1 .. Len(bs) : bs[d] \in Constructs,
           NEW L, Laid(c, bs, L), NEW O, OpenLaid(c, bs, L, O),
           \A j \in J : /\ c.code[j].op \in {"jump", "branch"}
                        /\ c.code[j].op = "jump" \/ c.code[j].leaves = 0 => O[j] \subseteq O[End(c)]
    PROVE  OpenLaid(Patch(c, J, End(c)), bs, L, O)
<1>1. PICK n \in Nat : n = Len(c.code) /\ End(c) = n + 1 /\ n + 1 \in Nat /\ n + 1 # 0
  BY CompilerIs
<1>2. PICK e : e = Patch(c, J, End(c))
  OBVIOUS
<1>3. /\ e \in Compilers
      /\ e.locals = c.locals /\ e.scopeDepth = c.scopeDepth
      /\ Len(e.code) = n
      /\ \A p \in 1 .. n :
            /\ p \notin J => e.code[p] = c.code[p]
            /\ p \in J => /\ e.code[p].op = c.code[p].op /\ e.code[p].to = n + 1
                          /\ c.code[p].op = "branch" => e.code[p].leaves = c.code[p].leaves
  BY <1>1, <1>2, PatchIs
<1>4. End(e) = End(c)
  BY <1>1, <1>3 DEF End
<1>5. /\ O \in [Nat -> SUBSET Nat]
      /\ \A p \in 1 .. n + 1 : O[p] \subseteq 1 .. Len(L[p])
      /\ \A p \in 1 .. n : OpenStep(c.code[p], L, O, p)
      /\ Covers(c, bs, L, O)
  BY <1>1 DEF OpenLaid, OpenFlow
<1>6. ASSUME NEW p \in 1 .. n PROVE OpenStep(e.code[p], L, O, p)
  <2>1. CASE p \notin J
    BY <1>3, <1>5, <2>1
  <2>2. CASE p \in J
    <3>1. PICK i : i = e.code[p]
      OBVIOUS
    <3>2. PICK o : o = c.code[p]
      OBVIOUS
    <3>3. /\ i.op = o.op /\ i.op \in {"jump", "branch"} /\ i.to = n + 1
          /\ i.op = "branch" => i.leaves = o.leaves
      BY <1>3, <2>2, <3>1, <3>2
    <3>4. o.op = "jump" \/ o.leaves = 0 => O[p] \subseteq O[n + 1]
      BY <1>1, <2>2, <3>2
    <3>5. o.op \notin {"jump", "close"} => O[p] \subseteq O[p + 1]
      BY <1>5, <3>2 DEF OpenStep
    <3> QED
      BY <3>1, <3>3, <3>4, <3>5, Zenon DEF OpenStep
  <2> QED
    BY <2>1, <2>2
<1>7. OpenFlow(e.code, L, O)
  BY <1>3, <1>5, <1>6 DEF OpenFlow
<1>8. ASSUME NEW d \in 1 .. Len(bs), NEW j \in Pending(bs[d], e) PROVE j \in Pending(bs[d], c)
  <2>1. BlockLaid(bs[d], d, c, L)
    BY DEF Laid
  <2>2. CASE bs[d].kind = "case"
    <3>1. j \in bs[d].fails /\ e.code[j].leaves = 0
      BY <2>2 DEF Pending
    <3>2. j \in 1 .. n /\ c.code[j].op = "branch"
      BY <1>1, <2>1, <2>2, <3>1 DEF BlockLaid
    <3>3. e.code[j].leaves = c.code[j].leaves
      BY <1>3, <3>2
    <3> QED
      BY <2>2, <3>1, <3>3 DEF Pending
  <2>3. CASE bs[d].kind # "case"
    BY <2>3 DEF Pending
  <2> QED
    BY <2>2, <2>3
<1>9. Covers(e, bs, L, O)
  BY <1>4, <1>5, <1>8 DEF Covers
<1> QED
  BY <1>2, <1>7, <1>9 DEF OpenLaid

\* Two blocks that wait for the same.
SameWait(b, a) ==
    /\ a.kind = b.kind
    /\ b.kind = "loop" =>
          /\ a.start = b.start /\ a.breakDepth = b.breakDepth /\ a.continueDepth = b.continueDepth
          /\ a.breaks = b.breaks /\ a.own = b.own /\ a.left = b.left
    /\ b.kind = "match" => a.ends = b.ends
    /\ b.kind = "case" => a.fails = b.fails

LEMMA WaitLaid ==
    ASSUME NEW c, NEW bs, NEW L, Laid(c, bs, L), Len(bs) \in Nat,
           NEW bb, Len(bb) \in Nat, Len(bb) <= Len(bs),
           \A d \in 1 .. Len(bb) : SameWait(bs[d], bb[d])
    PROVE  /\ Laid(c, bb, L)
           /\ \A O : OpenLaid(c, bs, L, O) => OpenLaid(c, bb, L, O)
<1>1. \A d \in 1 .. Len(bb) : d \in 1 .. Len(bs)
  OBVIOUS
<1>2. ASSUME NEW d \in 1 .. Len(bb) PROVE BlockLaid(bb[d], d, c, L)
  <2>1. BlockLaid(bs[d], d, c, L) /\ SameWait(bs[d], bb[d])
    BY <1>1 DEF Laid
  <2>2. CASE bs[d].kind = "loop"
    <3>1. /\ bb[d].kind = "loop" /\ bb[d].start = bs[d].start /\ bb[d].breakDepth = bs[d].breakDepth
          /\ bb[d].continueDepth = bs[d].continueDepth /\ bb[d].breaks = bs[d].breaks
          /\ bb[d].own = bs[d].own /\ bb[d].left = bs[d].left
      BY <2>1, <2>2 DEF SameWait
    <3> QED
      BY <2>1, <2>2, <3>1 DEF BlockLaid
  <2>3. CASE bs[d].kind = "match"
    BY <2>1, <2>3 DEF BlockLaid, SameWait
  <2>4. CASE bs[d].kind = "case"
    BY <2>1, <2>4 DEF BlockLaid, SameWait
  <2>5. CASE bs[d].kind \notin {"loop", "match", "case"}
    BY <2>1, <2>5 DEF BlockLaid, SameWait
  <2> QED
    BY <2>2, <2>3, <2>4, <2>5
<1>3. \A d \in 1 .. Len(bb) : bb[d].kind = bs[d].kind /\ (bs[d].kind = "loop" => bb[d].start = bs[d].start)
  BY DEF SameWait
<1>4. ASSUME NEW d \in 1 .. Len(bb), bb[d].kind = "case" PROVE bb[d - 1].kind = "match"
  <2>1. bs[d - 1].kind = "match"
    BY <1>1, <1>3, <1>4 DEF Laid
  <2>2. d > 1
    BY <1>2, <1>4 DEF BlockLaid
  <2>3. d - 1 \in 1 .. Len(bb)
    BY <2>2
  <2> QED
    BY <1>3, <2>1, <2>3
<1>5. ASSUME NEW d \in 1 .. Len(bb), NEW e \in 1 .. Len(bb), d < e,
             bb[d].kind = "loop", bb[e].kind = "loop"
      PROVE  bb[d].start < bb[e].start
  <2>1. bs[d].start < bs[e].start
    BY <1>1, <1>3, <1>5 DEF Laid
  <2> QED
    BY <1>3, <1>5, <2>1
<1>6. Laid(c, bb, L)
  BY <1>2, <1>4, <1>5 DEF Laid
<1>7. ASSUME NEW O, OpenLaid(c, bs, L, O) PROVE OpenLaid(c, bb, L, O)
  <2>1. ASSUME NEW d \in 1 .. Len(bb)
        PROVE  /\ \A j \in Pending(bb[d], c) : O[j] \subseteq O[End(c)]
               /\ bb[d].kind = "loop" =>
                     O[End(c)] \cap 1 .. Len(L[bb[d].start]) \subseteq O[bb[d].start]
    <3>1. SameWait(bs[d], bb[d])
      OBVIOUS
    <3>2. Pending(bb[d], c) = Pending(bs[d], c)
      BY <3>1 DEF SameWait, Pending
    <3>3. /\ \A j \in Pending(bs[d], c) : O[j] \subseteq O[End(c)]
          /\ bs[d].kind = "loop" =>
                     O[End(c)] \cap 1 .. Len(L[bs[d].start]) \subseteq O[bs[d].start]
      BY <1>1, <1>7 DEF OpenLaid, Covers
    <3> QED
      BY <1>3, <3>2, <3>3
  <2> QED
    BY <1>7, <2>1 DEF OpenLaid, Covers
<1> QED
  BY <1>6, <1>7

\* bb is bs and b.
Extends(bs, bb, b) ==
    /\ Len(bb) = Len(bs) + 1 /\ bb[Len(bs) + 1] = b
    /\ \A d \in 1 .. Len(bs) : bb[d] = bs[d]

Follows(c, bs, L, b) ==
    /\ BlockLaid(b, Len(bs) + 1, c, L)
    /\ b.kind = "loop" => \A d \in 1 .. Len(bs) : bs[d].kind = "loop" => bs[d].start < b.start
    /\ b.kind = "case" => Len(bs) > 0 /\ bs[Len(bs)].kind = "match"

\* The captured slots are known to b.
Covered(c, L, b, O) ==
    /\ \A j \in Pending(b, c) : O[j] \subseteq O[End(c)]
    /\ b.kind = "loop" => O[End(c)] \cap 1 .. Len(L[b.start]) \subseteq O[b.start]

LaidMore(c, bs, bb, L, b) ==
    /\ Laid(c, bb, L)
    /\ \A O : OpenLaid(c, bs, L, O) /\ Covered(c, L, b, O) => OpenLaid(c, bb, L, O)

LEMMA AppendLaid ==
    ASSUME NEW c, NEW bs, NEW L, Laid(c, bs, L), Len(bs) \in Nat,
           NEW bb, NEW b, Extends(bs, bb, b), Follows(c, bs, L, b)
    PROVE  LaidMore(c, bs, bb, L, b)
<1>0. /\ Len(bb) = Len(bs) + 1 /\ bb[Len(bs) + 1] = b
      /\ \A d \in 1 .. Len(bs) : bb[d] = bs[d]
      /\ BlockLaid(b, Len(bs) + 1, c, L)
      /\ b.kind = "loop" => \A d \in 1 .. Len(bs) : bs[d].kind = "loop" => bs[d].start < b.start
      /\ b.kind = "case" => Len(bs) > 0 /\ bs[Len(bs)].kind = "match"
  BY DEF Extends, Follows
<1> USE <1>0
<1>1. \A d \in 1 .. Len(bb) : d \in 1 .. Len(bs) \/ d = Len(bs) + 1
  OBVIOUS
<1>2. ASSUME NEW d \in 1 .. Len(bb) PROVE BlockLaid(bb[d], d, c, L)
  <2>1. CASE d \in 1 .. Len(bs)
    <3>1. BlockLaid(bs[d], d, c, L) /\ bb[d] = bs[d]
      BY <2>1 DEF Laid
    <3> QED
      BY <3>1
  <2>2. CASE d = Len(bs) + 1
    BY <2>2
  <2> QED
    BY <1>1, <2>1, <2>2
<1>4. ASSUME NEW d \in 1 .. Len(bb), bb[d].kind = "case" PROVE bb[d - 1].kind = "match"
  <2>1. CASE d \in 1 .. Len(bs)
    <3>1. bs[d - 1].kind = "match" /\ BlockLaid(bs[d], d, c, L) /\ bs[d].kind = "case"
      BY <1>4, <2>1 DEF Laid
    <3>2. d > 1
      BY <3>1 DEF BlockLaid
    <3>3. d - 1 \in 1 .. Len(bs)
      BY <2>1, <3>2
    <3> QED
      BY <3>1, <3>3
  <2>2. CASE d = Len(bs) + 1
    <3>1. d - 1 = Len(bs) /\ Len(bs) > 0 /\ bs[Len(bs)].kind = "match"
      BY <1>4, <2>2
    <3>2. Len(bs) \in 1 .. Len(bs)
      BY <3>1
    <3> QED
      BY <3>1, <3>2
  <2> QED
    BY <1>1, <2>1, <2>2
<1>5. ASSUME NEW d \in 1 .. Len(bb), NEW e \in 1 .. Len(bb), d < e,
             bb[d].kind = "loop", bb[e].kind = "loop"
      PROVE  bb[d].start < bb[e].start
  <2>1. d \in 1 .. Len(bs)
    BY <1>5
  <2>2. CASE e \in 1 .. Len(bs)
    BY <1>5, <2>1, <2>2 DEF Laid
  <2>3. CASE e = Len(bs) + 1
    BY <1>5, <2>1, <2>3
  <2> QED
    BY <1>1, <2>2, <2>3
<1>6. Laid(c, bb, L)
  BY <1>2, <1>4, <1>5 DEF Laid
<1>7. ASSUME NEW O, OpenLaid(c, bs, L, O), Covered(c, L, b, O)
      PROVE  OpenLaid(c, bb, L, O)
  <2>1. ASSUME NEW d \in 1 .. Len(bb)
        PROVE  /\ \A j \in Pending(bb[d], c) : O[j] \subseteq O[End(c)]
               /\ bb[d].kind = "loop" =>
                     O[End(c)] \cap 1 .. Len(L[bb[d].start]) \subseteq O[bb[d].start]
    <3>1. CASE d \in 1 .. Len(bs)
      <4>1. bb[d] = bs[d]
        BY <3>1
      <4>2. /\ \A j \in Pending(bs[d], c) : O[j] \subseteq O[End(c)]
            /\ bs[d].kind = "loop" =>
                     O[End(c)] \cap 1 .. Len(L[bs[d].start]) \subseteq O[bs[d].start]
        BY <1>7, <3>1 DEF OpenLaid, Covers
      <4> QED
        BY <4>1, <4>2
    <3>2. CASE d = Len(bs) + 1
      BY <1>7, <3>2 DEF Covered
    <3> QED
      BY <1>1, <3>1, <3>2
  <2> QED
    BY <1>7, <2>1 DEF OpenLaid, Covers
<1> QED
  BY <1>6, <1>7 DEF LaidMore

\* The block at t is b now.
Replaces(bs, bb, t, b) ==
    /\ Len(bb) = Len(bs) /\ bb[t] = b
    /\ \A d \in 1 .. Len(bs) : d # t => bb[d] = bs[d]

WaitsOn(c, bs, L, t, b) ==
    /\ b.kind = bs[t].kind /\ (b.kind = "loop" => b.start = bs[t].start)
    /\ BlockLaid(b, t, c, L)

ReplacedLaid(c, bs, bb, L, t, b) ==
    /\ Laid(c, bb, L)
    /\ \A O : /\ OpenLaid(c, bs, L, O)
              /\ \A j \in Pending(b, c) : j \in Pending(bs[t], c) \/ O[j] \subseteq O[End(c)]
              => OpenLaid(c, bb, L, O)

\* The block at d waits for more.
LEMMA ReplaceLaid ==
    ASSUME NEW c, NEW bs, NEW L, Laid(c, bs, L), Len(bs) \in Nat,
           NEW bb, NEW t \in 1 .. Len(bs), NEW b, Replaces(bs, bb, t, b), WaitsOn(c, bs, L, t, b)
    PROVE  ReplacedLaid(c, bs, bb, L, t, b)
<1>0. /\ Len(bb) = Len(bs) /\ bb[t] = b
      /\ \A d \in 1 .. Len(bs) : d # t => bb[d] = bs[d]
      /\ b.kind = bs[t].kind /\ (b.kind = "loop" => b.start = bs[t].start)
      /\ BlockLaid(b, t, c, L)
  BY DEF Replaces, WaitsOn
<1> USE <1>0
<1>1. \A d \in 1 .. Len(bs) : bb[d].kind = bs[d].kind /\ (bs[d].kind = "loop" => bb[d].start = bs[d].start)
  OBVIOUS
<1>2. ASSUME NEW d \in 1 .. Len(bs) PROVE BlockLaid(bb[d], d, c, L)
  BY DEF Laid
<1>4. ASSUME NEW d \in 1 .. Len(bs), bb[d].kind = "case" PROVE bb[d - 1].kind = "match"
  <2>1. bs[d - 1].kind = "match"
    BY <1>1, <1>4 DEF Laid
  <2>2. d > 1
    BY <1>2, <1>4 DEF BlockLaid
  <2>3. d - 1 \in 1 .. Len(bs)
    BY <2>2
  <2> QED
    BY <1>1, <2>1, <2>3
<1>5. ASSUME NEW d \in 1 .. Len(bs), NEW e \in 1 .. Len(bs), d < e,
             bb[d].kind = "loop", bb[e].kind = "loop"
      PROVE  bb[d].start < bb[e].start
  <2>1. bs[d].start < bs[e].start
    BY <1>1, <1>5 DEF Laid
  <2> QED
    BY <1>1, <1>5, <2>1
<1>6. Laid(c, bb, L)
  BY <1>2, <1>4, <1>5 DEF Laid
<1>7. ASSUME NEW O, OpenLaid(c, bs, L, O),
             \A j \in Pending(b, c) : j \in Pending(bs[t], c) \/ O[j] \subseteq O[End(c)]
      PROVE  OpenLaid(c, bb, L, O)
  <2>1. ASSUME NEW d \in 1 .. Len(bs)
        PROVE  /\ \A j \in Pending(bb[d], c) : O[j] \subseteq O[End(c)]
               /\ bb[d].kind = "loop" =>
                     O[End(c)] \cap 1 .. Len(L[bb[d].start]) \subseteq O[bb[d].start]
    <3>1. /\ \A j \in Pending(bs[d], c) : O[j] \subseteq O[End(c)]
          /\ bs[d].kind = "loop" =>
                     O[End(c)] \cap 1 .. Len(L[bs[d].start]) \subseteq O[bs[d].start]
      BY <1>7 DEF OpenLaid, Covers
    <3>2. CASE d # t
      BY <3>1, <3>2
    <3>3. CASE d = t
      BY <1>1, <1>7, <3>1, <3>3
    <3> QED
      BY <3>2, <3>3
  <2> QED
    BY <1>7, <2>1 DEF OpenLaid, Covers
<1> QED
  BY <1>6, <1>7 DEF ReplacedLaid

-----------------------------------------------------------------------------
(* What an operation of the compiler leads to                              *)

\* The last block may be one whose scope is left.
Fits(c, bs) ==
    /\ c \in Compilers /\ Sorted(c) /\ bs \in Seq(Constructs)
    /\ \A d \in 1 .. Len(bs) :
           d - 1 <= c.scopeDepth /\ (bs[d].kind = "match" => d <= c.scopeDepth)

Ready(c, bs, L) ==
    /\ Laid(c, bs, L)
    /\ L[1] = c.params
    /\ L[End(c)] = Slots(c, c.scopeDepth)

Tracked(c, bs, L, O) == OpenLaid(c, bs, L, O) /\ O[End(c)] \subseteq CapturedSlots(c)

Leads(c, bs, e, bb) ==
    \A L : Ready(c, bs, L) =>
        \E M : /\ Ready(e, bb, M)
               /\ \A O : Tracked(c, bs, L, O) => \E P : Tracked(e, bb, M, P)

LEMMA LeadsOn ==
    ASSUME NEW c, NEW bs, NEW d, NEW bc, NEW e, NEW be, Leads(c, bs, d, bc), Leads(d, bc, e, be)
    PROVE  Leads(c, bs, e, be)
<1> SUFFICES ASSUME NEW L, Ready(c, bs, L)
             PROVE  \E M : /\ Ready(e, be, M)
                           /\ \A O : Tracked(c, bs, L, O) => \E P : Tracked(e, be, M, P)
  BY DEF Leads
<1>1. PICK K : Ready(d, bc, K) /\ \A O : Tracked(c, bs, L, O) => \E P : Tracked(d, bc, K, P)
  BY DEF Leads
<1>2. PICK M : Ready(e, be, M) /\ \A O : Tracked(d, bc, K, O) => \E P : Tracked(e, be, M, P)
  BY <1>1 DEF Leads
<1>3. \A O : Tracked(c, bs, L, O) => \E P : Tracked(e, be, M, P)
  BY <1>1, <1>2
<1> QED
  BY <1>2, <1>3

LEMMA LeadsCompiled ==
    ASSUME NEW t, NEW c, NEW bs, NEW e, NEW bb, Leads(c, bs, e, bb), Compiled(t, c, bs)
    PROVE  Compiled(t, e, bb)
<1>1. PICK L : /\ Laid(c, bs, L) /\ L[1] = c.params /\ L[End(c)] = Slots(c, c.scopeDepth)
               /\ t \/ \E O : OpenLaid(c, bs, L, O) /\ O[End(c)] \subseteq CapturedSlots(c)
  BY DEF Compiled
<1>2. Ready(c, bs, L)
  BY <1>1 DEF Ready
<1>3. PICK M : /\ Ready(e, bb, M)
               /\ \A O : Tracked(c, bs, L, O) => \E P : Tracked(e, bb, M, P)
  BY <1>2 DEF Leads
<1>4. t \/ \E P : Tracked(e, bb, M, P)
  BY <1>1, <1>3 DEF Tracked
<1> QED
  BY <1>3, <1>4 DEF Ready, Tracked, Compiled

LEMMA BaseMono ==
    ASSUME NEW c \in Compilers, Sorted(c), NEW d \in Nat, NEW e \in Nat, d <= e
    PROVE  /\ Base(c, d) <= Base(c, e)
           /\ \A i \in 1 .. Base(c, d) : i \in 1 .. Base(c, e) /\ Slots(c, e)[i] = Slots(c, d)[i]
<1>1. PICK a \in Nat, b \in Nat : a = Base(c, d) /\ b = Base(c, e) /\ a <= Len(c.locals)
  <2>1. Base(c, d) \in 0 .. Len(c.locals) /\ Base(c, e) \in 0 .. Len(c.locals) /\ Len(c.locals) \in Nat
    BY BaseIs, CompilerIs
  <2> QED
    BY <2>1
<1>2. a <= b
  <2>1. CASE a = 0
    BY <2>1
  <2>2. CASE a # 0
    <3>1. a \in 1 .. Len(c.locals) /\ a <= Base(c, d) /\ Len(c.locals) \in Nat
      BY <1>1, <2>2, CompilerIs
    <3>2. c.locals[a].depth \in 1 .. d
      BY <3>1, BaseIs
    <3>3. c.locals[a].depth \in 1 .. e
      BY <3>2
    <3>4. a <= Base(c, e)
      BY <3>1, <3>3, BaseIs
    <3> QED
      BY <1>1, <3>4
  <2> QED
    BY <2>1, <2>2
<1>3. \A i \in 1 .. a : i \in 1 .. b
  BY <1>2
<1>4. \A i \in 1 .. a : Slots(c, e)[i] = c.locals[i].var /\ Slots(c, d)[i] = c.locals[i].var
  BY <1>1, <1>3, BaseIs
<1> QED
  BY <1>1, <1>2, <1>3, <1>4

LEMMA FitsIs ==
    ASSUME NEW c, NEW bs, Fits(c, bs)
    PROVE  /\ c \in Compilers /\ Sorted(c) /\ Len(bs) \in Nat /\ c.scopeDepth \in Nat
           /\ \A d \in 1 .. Len(bs) :
                 /\ bs[d] \in Constructs /\ d \in Nat /\ d - 1 \in Nat
                 /\ d - 1 <= c.scopeDepth /\ (bs[d].kind = "match" => d <= c.scopeDepth)
<1>1. /\ c \in Compilers /\ Sorted(c) /\ Len(bs) \in Nat /\ c.scopeDepth \in Nat
      /\ \A d \in 1 .. Len(bs) : bs[d] \in Constructs
  BY CompilerIs, LenProperties, ElementOfSeq DEF Fits
<1>2. \A d \in 1 .. Len(bs) : d \in Nat /\ d - 1 \in Nat
  OBVIOUS
<1>3. \A d \in 1 .. Len(bs) :
           d - 1 <= c.scopeDepth /\ (bs[d].kind = "match" => d <= c.scopeDepth)
  BY DEF Fits
<1> QED
  BY <1>1, <1>2, <1>3

\* A loop began on a stack that is no higher, and so did what waits.
LEMMA LoopHeight ==
    ASSUME NEW c, NEW bs, Fits(c, bs), NEW L, Laid(c, bs, L), NEW t \in 1 .. Len(bs),
           bs[t].kind = "loop"
    PROVE  /\ L[bs[t].start] = Slots(c, t - 1) /\ Len(L[bs[t].start]) = Base(c, t - 1)
           /\ Base(c, t - 1) <= Base(c, c.scopeDepth) /\ Base(c, t - 1) \in Nat
           /\ bs[t].start \in 1 .. Len(c.code)
<1>1. L[bs[t].start] = Slots(c, t - 1) /\ bs[t].start \in 1 .. Len(c.code)
  BY DEF Laid, BlockLaid
<1>2. /\ c \in Compilers /\ Sorted(c) /\ t - 1 \in Nat /\ c.scopeDepth \in Nat /\ t - 1 <= c.scopeDepth
  BY FitsIs
<1>3. Base(c, t - 1) <= Base(c, c.scopeDepth)
  BY <1>2, BaseMono
<1>4. Len(Slots(c, t - 1)) = Base(c, t - 1) /\ Base(c, t - 1) \in 0 .. Len(c.locals)
  BY <1>2, BaseIs
<1>5. Base(c, t - 1) \in Nat
  BY <1>4
<1> QED
  BY <1>1, <1>3, <1>4, <1>5

\* The jump j of the construct b at t waits for a scope that c may be in.
WaitsLow(c, L, b, t, j) ==
    \E m \in Nat : /\ L[j] = Slots(c, m) /\ m <= c.scopeDepth
                   /\ b.kind # "match" => m <= t - 1
                   /\ m <= t

LEMMA OpenHeight ==
    ASSUME NEW c, NEW bs, Fits(c, bs), NEW L, Laid(c, bs, L), NEW t \in 1 .. Len(bs),
           NEW j \in Pending(bs[t], c)
    PROVE  WaitsLow(c, L, bs[t], t, j)
<1>1. BlockLaid(bs[t], t, c, L) /\ c \in Compilers /\ Sorted(c) /\ t \in Nat /\ bs[t] \in Constructs
      /\ t - 1 <= c.scopeDepth /\ (bs[t].kind = "match" => t <= c.scopeDepth)
      /\ c.scopeDepth \in Nat
  BY FitsIs DEF Laid
<1>2. PICK m \in 0 .. t : L[j] = Slots(c, m) /\ (bs[t].kind # "match" => m <= t - 1)
  <2>1. PICK b : b = bs[t]
    OBVIOUS
  <2>2. b \in Constructs /\ BlockLaid(b, t, c, L) /\ j \in Pending(b, c)
    BY <1>1, <2>1
  <2>3. \E m \in 0 .. t : L[j] = Slots(c, m) /\ (b.kind # "match" => m <= t - 1)
    BY <1>1, <2>2, PendingHeight
  <2> QED
    BY <2>1, <2>3
<1>3. m \in Nat /\ m <= c.scopeDepth /\ m <= t
  <2>1. \A x \in Nat : (m <= t - 1 /\ t - 1 <= x => m <= x) /\ (t <= x => m <= x)
    BY <1>1
  <2>2. m \in Nat /\ m <= t
    BY <1>1
  <2> QED
    BY <1>1, <1>2, <2>1, <2>2, Zenon
<1> QED
  BY <1>2, <1>3 DEF WaitsLow

LEMMA SameNow ==
    ASSUME NEW c, NEW bs, Fits(c, bs), NEW e \in Compilers,
           e.locals = c.locals, e.scopeDepth = c.scopeDepth
    PROVE  /\ Sorted(e) /\ Fits(e, bs) /\ (Inner(e) <=> Inner(c))
           /\ \A d : Slots(e, d) = Slots(c, d) /\ Base(e, d) = Base(c, d)
           /\ SameUpTo(c, e, c.scopeDepth) /\ CapturedSlots(e) = CapturedSlots(c)
<1>1. Sorted(e) /\ Fits(e, bs) /\ (Inner(e) <=> Inner(c))
  BY DEF Fits, Sorted, Inner
<1>2. \A d : Slots(e, d) = Slots(c, d) /\ Base(e, d) = Base(c, d)
  BY DEF Slots, Base
<1>3. SameUpTo(c, e, c.scopeDepth)
  BY <1>2 DEF SameUpTo
<1>4. CapturedSlots(e) = CapturedSlots(c)
  BY DEF CapturedSlots
<1> QED
  BY <1>1, <1>2, <1>3, <1>4

LEMMA PushedIs ==
    ASSUME NEW s \in Seq(Nat), NEW x \in Nat
    PROVE  /\ Append(s, x) \in Seq(Nat) /\ Len(Append(s, x)) = Len(s) + 1 /\ Len(s) \in Nat
           /\ \A i \in 1 .. Len(s) : i \in 1 .. Len(s) + 1 /\ Append(s, x)[i] = s[i]
           /\ Append(s, x)[Len(s) + 1] = x
           /\ Front(Append(s, x)) = s
<1>1. /\ Append(s, x) \in Seq(Nat) /\ Len(Append(s, x)) = Len(s) + 1
      /\ \A i \in 1 .. Len(s) : Append(s, x)[i] = s[i]
      /\ Append(s, x)[Len(s) + 1] = x
  BY AppendProperties
<1>2. Len(s) \in Nat
  BY LenProperties
<1>3. \A i \in 1 .. Len(s) : i \in 1 .. Len(s) + 1
  BY <1>2
<1>4. PICK t \in Seq(Nat) : t = Append(s, x)
  BY <1>1
<1>5. Len(t) = Len(s) + 1 /\ Len(t) # 0 /\ Len(t) - 1 = Len(s)
  BY <1>1, <1>2, <1>4
<1>6. /\ Front(t) \in Seq(Nat) /\ Len(Front(t)) = Len(s)
      /\ \A i \in 1 .. Len(s) : Front(t)[i] = t[i]
  BY <1>5, FrontIs
<1>7. Front(t) = s
  BY <1>1, <1>4, <1>6, SeqEqual
<1> QED
  BY <1>1, <1>2, <1>3, <1>4, <1>7

\* The jump goes back to the beginning of the innermost loop, whose scope is left.
Back(c, bs, to) ==
    /\ \E t \in 1 .. Len(bs) :
          bs[t].kind = "loop" /\ bs[t].start = to /\ Slots(c, t - 1) = Slots(c, c.scopeDepth)
    /\ \A t \in 1 .. Len(bs) : bs[t].kind = "loop" => bs[t].start <= to

\* Instruction q of those emitted leaves the stack as it is, but for a temporary that lies on it
\* after the instructions in U.
Balanced(c, bs, i, q, U) ==
    /\ i.op \in {"push", "pop", "get", "upvalue", "branch", "jump"}
    /\ i.op = "push" => i.var = Temp /\ q - 1 \notin U /\ q \in U
    /\ i.op = "pop" => q - 1 \in U /\ q \notin U
    /\ i.op \in {"get", "upvalue", "branch", "jump"} => (q - 1 \in U <=> q \in U)
    /\ i.op = "get" =>
          q - 1 \notin U /\ i.at \in 1 .. Base(c, c.scopeDepth) /\ c.locals[i.at].var = i.var
    /\ i.op = "branch" => i.to = 0
    /\ i.op = "jump" => i.to = 0 \/ (q - 1 \notin U /\ Back(c, bs, i.to))

\* The stack and the captured slots, then.
Stays(c, U, L) ==
    [p \in Nat |-> IF p <= End(c) THEN L[p]
                   ELSE IF p - End(c) \in U THEN Append(L[End(c)], Temp) ELSE L[End(c)]]

StaysOpen(c, O) == [p \in Nat |-> IF p <= End(c) THEN O[p] ELSE O[End(c)]]

\* M is L up to the place n, and what Stays says after it.
StaysFrom(M, L, n, U) ==
    /\ M \in [Nat -> Seq(Nat)]
    /\ \A p \in 1 .. n : M[p] = L[p]
    /\ \A q \in Nat : M[n + q] = IF q \in U THEN Append(L[n], Temp) ELSE L[n]

LEMMA StaysIs ==
    ASSUME NEW c \in Compilers, NEW L \in [Nat -> Seq(Nat)], NEW U, 0 \notin U
    PROVE  StaysFrom(Stays(c, U, L), L, End(c), U)
<1>1. PICK n \in Nat : n = End(c)
  BY CompilerIs
<1>2. L[n] \in Seq(Nat) /\ Append(L[n], Temp) \in Seq(Nat)
  BY PushedIs DEF Temp
<1>3. PICK M : M = [p \in Nat |-> IF p <= n THEN L[p]
                   ELSE IF p - n \in U THEN Append(L[n], Temp) ELSE L[n]]
  OBVIOUS
<1>4. M \in [Nat -> Seq(Nat)]
  BY <1>2, <1>3
<1>5. \A p \in 1 .. n : M[p] = L[p]
  BY <1>3
<1>6. ASSUME NEW q \in Nat PROVE M[n + q] = IF q \in U THEN Append(L[n], Temp) ELSE L[n]
  <2>1. CASE q = 0
    BY <1>3, <2>1
  <2>2. CASE q # 0
    <3>1. n + q \in Nat /\ ~(n + q <= n) /\ (n + q) - n = q
      BY <2>2
    <3> QED
      BY <1>3, <3>1
  <2> QED
    BY <2>1, <2>2
<1>7. Stays(c, U, L) = M
  BY <1>1, <1>3, Zenon DEF Stays
<1> QED
  BY <1>1, <1>4, <1>5, <1>6, <1>7 DEF StaysFrom

LEMMA BalancedFlow ==
    ASSUME NEW c, NEW bs, Fits(c, bs), NEW L, Ready(c, bs, L), NEW xs \in Seq(Instructions),
           NEW U \in SUBSET Nat, 0 \notin U, NEW q \in 1 .. Len(xs), Balanced(c, bs, xs[q], q, U)
    PROVE  /\ FlowStep(xs[q], Stays(c, U, L), Len(c.code) + q, Len(c.code) + Len(xs))
           /\ \A t \in 1 .. Len(bs) : bs[t].kind = "loop" =>
                  InLoop(xs[q], Stays(c, U, L)[Len(c.code) + q], bs[t], L)
<1>1. /\ c \in Compilers /\ Sorted(c) /\ c.scopeDepth \in Nat /\ Len(bs) \in Nat
      /\ L \in [Nat -> Seq(Nat)] /\ Laid(c, bs, L)
  BY FitsIs DEF Ready, Laid, Flow
<1>2. PICK n \in Nat, k \in Nat, s \in Seq(Nat), i \in Instructions :
          n = Len(c.code) /\ k = Len(xs) /\ s = L[End(c)] /\ i = xs[q] /\ End(c) = n + 1
  BY <1>1, CompilerIs, LenProperties, ElementOfSeq
<1>3. PICK M : M = Stays(c, U, L)
  OBVIOUS
<1>4. /\ M \in [Nat -> Seq(Nat)]
      /\ \A p \in 1 .. n + 1 : M[p] = L[p]
      /\ \A r \in Nat : M[n + 1 + r] = IF r \in U THEN Append(s, Temp) ELSE s
  <2>1. c \in Compilers /\ L \in [Nat -> Seq(Nat)] /\ 0 \notin U
    BY <1>1
  <2>2. StaysFrom(Stays(c, U, L), L, End(c), U)
    BY <2>1, StaysIs
  <2> QED
    BY <1>2, <1>3, <2>2 DEF StaysFrom
<1>5. q \in Nat /\ q - 1 \in Nat /\ n + 1 + (q - 1) = n + q /\ n + 1 + q = n + q + 1
  BY <1>2
<1>6. /\ M[n + q] = IF q - 1 \in U THEN Append(s, Temp) ELSE s
      /\ M[n + q + 1] = IF q \in U THEN Append(s, Temp) ELSE s
  BY <1>4, <1>5
<1>7. /\ Append(s, Temp) \in Seq(Nat) /\ Len(Append(s, Temp)) = Len(s) + 1 /\ Len(s) \in Nat
      /\ Front(Append(s, Temp)) = s
  BY PushedIs DEF Temp
<1>8. s = Slots(c, c.scopeDepth) /\ Len(s) = Base(c, c.scopeDepth)
  BY <1>1, <1>2, BaseIs DEF Ready
<1>9. ASSUME NEW t \in 1 .. Len(bs), bs[t].kind = "loop"
      PROVE  /\ Len(L[bs[t].start]) \in Nat /\ Len(L[bs[t].start]) <= Len(s)
             /\ bs[t].start \in 1 .. n /\ L[bs[t].start] = Slots(c, t - 1)
  <2>1. /\ L[bs[t].start] = Slots(c, t - 1) /\ Len(L[bs[t].start]) = Base(c, t - 1)
        /\ Base(c, t - 1) <= Base(c, c.scopeDepth) /\ Base(c, t - 1) \in Nat
        /\ bs[t].start \in 1 .. Len(c.code)
    BY <1>1, <1>9, LoopHeight
  <2> QED
    BY <1>2, <1>8, <2>1
<1>10. Balanced(c, bs, i, q, U)
  BY <1>2
<1>11. ASSUME i.op = "jump", i.to # 0
       PROVE  i.to \in 1 .. n + k + 1 /\ M[i.to] = M[n + q]
  <2>1. q - 1 \notin U /\ Back(c, bs, i.to)
    BY <1>10, <1>11, Zenon DEF Balanced
  <2>2. PICK t \in 1 .. Len(bs) :
            bs[t].kind = "loop" /\ bs[t].start = i.to /\ Slots(c, t - 1) = Slots(c, c.scopeDepth)
    BY <2>1 DEF Back
  <2>3. i.to \in 1 .. n /\ L[i.to] = s
    BY <1>8, <1>9, <2>2
  <2>4. i.to \in 1 .. n + 1 /\ i.to \in 1 .. n + k + 1
    BY <1>2, <2>3
  <2> QED
    BY <1>4, <1>6, <2>1, <2>3, <2>4
<1>12. FlowStep(i, M, n + q, n + k)
  <2>1. i.op \in {"push", "pop", "get", "upvalue", "branch", "jump"}
    BY <1>10, Zenon DEF Balanced
  <2>2. CASE i.op = "push"
    <3>1. i.var = Temp /\ q - 1 \notin U /\ q \in U
      BY <1>10, <2>2, Zenon DEF Balanced
    <3>2. M[n + q + 1] = Append(M[n + q], i.var)
      BY <1>6, <3>1
    <3> QED
      BY <2>2, <3>2 DEF FlowStep
  <2>3. CASE i.op = "pop"
    <3>1. q - 1 \in U /\ q \notin U
      BY <1>10, <2>3, Zenon DEF Balanced
    <3>2. Len(M[n + q]) > 0 /\ M[n + q + 1] = Front(M[n + q])
      BY <1>6, <1>7, <3>1
    <3> QED
      BY <2>3, <3>2 DEF FlowStep
  <2>4. CASE i.op = "get"
    <3>1. /\ q - 1 \notin U /\ q \notin U /\ i.at \in 1 .. Base(c, c.scopeDepth)
          /\ c.locals[i.at].var = i.var
      BY <1>10, <2>4, Zenon DEF Balanced
    <3>2. M[n + q] = s /\ M[n + q + 1] = s
      BY <1>6, <3>1
    <3>3. i.at \in 1 .. Len(s) /\ s[i.at] = i.var
      <4>1. Slots(c, c.scopeDepth)[i.at] = c.locals[i.at].var
        BY <1>1, <3>1, BaseIs
      <4> QED
        BY <1>8, <3>1, <4>1
    <3> QED
      BY <2>4, <3>2, <3>3 DEF FlowStep
  <2>5. CASE i.op \in {"upvalue", "branch"}
    <3>1. (q - 1 \in U <=> q \in U) /\ (i.op = "branch" => i.to = 0)
      BY <1>10, <2>5, Zenon DEF Balanced
    <3>2. M[n + q + 1] = M[n + q]
      BY <1>6, <3>1
    <3> QED
      BY <2>5, <3>1, <3>2, Zenon DEF FlowStep
  <2>6. CASE i.op = "jump"
    BY <1>11, <2>6 DEF FlowStep
  <2> QED
    BY <2>1, <2>2, <2>3, <2>4, <2>5, <2>6, Zenon
<1>13. ASSUME NEW t \in 1 .. Len(bs), bs[t].kind = "loop"
       PROVE  InLoop(i, M[n + q], bs[t], L)
  <2>1. i.op = "pop" => Len(M[n + q]) > Len(L[bs[t].start])
    <3> SUFFICES ASSUME i.op = "pop" PROVE Len(M[n + q]) > Len(L[bs[t].start])
      OBVIOUS
    <3>1. q - 1 \in U
      BY <1>10, Zenon DEF Balanced
    <3>2. Len(M[n + q]) = Len(s) + 1
      BY <1>6, <1>7, <3>1
    <3>3. Len(L[bs[t].start]) \in Nat /\ Len(L[bs[t].start]) <= Len(s)
      BY <1>9, <1>13
    <3>4. \A x, y, z : x \in Nat /\ y \in Nat /\ x <= y /\ z = y + 1 => z > x
      OBVIOUS
    <3> QED
      BY <1>7, <3>2, <3>3, <3>4, Zenon
  <2>2. i.op \in {"jump", "branch"} => i.to = 0 \/ i.to >= bs[t].start
    <3> SUFFICES ASSUME i.op \in {"jump", "branch"}, i.to # 0 PROVE i.to >= bs[t].start
      OBVIOUS
    <3>1. Back(c, bs, i.to)
      BY <1>10, Zenon DEF Balanced
    <3>2. bs[t].start <= i.to
      BY <1>13, <3>1 DEF Back
    <3>3. PICK r \in 1 .. Len(bs) : bs[r].kind = "loop" /\ bs[r].start = i.to
      BY <3>1 DEF Back
    <3>4. i.to \in Nat /\ bs[t].start \in Nat
      BY <1>9, <1>13, <3>3
    <3> QED
      BY <3>2, <3>4
  <2> QED
    BY <2>1, <2>2 DEF InLoop
<1> QED
  BY <1>2, <1>3, <1>12, <1>13

LEMMA EmitBalanced ==
    ASSUME NEW c, NEW bs, Fits(c, bs), NEW e \in Compilers, NEW xs \in Seq(Instructions),
           Grown(c, e, xs), e.locals = c.locals, e.scopeDepth = c.scopeDepth, e.params = c.params,
           NEW U \in SUBSET Nat, 0 \notin U, Len(xs) \notin U,
           \A q \in 1 .. Len(xs) : Balanced(c, bs, xs[q], q, U),
           NEW L, Ready(c, bs, L)
    PROVE  /\ Ready(e, bs, Stays(c, U, L))
           /\ \A O : Tracked(c, bs, L, O) => Tracked(e, bs, Stays(c, U, L), StaysOpen(c, O))
<1>1. /\ c \in Compilers /\ Sorted(c) /\ c.scopeDepth \in Nat /\ Len(bs) \in Nat
      /\ L \in [Nat -> Seq(Nat)] /\ Laid(c, bs, L)
      /\ \A d \in 1 .. Len(bs) :
            bs[d] \in Constructs /\ d - 1 <= c.scopeDepth /\ (bs[d].kind = "match" => d <= c.scopeDepth)
  BY FitsIs DEF Ready, Laid, Flow
<1>2. PICK n \in Nat, k \in Nat, s \in Seq(Nat) :
          n = Len(c.code) /\ k = Len(xs) /\ s = L[End(c)] /\ End(c) = n + 1
  BY <1>1, CompilerIs, LenProperties
<1>3. PICK M : M = Stays(c, U, L)
  OBVIOUS
<1>4. /\ M \in [Nat -> Seq(Nat)]
      /\ \A p \in 1 .. n + 1 : M[p] = L[p]
      /\ \A r \in Nat : M[n + 1 + r] = IF r \in U THEN Append(s, Temp) ELSE s
  <2>1. c \in Compilers /\ L \in [Nat -> Seq(Nat)] /\ 0 \notin U
    BY <1>1
  <2>2. StaysFrom(Stays(c, U, L), L, End(c), U)
    BY <2>1, StaysIs
  <2> QED
    BY <1>2, <1>3, <2>2 DEF StaysFrom
<1>5. \A q \in 1 .. k : FlowStep(xs[q], M, n + q, n + k)
  BY <1>2, <1>3, BalancedFlow
<1>6. \A d \in 1 .. Len(bs) : bs[d].kind = "loop" =>
          \A q \in 1 .. k : InLoop(xs[q], M[n + q], bs[d], L)
  BY <1>2, <1>3, BalancedFlow
<1>7. Sorted(e) /\ Slots(e, e.scopeDepth) = Slots(c, c.scopeDepth) /\ SameUpTo(c, e, c.scopeDepth)
      /\ CapturedSlots(e) = CapturedSlots(c)
  BY SameNow
<1>8. Laid(e, bs, M)
  BY <1>1, <1>2, <1>4, <1>5, <1>6, <1>7, ExtendLaid
<1>9. End(e) = n + 1 + k
  <2>1. Len(e.code) = n + k /\ End(e) = Len(e.code) + 1
    BY <1>2, CompilerIs DEF Grown
  <2> QED
    BY <2>1
<1>10. Ready(e, bs, M)
  <2>1. M[1] = e.params
    <3>1. 1 \in 1 .. n + 1
      BY <1>2
    <3> QED
      BY <1>4, <3>1 DEF Ready
  <2>2. M[End(e)] = Slots(e, e.scopeDepth)
    BY <1>2, <1>4, <1>7, <1>9 DEF Ready
  <2> QED
    BY <1>8, <2>1, <2>2 DEF Ready
<1>11. ASSUME NEW O, Tracked(c, bs, L, O) PROVE Tracked(e, bs, M, StaysOpen(c, O))
  <2>1. /\ OpenLaid(c, bs, L, O) /\ O[End(c)] \subseteq CapturedSlots(c)
        /\ O \in [Nat -> SUBSET Nat] /\ O[n + 1] \subseteq 1 .. Len(s)
        /\ \A d \in 1 .. Len(bs) :
              /\ \A j \in Pending(bs[d], c) : O[j] \subseteq O[n + 1]
              /\ bs[d].kind = "loop" =>
                    O[n + 1] \cap 1 .. Len(L[bs[d].start]) \subseteq O[bs[d].start]
    <3>1. n + 1 \in 1 .. Len(c.code) + 1
      BY <1>2
    <3> QED
      BY <1>2, <1>11, <3>1 DEF Tracked, OpenLaid, OpenFlow, Covers
  <2>2. PICK K \in SUBSET Nat : K = O[n + 1] /\ K \subseteq 1 .. Len(s)
    BY <2>1
  <2>3. PICK P : P = [p \in Nat |-> IF p <= n + 1 THEN O[p] ELSE K]
    OBVIOUS
  <2>4. P = StaysOpen(c, O)
    BY <1>2, <2>2, <2>3, Zenon DEF StaysOpen
  <2>5. P \in [Nat -> SUBSET Nat] /\ \A p \in 1 .. n + 1 : P[p] = O[p]
    BY <2>1, <2>3
  <2>6. \A r \in Nat : P[n + 1 + r] = K
    <3> TAKE r \in Nat
    <3>1. n + 1 + r \in Nat /\ (n + 1 + r <= n + 1 => r = 0 /\ n + 1 + r = n + 1)
      BY <1>2
    <3> QED
      BY <2>2, <2>3, <3>1
  <2>7. \A d \in 1 .. Len(bs) :
              /\ \A j \in Pending(bs[d], c) : O[j] \subseteq P[End(e)]
              /\ bs[d].kind = "loop" =>
                    P[End(e)] \cap 1 .. Len(L[bs[d].start]) \subseteq O[bs[d].start]
    <3>1. P[End(e)] = O[n + 1]
      BY <1>9, <1>2, <2>2, <2>6
    <3> QED
      BY <2>1, <3>1
  <2>8. ASSUME NEW q \in 1 .. k
        PROVE  OpenStep(xs[q], M, P, n + q) /\ P[n + q + 1] \subseteq 1 .. Len(M[n + q + 1])
    <3>1. q \in Nat /\ q - 1 \in Nat /\ n + 1 + (q - 1) = n + q /\ n + 1 + q = n + q + 1
      OBVIOUS
    <3>2. /\ M[n + q] = IF q - 1 \in U THEN Append(s, Temp) ELSE s
          /\ M[n + q + 1] = IF q \in U THEN Append(s, Temp) ELSE s
          /\ P[n + q] = K /\ P[n + q + 1] = K
      BY <1>4, <2>6, <3>1
    <3>3. Len(s) \in Nat /\ Len(Append(s, Temp)) = Len(s) + 1
      BY PushedIs DEF Temp
    <3>4. K \subseteq 1 .. Len(s) + 1 /\ Len(s) + 1 \notin K
      BY <2>2, <3>3
    <3>5. P[n + q + 1] \subseteq 1 .. Len(M[n + q + 1])
      BY <2>2, <3>2, <3>3, <3>4
    <3>6. PICK i \in Instructions : i = xs[q] /\ Balanced(c, bs, i, q, U)
      BY <1>2, ElementOfSeq
    <3>7. i.op \in {"push", "pop", "get", "upvalue", "branch", "jump"}
      BY <3>6, Zenon DEF Balanced
    <3>8. i.op = "pop" => Len(M[n + q]) \notin K
      <4>1. i.op = "pop" => q - 1 \in U
        BY <3>6, Zenon DEF Balanced
      <4> QED
        BY <3>2, <3>3, <3>4, <4>1
    <3>9. i.op = "branch" => i.to = 0
      BY <3>6, Zenon DEF Balanced
    <3>10. ASSUME i.op = "jump", i.to # 0 PROVE K \subseteq P[i.to]
      <4>1. Back(c, bs, i.to)
        BY <3>6, <3>10, Zenon DEF Balanced
      <4>2. PICK t \in 1 .. Len(bs) :
            bs[t].kind = "loop" /\ bs[t].start = i.to /\ Slots(c, t - 1) = Slots(c, c.scopeDepth)
        BY <4>1 DEF Back
      <4>3. L[i.to] = s /\ i.to \in 1 .. n
        <5>1. L[bs[t].start] = Slots(c, t - 1) /\ bs[t].start \in 1 .. Len(c.code)
          BY <1>1, <4>2, LoopHeight
        <5>2. L[End(c)] = Slots(c, c.scopeDepth)
          BY DEF Ready
        <5> QED
          BY <1>2, <4>2, <5>1, <5>2
      <4>4. i.to \in 1 .. n + 1
        BY <1>2, <4>3
      <4>5. K \cap 1 .. Len(L[i.to]) \subseteq O[i.to]
        BY <2>1, <2>2, <4>2
      <4> QED
        BY <2>2, <2>5, <4>3, <4>4, <4>5
    <3>11. OpenStep(i, M, P, n + q)
      BY <3>2, <3>7, <3>8, <3>9, <3>10, Zenon DEF OpenStep
    <3> QED
      BY <3>5, <3>6, <3>11
  <2>9. OpenLaid(e, bs, M, P)
    <3>1. /\ \A p \in 1 .. Len(c.code) + 1 : M[p] = L[p]
          /\ \A p \in 1 .. Len(c.code) + 1 : P[p] = O[p]
          /\ \A q \in 1 .. Len(xs) :
               /\ OpenStep(xs[q], M, P, Len(c.code) + q)
               /\ P[Len(c.code) + q + 1] \subseteq 1 .. Len(M[Len(c.code) + q + 1])
      BY <1>2, <1>4, <2>5, <2>8
    <3>2. M \in [Nat -> Seq(Nat)] /\ P \in [Nat -> SUBSET Nat]
      BY <1>4, <2>5
    <3> QED
      BY <1>1, <2>1, <2>7, <3>1, <3>2, ExtendOpen
  <2>10. P[End(e)] \subseteq CapturedSlots(e)
    BY <1>2, <1>7, <1>9, <2>1, <2>2, <2>6
  <2> QED
    BY <2>4, <2>9, <2>10 DEF Tracked
<1> QED
  BY <1>3, <1>10, <1>11

-----------------------------------------------------------------------------
(* A slot more                                                             *)

LEMMA FullBase ==
    ASSUME NEW c \in Compilers, Sorted(c), ~Inner(c)
    PROVE  /\ Base(c, c.scopeDepth) = Len(c.locals)
           /\ \A i \in 1 .. Len(c.locals) :
                 c.locals[i].depth # Uninitialized /\ c.locals[i].depth \in 1 .. c.scopeDepth
<1>1. Len(c.locals) \in Nat /\ c.scopeDepth \in Nat
  BY CompilerIs
<1>2. ASSUME NEW i \in 1 .. Len(c.locals)
      PROVE  c.locals[i].depth # Uninitialized /\ c.locals[i].depth \in 1 .. c.scopeDepth
  <2>1. c.locals[i].depth # Uninitialized
    <3>1. CASE i = Len(c.locals)
      <4>1. Len(c.locals) > 0
        BY <1>1
      <4> QED
        BY <3>1, <4>1 DEF Inner
    <3>2. CASE i # Len(c.locals)
      <4>1. i < Len(c.locals) /\ Len(c.locals) \in 1 .. Len(c.locals)
        BY <1>1, <3>2
      <4> QED
        BY <4>1 DEF Sorted
    <3> QED
      BY <3>1, <3>2
  <2> QED
    BY <2>1 DEF Sorted
<1>3. Base(c, c.scopeDepth) \in 0 .. Len(c.locals)
  BY <1>1, BaseIs
<1>4. CASE Len(c.locals) = 0
  BY <1>2, <1>3, <1>4
<1>5. CASE Len(c.locals) # 0
  <2>1. Len(c.locals) \in 1 .. Len(c.locals)
    BY <1>1, <1>5
  <2>2. Len(c.locals) <= Base(c, c.scopeDepth)
    BY <1>1, <1>2, <2>1, BaseIs
  <2>3. Base(c, c.scopeDepth) = Len(c.locals)
    BY <1>1, <1>3, <2>2
  <2> QED
    BY <1>2, <2>3
<1> QED
  BY <1>4, <1>5

\* e has the slots of c, k in number, and one more for the variable v.
SlotMore(c, e, k, v) ==
    /\ k \in Nat /\ v \in Nat /\ c.scopeDepth > 0 /\ e.scopeDepth = c.scopeDepth
    /\ Len(c.locals) = k \/ (Len(c.locals) = k + 1 /\ c.locals[k + 1].depth = Uninitialized)
    /\ Len(e.locals) = k + 1
    /\ \A i \in 1 .. k :
          /\ c.locals[i].depth # Uninitialized
          /\ e.locals[i].depth = c.locals[i].depth /\ e.locals[i].var = c.locals[i].var
    /\ e.locals[k + 1].var = v /\ e.locals[k + 1].depth = c.scopeDepth

LEMMA SlotMoreIs ==
    ASSUME NEW c \in Compilers, Sorted(c), NEW e \in Compilers, NEW k, NEW v, SlotMore(c, e, k, v)
    PROVE  /\ Sorted(e) /\ ~Inner(e) /\ Base(e, c.scopeDepth) = k + 1 /\ Base(c, c.scopeDepth) = k
           /\ Slots(e, c.scopeDepth) = Append(Slots(c, c.scopeDepth), v)
           /\ SameUpTo(c, e, c.scopeDepth - 1)
<1>1. PICK s \in Nat : s = c.scopeDepth /\ s > 0 /\ s - 1 \in Nat /\ e.scopeDepth = s
  BY CompilerIs DEF SlotMore
<1>2. /\ k \in Nat /\ v \in Nat /\ Len(e.locals) = k + 1
      /\ Len(c.locals) = k \/ (Len(c.locals) = k + 1 /\ c.locals[k + 1].depth = Uninitialized)
      /\ \A i \in 1 .. k :
            /\ c.locals[i].depth # Uninitialized
            /\ e.locals[i].depth = c.locals[i].depth /\ e.locals[i].var = c.locals[i].var
      /\ e.locals[k + 1].var = v /\ e.locals[k + 1].depth = s
  BY <1>1 DEF SlotMore
<1>3. /\ \A i \in 1 .. k : i \in 1 .. Len(c.locals) /\ i \in 1 .. k + 1
      /\ \A i \in 1 .. k + 1 : i \in 1 .. k \/ i = k + 1
      /\ k + 1 \in 1 .. k + 1 /\ k + 1 \in Nat /\ k + 1 > 0
      /\ \A i \in 1 .. Len(c.locals) : i \in 1 .. k \/ (i = k + 1 /\ Len(c.locals) = k + 1)
  BY <1>2
<1>4. \A i \in 1 .. k : c.locals[i].depth \in 1 .. s /\ e.locals[i].depth \in 1 .. s
  BY <1>1, <1>2, <1>3 DEF Sorted
<1>5. Sorted(e)
  <2>1. \A i \in 1 .. k + 1 : e.locals[i].depth \in 1 .. s /\ e.locals[i].depth # Uninitialized
    BY <1>1, <1>2, <1>3, <1>4 DEF Uninitialized
  <2>2. ASSUME NEW i \in 1 .. k + 1, NEW j \in 1 .. k + 1, i < j
        PROVE  e.locals[i].depth <= e.locals[j].depth
    <3>1. i \in 1 .. k
      BY <1>2, <2>2
    <3>2. CASE j \in 1 .. k
      <4>1. c.locals[i].depth <= c.locals[j].depth
        BY <1>2, <1>3, <2>2, <3>1, <3>2 DEF Sorted
      <4> QED
        BY <1>2, <3>1, <3>2, <4>1
    <3>3. CASE j = k + 1
      BY <1>2, <1>4, <3>1, <3>3
    <3> QED
      BY <1>3, <3>2, <3>3
  <2> QED
    BY <1>1, <1>2, <2>1, <2>2 DEF Sorted
<1>6. ~Inner(e)
  BY <1>1, <1>2 DEF Inner, Uninitialized
<1>7. Base(e, s) = k + 1
  BY <1>1, <1>2, <1>5, <1>6, FullBase
<1>8. Base(c, s) = k
  <2>1. \A i \in 1 .. Len(c.locals) : i <= Base(c, s) <=> c.locals[i].depth \in 1 .. s
    BY <1>1, BaseIs
  <2>2. Base(c, s) \in 0 .. Len(c.locals)
    BY <1>1, BaseIs
  <2>3. k # 0 => k <= Base(c, s)
    <3> SUFFICES ASSUME k # 0 PROVE k <= Base(c, s)
      OBVIOUS
    <3>1. k \in 1 .. k
      BY <1>2
    <3> QED
      BY <1>3, <1>4, <2>1, <3>1
  <2>4. Len(c.locals) = k + 1 => ~(k + 1 <= Base(c, s))
    <3> SUFFICES ASSUME Len(c.locals) = k + 1 PROVE ~(k + 1 <= Base(c, s))
      OBVIOUS
    <3>1. k + 1 \in 1 .. Len(c.locals) /\ c.locals[k + 1].depth = Uninitialized
      BY <1>2, <1>3
    <3>2. c.locals[k + 1].depth \notin 1 .. s
      BY <3>1 DEF Uninitialized
    <3> QED
      BY <2>1, <3>1, <3>2
  <2>5. PICK b \in Nat : b = Base(c, s) /\ (Len(c.locals) = k => b <= k)
      /\ (Len(c.locals) = k + 1 => b <= k + 1)
    BY <1>2, <2>2
  <2>6. (k # 0 => k <= b) /\ (Len(c.locals) = k + 1 => ~(k + 1 <= b))
    BY <2>3, <2>4, <2>5
  <2>7. b = k
    BY <1>2, <2>5, <2>6
  <2> QED
    BY <2>5, <2>7
<1>9. Slots(e, s) = Append(Slots(c, s), v)
  <2>1. PICK x \in Seq(Nat), y \in Seq(Nat) : x = Slots(c, s) /\ y = Slots(e, s)
    BY <1>1, <1>5, BaseIs
  <2>2. Len(x) = k /\ Len(y) = k + 1
    BY <1>1, <1>5, <1>7, <1>8, <2>1, BaseIs
  <2>3. \A i \in 1 .. k : x[i] = c.locals[i].var
    BY <1>1, <1>8, <2>1, BaseIs
  <2>4. \A i \in 1 .. k + 1 : y[i] = e.locals[i].var
    BY <1>1, <1>5, <1>7, <2>1, BaseIs
  <2>5. PICK z \in Seq(Nat) : z = Append(x, v)
    BY <1>2, PushedIs
  <2>6. Len(z) = k + 1 /\ (\A i \in 1 .. k : z[i] = x[i]) /\ z[k + 1] = v
    BY <1>2, <2>2, <2>5, PushedIs
  <2>7. \A i \in 1 .. k + 1 : z[i] = y[i]
    BY <1>2, <1>3, <2>3, <2>4, <2>6
  <2>8. z = y
    BY <2>2, <2>6, <2>7, SeqEqual
  <2> QED
    BY <2>1, <2>5, <2>8
<1>10. ASSUME NEW d \in 0 .. s - 1
       PROVE  Base(e, d) = Base(c, d) /\ Slots(e, d) = Slots(c, d)
  <2>1. d \in Nat /\ s \notin 1 .. d /\ Uninitialized \notin 1 .. d
    BY <1>1 DEF Uninitialized
  <2>2. \A i \in 1 .. Len(c.locals) : c.locals[i].depth \in 1 .. d =>
               /\ i \in 1 .. Len(e.locals) /\ e.locals[i].depth \in 1 .. d
               /\ e.locals[i].var = c.locals[i].var
    BY <1>2, <1>3, <2>1
  <2>3. \A i \in 1 .. Len(e.locals) : e.locals[i].depth \in 1 .. d =>
               i \in 1 .. Len(c.locals) /\ c.locals[i].depth \in 1 .. d
    BY <1>2, <1>3, <2>1
  <2> QED
    BY <1>5, <2>1, <2>2, <2>3, SameSlots
<1> QED
  BY <1>1, <1>5, <1>6, <1>7, <1>8, <1>9, <1>10 DEF SameUpTo

\* The stack when v is pushed.
Taller(c, v, L) == [p \in Nat |-> IF p <= End(c) THEN L[p] ELSE Append(L[End(c)], v)]

\* The instruction i pushes v, on the stack that L gives.
Pushing(c, bs, e, i, k, v, L) ==
    /\ Fits(c, bs) /\ e \in Compilers /\ i \in Instructions
    /\ Grown(c, e, <<i>>) /\ e.params = c.params /\ SlotMore(c, e, k, v)
    /\ i.op \in {"push", "closure"} /\ i.var = v
    /\ Len(bs) <= c.scopeDepth /\ (Len(bs) = c.scopeDepth => bs[Len(bs)].kind # "match")
    /\ Ready(c, bs, L)
    /\ i.op = "closure" =>
          \A x \in i.captures : x.at \in 1 .. Len(L[End(c)]) /\ L[End(c)][x.at] = x.var

\* The stack then.
Pushed(c, bs, e, v, L, M) ==
    /\ Ready(e, bs, M) /\ M \in [Nat -> Seq(Nat)]
    /\ \A p \in 1 .. Len(c.code) + 1 : M[p] = L[p]
    /\ M[Len(c.code) + 2] = Append(L[End(c)], v)
    /\ Fits(e, bs)

LEMMA SlotMoreFlow ==
    ASSUME NEW c, NEW bs, NEW e, NEW i, NEW k, NEW v, NEW L, Pushing(c, bs, e, i, k, v, L)
    PROVE  Pushed(c, bs, e, v, L, Taller(c, v, L))
<1>0. /\ Fits(c, bs) /\ e \in Compilers /\ i \in Instructions
      /\ Grown(c, e, <<i>>) /\ e.params = c.params /\ SlotMore(c, e, k, v)
      /\ i.op \in {"push", "closure"} /\ i.var = v
      /\ Len(bs) <= c.scopeDepth /\ (Len(bs) = c.scopeDepth => bs[Len(bs)].kind # "match")
      /\ Ready(c, bs, L)
      /\ i.op = "closure" =>
            \A x \in i.captures : x.at \in 1 .. Len(L[End(c)]) /\ L[End(c)][x.at] = x.var
  BY Zenon DEF Pushing
<1>1. /\ c \in Compilers /\ Sorted(c) /\ c.scopeDepth \in Nat /\ Len(bs) \in Nat
      /\ L \in [Nat -> Seq(Nat)] /\ Laid(c, bs, L)
  BY <1>0, FitsIs DEF Ready, Laid, Flow
<1>2. PICK n \in Nat, s \in Seq(Nat) : n = Len(c.code) /\ s = L[End(c)] /\ End(c) = n + 1
  BY <1>1, CompilerIs
<1>3. v \in Nat /\ e.scopeDepth = c.scopeDepth /\ c.scopeDepth - 1 \in Nat
  <2>1. v \in Nat /\ e.scopeDepth = c.scopeDepth /\ c.scopeDepth > 0
    BY <1>0 DEF SlotMore
  <2>2. \A x \in Nat : x > 0 => x - 1 \in Nat
    OBVIOUS
  <2> QED
    BY <1>1, <2>1, <2>2
<1>4. PICK M : M = [p \in Nat |-> IF p <= n + 1 THEN L[p] ELSE Append(s, v)]
  OBVIOUS
<1>5. Taller(c, v, L) = M
  BY <1>2, <1>4, Zenon DEF Taller
<1>6. Append(s, v) \in Seq(Nat)
  BY <1>3, PushedIs
<1>7. M \in [Nat -> Seq(Nat)] /\ (\A p \in 1 .. n + 1 : M[p] = L[p]) /\ M[n + 2] = Append(s, v)
      /\ M[n + 1] = s
  <2>1. PICK a \in Seq(Nat) : a = Append(s, v)
    BY <1>6
  <2>2. M = [p \in Nat |-> IF p <= n + 1 THEN L[p] ELSE a]
    BY <1>4, <2>1
  <2>3. M \in [Nat -> Seq(Nat)]
    BY <1>1, <2>2
  <2>4. n + 2 \in Nat /\ ~(n + 2 <= n + 1) /\ n + 1 \in Nat /\ n + 1 <= n + 1
    OBVIOUS
  <2>5. M[n + 2] = a
    BY <2>2, <2>4
  <2>6. \A p \in 1 .. n + 1 : p \in Nat /\ p <= n + 1
    OBVIOUS
  <2>7. \A p \in 1 .. n + 1 : M[p] = L[p]
    BY <2>2, <2>6
  <2>8. M[n + 1] = L[n + 1]
    BY <2>2, <2>4
  <2> QED
    BY <1>2, <2>1, <2>3, <2>5, <2>7, <2>8
<1>8. /\ Sorted(e) /\ Slots(e, c.scopeDepth) = Append(Slots(c, c.scopeDepth), v)
      /\ SameUpTo(c, e, c.scopeDepth - 1)
  BY <1>0, <1>1, SlotMoreIs
<1>9. PICK xs \in Seq(Instructions) : xs = <<i>> /\ Len(xs) = 1 /\ xs[1] = i /\ Grown(c, e, xs)
  <2>1. <<i>> \in Seq(Instructions) /\ Len(<<i>>) = 1 /\ <<i>>[1] = i
    BY <1>0
  <2> QED
    BY <1>0, <2>1, Zenon
<1>10. FlowStep(i, M, n + 1, n + 1)
  <2>1. M[n + 1 + 1] = Append(M[n + 1], i.var)
    BY <1>0, <1>7
  <2>2. i.op = "closure" => \A x \in i.captures : x.at \in 1 .. Len(M[n + 1]) /\ M[n + 1][x.at] = x.var
    BY <1>0, <1>2, <1>7
  <2> QED
    BY <1>0, <2>1, <2>2, Zenon DEF FlowStep
<1>11. \A q \in 1 .. Len(xs) : FlowStep(xs[q], M, Len(c.code) + q, Len(c.code) + Len(xs))
  <2>1. \A q \in 1 .. Len(xs) : q = 1 /\ xs[q] = i
    BY <1>9
  <2> QED
    BY <1>2, <1>9, <1>10, <2>1
<1>12. \A d \in 1 .. Len(bs) : bs[d].kind = "loop" =>
               \A q \in 1 .. Len(xs) : InLoop(xs[q], M[Len(c.code) + q], bs[d], L)
  <2>1. \A q \in 1 .. Len(xs) : xs[q].op \notin {"pop", "jump", "branch"}
    <3>1. \A q \in 1 .. Len(xs) : xs[q] = i
      BY <1>9
    <3> QED
      BY <1>0, <3>1
  <2> QED
    BY <2>1 DEF InLoop
<1>13. \A d \in 1 .. Len(bs) : bs[d] \in Constructs /\ d - 1 <= c.scopeDepth - 1
                               /\ (bs[d].kind = "match" => d <= c.scopeDepth - 1)
  <2> TAKE d \in 1 .. Len(bs)
  <2>1. bs[d] \in Constructs /\ d \in Nat /\ Len(bs) <= c.scopeDepth
    BY <1>0, FitsIs
  <2>3. \A x, y, z : x \in Nat /\ y \in Nat /\ z \in 1 .. x /\ x <= y =>
            (z = y => z = x) /\ z - 1 <= y - 1 /\ (z # y => z <= y - 1)
    OBVIOUS
  <2>2. bs[d].kind = "match" => d # c.scopeDepth
    <3> SUFFICES ASSUME bs[d].kind = "match", d = c.scopeDepth PROVE FALSE
      OBVIOUS
    <3>1. d = Len(bs)
      BY <1>1, <2>1, <2>3, Zenon
    <3> QED
      BY <1>0, <1>1, <3>1
  <2> QED
    BY <1>1, <2>1, <2>2, <2>3, Zenon
<1>14. Laid(e, bs, M)
  <2>1. \A p \in 1 .. Len(c.code) + 1 : M[p] = L[p]
    BY <1>2, <1>7
  <2>2. c.scopeDepth - 1 \in Nat
    BY <1>3
  <2> QED
    BY <1>0, <1>1, <1>7, <1>8, <1>9, <1>11, <1>12, <1>13, <2>1, <2>2, ExtendLaid
<1>15. End(e) = n + 2
  <2>1. Len(e.code) = n + 1
    BY <1>2, <1>9 DEF Grown
  <2> QED
    BY <2>1 DEF End
<1>16. 1 \in 1 .. n + 1
  BY <1>2
<1>17. Ready(e, bs, M)
  <2>1. M[1] = e.params
    BY <1>0, <1>7, <1>16 DEF Ready
  <2>2. M[End(e)] = Slots(e, e.scopeDepth)
    BY <1>0, <1>2, <1>3, <1>7, <1>8, <1>15 DEF Ready
  <2> QED
    BY <1>14, <2>1, <2>2 DEF Ready
<1>18. Fits(e, bs)
  BY <1>0, <1>3, <1>8 DEF Fits
<1> QED
  BY <1>2, <1>5, <1>7, <1>17, <1>18 DEF Pushed

LEMMA SlotMoreOpen ==
    ASSUME NEW c, NEW bs, Fits(c, bs), NEW e \in Compilers, NEW i \in Instructions,
           Grown(c, e, <<i>>), NEW v \in Nat,
           i.op = "push", CapturedSlots(c) \subseteq CapturedSlots(e),
           NEW L, Ready(c, bs, L), NEW M \in [Nat -> Seq(Nat)],
           \A p \in 1 .. Len(c.code) + 1 : M[p] = L[p],
           M[Len(c.code) + 2] = Append(L[End(c)], v),
           NEW O, Tracked(c, bs, L, O)
    PROVE  Tracked(e, bs, M, StaysOpen(c, O))
<1>1. /\ c \in Compilers /\ Len(bs) \in Nat /\ Laid(c, bs, L) /\ L \in [Nat -> Seq(Nat)]
      /\ \A d \in 1 .. Len(bs) : bs[d] \in Constructs
  BY FitsIs DEF Ready, Laid, Flow
<1>2. PICK n \in Nat, s \in Seq(Nat) : n = Len(c.code) /\ s = L[End(c)] /\ End(c) = n + 1
  BY <1>1, CompilerIs
<1>3. /\ OpenLaid(c, bs, L, O) /\ O[End(c)] \subseteq CapturedSlots(c)
      /\ O \in [Nat -> SUBSET Nat] /\ O[n + 1] \subseteq 1 .. Len(s)
      /\ \A d \in 1 .. Len(bs) :
              /\ \A j \in Pending(bs[d], c) : O[j] \subseteq O[n + 1]
              /\ bs[d].kind = "loop" =>
                    O[n + 1] \cap 1 .. Len(L[bs[d].start]) \subseteq O[bs[d].start]
  <2>1. n + 1 \in 1 .. Len(c.code) + 1
    BY <1>2
  <2> QED
    BY <1>2, <2>1 DEF Tracked, OpenLaid, OpenFlow, Covers
<1>4. PICK K \in SUBSET Nat : K = O[n + 1] /\ K \subseteq 1 .. Len(s)
  <2>1. n + 1 \in Nat
    OBVIOUS
  <2>2. O[n + 1] \in SUBSET Nat
    BY <1>3, <2>1
  <2> QED
    BY <1>3, <2>2, Zenon
<1>5. PICK P : P = [p \in Nat |-> IF p <= n + 1 THEN O[p] ELSE K]
  OBVIOUS
<1>6. P = StaysOpen(c, O)
  BY <1>2, <1>4, <1>5, Zenon DEF StaysOpen
<1>7. P \in [Nat -> SUBSET Nat] /\ (\A p \in 1 .. n + 1 : P[p] = O[p]) /\ P[n + 1] = K /\ P[n + 2] = K
  <2>1. P \in [Nat -> SUBSET Nat]
    BY <1>3, <1>5
  <2>2. n + 2 \in Nat /\ ~(n + 2 <= n + 1) /\ n + 1 \in Nat /\ n + 1 <= n + 1
    OBVIOUS
  <2>3. \A p \in 1 .. n + 1 : p \in Nat /\ p <= n + 1
    OBVIOUS
  <2>4. P[n + 2] = K
    BY <1>5, <2>2
  <2>5. P[n + 1] = O[n + 1]
    BY <1>5, <2>2
  <2>6. \A p \in 1 .. n + 1 : P[p] = O[p]
    BY <1>5, <2>3
  <2> QED
    BY <1>4, <2>1, <2>4, <2>5, <2>6
<1>8. PICK xs \in Seq(Instructions) : xs = <<i>> /\ Len(xs) = 1 /\ xs[1] = i /\ Grown(c, e, xs)
  <2>1. <<i>> \in Seq(Instructions) /\ Len(<<i>>) = 1 /\ <<i>>[1] = i
    OBVIOUS
  <2> QED
    BY <2>1, Zenon
<1>9. End(e) = n + 2
  <2>1. Len(e.code) = n + 1
    BY <1>2, <1>8 DEF Grown
  <2> QED
    BY <2>1 DEF End
<1>10. \A q \in 1 .. Len(xs) :
          /\ OpenStep(xs[q], M, P, Len(c.code) + q)
          /\ P[Len(c.code) + q + 1] \subseteq 1 .. Len(M[Len(c.code) + q + 1])
  <2>1. OpenStep(i, M, P, n + 1)
    <3>1. P[n + 1] = P[n + 1 + 1]
      BY <1>7
    <3> QED
      BY <3>1, Zenon DEF OpenStep
  <2>2. K \subseteq 1 .. Len(M[n + 2])
    <3>1. M[n + 2] = Append(s, v)
      BY <1>2
    <3>2. Len(Append(s, v)) = Len(s) + 1 /\ Len(s) \in Nat
      BY PushedIs
    <3>3. 1 .. Len(s) \subseteq 1 .. Len(s) + 1
      BY <3>2
    <3> QED
      BY <1>4, <3>1, <3>2, <3>3
  <2>3. P[n + 1 + 1] \subseteq 1 .. Len(M[n + 1 + 1])
    BY <1>7, <2>2
  <2>4. \A q \in 1 .. Len(xs) : q = 1 /\ xs[q] = i
    BY <1>8
  <2> QED
    BY <1>2, <2>1, <2>3, <2>4
<1>11. \A d \in 1 .. Len(bs) :
               /\ \A j \in Pending(bs[d], c) : O[j] \subseteq P[End(e)]
               /\ bs[d].kind = "loop" =>
                      P[End(e)] \cap 1 .. Len(L[bs[d].start]) \subseteq O[bs[d].start]
  BY <1>3, <1>4, <1>7, <1>9
<1>12. OpenLaid(e, bs, M, P)
  <2>1. \A p \in 1 .. Len(c.code) + 1 : P[p] = O[p]
    BY <1>2, <1>7
  <2> QED
    BY <1>1, <1>3, <1>7, <1>8, <1>10, <1>11, <2>1, ExtendOpen
<1>13. P[End(e)] \subseteq CapturedSlots(e)
  BY <1>2, <1>3, <1>4, <1>7, <1>9
<1> QED
  BY <1>6, <1>12, <1>13 DEF Tracked

LEMMA SlotMoreLeads ==
    ASSUME NEW c, NEW bs, Fits(c, bs), NEW e \in Compilers, NEW i \in Instructions,
           Grown(c, e, <<i>>), e.params = c.params, NEW k, NEW v, SlotMore(c, e, k, v),
           i.op = "push", i.var = v, CapturedSlots(c) \subseteq CapturedSlots(e),
           Len(bs) <= c.scopeDepth, Len(bs) = c.scopeDepth => bs[Len(bs)].kind # "match"
    PROVE  Leads(c, bs, e, bs) /\ Fits(e, bs)
<1>1. SUFFICES ASSUME NEW L, Ready(c, bs, L)
               PROVE  /\ Ready(e, bs, Taller(c, v, L))
                      /\ \A O : Tracked(c, bs, L, O) => Tracked(e, bs, Taller(c, v, L), StaysOpen(c, O))
  <2>1. Fits(e, bs)
    <3>1. c \in Compilers /\ Sorted(c)
      BY FitsIs
    <3>2. Sorted(e) /\ e.scopeDepth = c.scopeDepth
      BY <3>1, SlotMoreIs DEF SlotMore
    <3> QED
      BY <3>2 DEF Fits
  <2> QED
    BY <2>1 DEF Leads
<1>2. PICK M : M = Taller(c, v, L)
  OBVIOUS
<1>3. Pushing(c, bs, e, i, k, v, L)
  BY <1>1, Zenon DEF Pushing
<1>4. /\ Ready(e, bs, M) /\ M \in [Nat -> Seq(Nat)]
      /\ \A p \in 1 .. Len(c.code) + 1 : M[p] = L[p]
      /\ M[Len(c.code) + 2] = Append(L[End(c)], v)
  <2>1. Pushed(c, bs, e, v, L, Taller(c, v, L))
    BY <1>3, SlotMoreFlow
  <2>2. Pushed(c, bs, e, v, L, M)
    BY <1>2, <2>1
  <2> QED
    BY <2>2 DEF Pushed
<1>5. v \in Nat
  BY DEF SlotMore
<1>6. ASSUME NEW O, Tracked(c, bs, L, O) PROVE Tracked(e, bs, M, StaysOpen(c, O))
  BY <1>1, <1>4, <1>5, <1>6, SlotMoreOpen
<1> QED
  BY <1>2, <1>4, <1>6

\* e is c with the local n for the variable v, whose value is pushed.
DeclaredIn(c, e, n, v) ==
    /\ e \in Compilers /\ Grown(c, e, <<PushOf(v)>>)
    /\ e.upvalues = c.upvalues /\ e.scopeDepth = c.scopeDepth /\ e.params = c.params
    /\ Len(e.locals) = Len(c.locals) + 1
    /\ \A i \in 1 .. Len(c.locals) : e.locals[i] = c.locals[i]
    /\ e.locals[Len(c.locals) + 1].name = n /\ e.locals[Len(c.locals) + 1].var = v
    /\ e.locals[Len(c.locals) + 1].depth = c.scopeDepth
    /\ e.locals[Len(c.locals) + 1].captured = FALSE

LEMMA DeclareIs ==
    ASSUME NEW c \in Compilers, NEW n \in Nat, NEW v \in Nat
    PROVE  DeclaredIn(c, MarkInitialized(Emit(AddLocal(c, n, v), <<PushOf(v)>>)), n, v)
<1>1. PICK a, b, e : a = AddLocal(c, n, v) /\ b = Emit(a, <<PushOf(v)>>) /\ e = MarkInitialized(b)
  OBVIOUS
<1>2. PICK k \in Nat : k = Len(c.locals)
  BY CompilerIs
<1>3. PushOf(v) \in Instructions
  BY DEF Instructions, Pushes, PushOf
<1>4. <<PushOf(v)>> \in Seq(Instructions)
  BY <1>3
<1>5. /\ a \in Compilers
      /\ a.code = c.code /\ a.upvalues = c.upvalues /\ a.scopeDepth = c.scopeDepth
      /\ a.params = c.params
      /\ Len(a.locals) = k + 1
      /\ \A i \in 1 .. k : a.locals[i] = c.locals[i]
      /\ a.locals[k + 1] = [name |-> n, var |-> v, depth |-> Uninitialized, captured |-> FALSE]
  BY <1>1, <1>2, AddLocalIs
<1>6. /\ b \in Compilers
      /\ b.locals = a.locals /\ b.upvalues = a.upvalues /\ b.scopeDepth = a.scopeDepth
      /\ b.params = a.params
      /\ Grown(a, b, <<PushOf(v)>>)
  BY <1>1, <1>4, <1>5, EmitIs DEF Grown
<1>7. Len(b.locals) > 0 /\ Len(b.locals) = k + 1
  BY <1>5, <1>6
<1>8. /\ e \in Compilers
      /\ e.code = b.code /\ e.upvalues = b.upvalues /\ e.scopeDepth = b.scopeDepth
      /\ e.params = b.params
      /\ Len(e.locals) = k + 1
      /\ \A i \in 1 .. k + 1 : i # k + 1 => e.locals[i] = b.locals[i]
      /\ e.locals[k + 1].name = b.locals[k + 1].name /\ e.locals[k + 1].var = b.locals[k + 1].var
      /\ e.locals[k + 1].captured = b.locals[k + 1].captured
      /\ e.locals[k + 1].depth = b.scopeDepth
  BY <1>1, <1>6, <1>7, MarkIs
<1>9. Grown(c, e, <<PushOf(v)>>)
  BY <1>5, <1>6, <1>8 DEF Grown
<1>10. \A i \in 1 .. k : i \in 1 .. k + 1 /\ i # k + 1
  BY <1>2
<1>11. \A i \in 1 .. k : e.locals[i] = c.locals[i]
  BY <1>5, <1>6, <1>8, <1>10
<1>12. /\ e.locals[k + 1].name = n /\ e.locals[k + 1].var = v
       /\ e.locals[k + 1].depth = c.scopeDepth /\ e.locals[k + 1].captured = FALSE
  BY <1>5, <1>6, <1>8
<1> QED
  BY <1>1, <1>2, <1>5, <1>6, <1>8, <1>9, <1>11, <1>12 DEF DeclaredIn

LEMMA DeclareLeads ==
    ASSUME NEW c, NEW bs, Fits(c, bs), ~Inner(c), c.scopeDepth > 0, NEW n \in Nat, NEW v \in Nat,
           Len(bs) <= c.scopeDepth, Len(bs) = c.scopeDepth => bs[Len(bs)].kind # "match"
    PROVE  LET e == MarkInitialized(Emit(AddLocal(c, n, v), <<PushOf(v)>>))
           IN  Leads(c, bs, e, bs) /\ Fits(e, bs) /\ ~Inner(e)
<1>1. c \in Compilers /\ Sorted(c)
  BY FitsIs
<1>2. PICK e : e = MarkInitialized(Emit(AddLocal(c, n, v), <<PushOf(v)>>))
  OBVIOUS
<1>3. PICK k \in Nat : k = Len(c.locals)
  BY <1>1, CompilerIs
<1>4. /\ e \in Compilers /\ Grown(c, e, <<PushOf(v)>>)
      /\ e.scopeDepth = c.scopeDepth /\ e.params = c.params
      /\ Len(e.locals) = k + 1
      /\ \A i \in 1 .. k : e.locals[i] = c.locals[i]
      /\ e.locals[k + 1].var = v /\ e.locals[k + 1].depth = c.scopeDepth
      /\ e.locals[k + 1].captured = FALSE
  <2>2. DeclaredIn(c, e, n, v)
    BY <1>1, <1>2, DeclareIs
  <2>1. /\ e \in Compilers /\ Grown(c, e, <<PushOf(v)>>)
        /\ e.scopeDepth = c.scopeDepth /\ e.params = c.params
        /\ Len(e.locals) = Len(c.locals) + 1
        /\ \A i \in 1 .. Len(c.locals) : e.locals[i] = c.locals[i]
        /\ e.locals[Len(c.locals) + 1].var = v /\ e.locals[Len(c.locals) + 1].depth = c.scopeDepth
        /\ e.locals[Len(c.locals) + 1].captured = FALSE
    BY <2>2 DEF DeclaredIn
  <2> QED
    BY <1>3, <2>1
<1>5. \A i \in 1 .. k : c.locals[i].depth # Uninitialized
  BY <1>1, <1>3, FullBase
<1>6. SlotMore(c, e, k, v)
  BY <1>3, <1>4, <1>5 DEF SlotMore
<1>7. PushOf(v) \in Instructions /\ PushOf(v).op = "push" /\ PushOf(v).var = v
  BY DEF Instructions, Pushes, PushOf
<1>8. CapturedSlots(c) \subseteq CapturedSlots(e)
  <2>1. \A i \in 1 .. k : i \in 1 .. k + 1
    BY <1>3
  <2> QED
    BY <1>3, <1>4, <2>1 DEF CapturedSlots
<1>9. PICK i : i = PushOf(v)
  OBVIOUS
<1>10. Leads(c, bs, e, bs) /\ Fits(e, bs)
  BY <1>4, <1>6, <1>7, <1>8, <1>9, SlotMoreLeads
<1>11. ~Inner(e)
  BY <1>1, <1>4, <1>6, SlotMoreIs
<1> QED
  BY <1>2, <1>10, <1>11

\* No code is written.
LEMMA NoCodeLeads ==
    ASSUME NEW c, NEW bs, Fits(c, bs), NEW e \in Compilers, Sorted(e), e.code = c.code,
           e.params = c.params, NEW m \in Nat, SameUpTo(c, e, m),
           \A d \in 1 .. Len(bs) : d - 1 <= m /\ (bs[d].kind = "match" => d <= m),
           Slots(e, e.scopeDepth) = Slots(c, c.scopeDepth),
           CapturedSlots(c) \cap 1 .. Base(c, c.scopeDepth) \subseteq CapturedSlots(e)
    PROVE  Leads(c, bs, e, bs)
<1>1. /\ c \in Compilers /\ Sorted(c) /\ Len(bs) \in Nat /\ c.scopeDepth \in Nat
      /\ \A d \in 1 .. Len(bs) : bs[d] \in Constructs
  BY FitsIs
<1>2. SUFFICES ASSUME NEW L, Ready(c, bs, L)
               PROVE  /\ Ready(e, bs, L)
                      /\ \A O : Tracked(c, bs, L, O) => Tracked(e, bs, L, O)
  BY DEF Leads
<1>3. L \in [Nat -> Seq(Nat)] /\ Laid(c, bs, L) /\ L[End(c)] = Slots(c, c.scopeDepth)
  BY <1>2 DEF Ready, Laid, Flow
<1>4. PICK xs \in Seq(Instructions) : Len(xs) = 0
  <2>1. <<>> \in Seq(Instructions) /\ Len(<<>>) = 0
    OBVIOUS
  <2> QED
    BY <2>1
<1>5. Grown(c, e, xs)
  <2>1. Len(c.code) \in Nat
    BY <1>1, CompilerIs
  <2>2. Len(e.code) = Len(c.code) + Len(xs) /\ 1 .. Len(xs) = {}
    BY <1>4, <2>1
  <2> QED
    BY <2>2 DEF Grown
<1>6. \A q : q \notin 1 .. Len(xs)
  BY <1>4
<1>7. Laid(e, bs, L)
  <2>1. \A d \in 1 .. Len(bs) : bs[d] \in Constructs /\ d - 1 <= m /\ (bs[d].kind = "match" => d <= m)
    BY <1>1
  <2>2. \A q \in 1 .. Len(xs) : FlowStep(xs[q], L, Len(c.code) + q, Len(c.code) + Len(xs))
    BY <1>6
  <2>3. \A d \in 1 .. Len(bs) : bs[d].kind = "loop" =>
               \A q \in 1 .. Len(xs) : InLoop(xs[q], L[Len(c.code) + q], bs[d], L)
    BY <1>6
  <2> QED
    BY <1>1, <1>3, <1>5, <2>1, <2>2, <2>3, ExtendLaid
<1>8. End(e) = End(c)
  BY DEF End
<1>9. Ready(e, bs, L)
  BY <1>2, <1>7, <1>8 DEF Ready
<1>10. ASSUME NEW O, Tracked(c, bs, L, O) PROVE Tracked(e, bs, L, O)
  <2>1. OpenLaid(e, bs, L, O)
    <3>1. \A d \in 1 .. Len(bs) : Pending(bs[d], e) = Pending(bs[d], c)
      BY DEF Pending
    <3>2. Covers(e, bs, L, O)
      BY <1>8, <1>10, <3>1 DEF Tracked, OpenLaid, Covers
    <3> QED
      BY <1>10, <3>2 DEF Tracked, OpenLaid
  <2>2. O[End(c)] \subseteq 1 .. Base(c, c.scopeDepth)
    <3>1. Len(L[End(c)]) = Base(c, c.scopeDepth)
      <4>1. Len(Slots(c, c.scopeDepth)) = Base(c, c.scopeDepth)
        BY <1>1, BaseIs
      <4> QED
        BY <1>3, <4>1
    <3>2. End(c) \in 1 .. Len(c.code) + 1
      <4>1. End(c) = Len(c.code) + 1 /\ Len(c.code) \in Nat
        BY <1>1, CompilerIs
      <4> QED
        BY <4>1
    <3>3. O[End(c)] \subseteq 1 .. Len(L[End(c)])
      BY <1>10, <3>2 DEF Tracked, OpenLaid, OpenFlow
    <3> QED
      BY <3>1, <3>3
  <2>3. O[End(e)] \subseteq CapturedSlots(e)
    BY <1>8, <1>10, <2>2 DEF Tracked
  <2> QED
    BY <2>1, <2>3 DEF Tracked
<1> QED
  BY <1>9, <1>10

LEMMA BeginScopeLeads ==
    ASSUME NEW c, NEW bs, Fits(c, bs)
    PROVE  /\ Leads(c, bs, BeginScope(c), bs) /\ Fits(BeginScope(c), bs)
           /\ Inner(BeginScope(c)) <=> Inner(c)
<1>1. /\ c \in Compilers /\ Sorted(c) /\ Len(bs) \in Nat /\ c.scopeDepth \in Nat
      /\ \A d \in 1 .. Len(bs) : d - 1 <= c.scopeDepth /\ (bs[d].kind = "match" => d <= c.scopeDepth)
  BY FitsIs
<1>2. PICK e : e = BeginScope(c)
  OBVIOUS
<1>3. PICK s \in Nat : s = c.scopeDepth
  BY <1>1
<1>4. /\ e \in Compilers /\ e.scopeDepth = s + 1
      /\ e.code = c.code /\ e.upvalues = c.upvalues /\ e.params = c.params /\ e.locals = c.locals
  BY <1>1, <1>2, <1>3, BeginScopeIs
<1>5. Inner(e) <=> Inner(c)
  BY <1>4 DEF Inner
<1>6. 1 .. s \subseteq 1 .. s + 1
  BY <1>3
<1>7. Sorted(e)
  BY <1>1, <1>3, <1>4, <1>6 DEF Sorted
<1>8. \A d : Slots(e, d) = Slots(c, d) /\ Base(e, d) = Base(c, d)
  BY <1>4 DEF Slots, Base
<1>9. Slots(e, s + 1) = Slots(c, s)
  <2>1. \A i \in 1 .. Len(c.locals) : c.locals[i].depth \in 1 .. s + 1 <=> c.locals[i].depth \in 1 .. s
    <3> TAKE i \in 1 .. Len(c.locals)
    <3>1. c.locals[i].depth = Uninitialized \/ c.locals[i].depth \in 1 .. s
      BY <1>1, <1>3 DEF Sorted
    <3> QED
      BY <1>6, <3>1 DEF Uninitialized
  <2>2. Base(c, s + 1) = Base(c, s)
    BY <2>1 DEF Base
  <2> QED
    BY <1>8, <2>2 DEF Slots
<1>10. Fits(e, bs)
  <2>1. \A d \in 1 .. Len(bs) : d - 1 <= s + 1 /\ (bs[d].kind = "match" => d <= s + 1)
    <3> TAKE d \in 1 .. Len(bs)
    <3>1. d - 1 <= s /\ (bs[d].kind = "match" => d <= s) /\ d \in Int
      BY <1>1, <1>3
    <3> QED
      BY <3>1
  <2> QED
    BY <1>4, <1>7, <2>1 DEF Fits
<1>11. Leads(c, bs, e, bs)
  <2>1. SameUpTo(c, e, s)
    BY <1>8 DEF SameUpTo
  <2>2. CapturedSlots(c) \cap 1 .. Base(c, c.scopeDepth) \subseteq CapturedSlots(e)
    BY <1>4 DEF CapturedSlots
  <2>3. Slots(e, e.scopeDepth) = Slots(c, c.scopeDepth)
    BY <1>3, <1>4, <1>9
  <2> QED
    BY <1>1, <1>3, <1>4, <1>7, <2>1, <2>2, <2>3, NoCodeLeads
<1> QED
  BY <1>2, <1>5, <1>10, <1>11

-----------------------------------------------------------------------------
(* Scopes that are left                                                    *)

\* The lowest h slots of the stack s.
LowPart(s, h) == [i \in 1 .. h |-> s[i]]

LEMMA LowPartIs ==
    ASSUME NEW s \in Seq(Nat), NEW h \in Nat, h <= Len(s)
    PROVE  /\ LowPart(s, h) \in Seq(Nat) /\ Len(LowPart(s, h)) = h
           /\ h = Len(s) => LowPart(s, h) = s
           /\ h > 0 => h - 1 \in Nat /\ Front(LowPart(s, h)) = LowPart(s, h - 1)
<1>1. ASSUME NEW k \in Nat, k <= Len(s)
      PROVE  /\ LowPart(s, k) \in Seq(Nat) /\ Len(LowPart(s, k)) = k
             /\ \A i \in 1 .. k : LowPart(s, k)[i] = s[i]
  <2>1. PICK f : f = [i \in 1 .. k |-> s[i]]
    OBVIOUS
  <2>2. f = LowPart(s, k)
    BY <2>1 DEF LowPart
  <2>3. \A i \in 1 .. k : s[i] \in Nat
    <3>1. Len(s) \in Nat /\ \A i \in 1 .. Len(s) : s[i] \in Nat
      BY LenProperties, ElementOfSeq
    <3>2. 1 .. k \subseteq 1 .. Len(s)
      BY <1>1, <3>1
    <3> QED
      BY <3>1, <3>2
  <2>4. f \in [1 .. k -> Nat]
    BY <2>1, <2>3
  <2>5. f \in Seq(Nat)
    BY <2>4, FunctionIsSeq
  <2>6. DOMAIN f = 1 .. k /\ DOMAIN f = 1 .. Len(f) /\ Len(f) \in Nat
    BY <2>4, <2>5, LenProperties
  <2>7. Len(f) = k
    BY <2>6
  <2> QED
    BY <2>1, <2>2, <2>5, <2>7
<1>2. /\ LowPart(s, h) \in Seq(Nat) /\ Len(LowPart(s, h)) = h
      /\ \A i \in 1 .. h : LowPart(s, h)[i] = s[i]
  BY <1>1
<1>3. ASSUME h = Len(s) PROVE LowPart(s, h) = s
  BY <1>2, <1>3, SeqEqual
<1>4. ASSUME h > 0 PROVE h - 1 \in Nat /\ Front(LowPart(s, h)) = LowPart(s, h - 1)
  <2>1. PICK k \in Nat : k = h - 1 /\ h = k + 1
    BY <1>4
  <2>2. k <= Len(s)
    <3>1. Len(s) \in Nat
      BY LenProperties
    <3> QED
      BY <2>1, <3>1
  <2>3. PICK a \in Seq(Nat), b \in Seq(Nat) : a = LowPart(s, h) /\ b = LowPart(s, k)
    BY <1>2, <2>2, <1>1
  <2>4. /\ Len(a) = h /\ Len(b) = k
        /\ \A i \in 1 .. h : a[i] = s[i]
        /\ \A i \in 1 .. k : b[i] = s[i]
    BY <1>1, <1>2, <2>2, <2>3
  <2>5. Len(a) # 0 /\ Len(a) - 1 = k
    BY <2>1, <2>4
  <2>6. /\ Front(a) \in Seq(Nat) /\ Len(Front(a)) = k
        /\ \A i \in 1 .. k : Front(a)[i] = a[i]
    BY <2>5, FrontIs
  <2>7. \A i \in 1 .. k : i \in 1 .. h
    BY <2>1
  <2>8. \A i \in 1 .. k : Front(a)[i] = b[i]
    BY <2>4, <2>6, <2>7
  <2>9. Front(a) = b
    BY <2>3, <2>4, <2>6, <2>8, SeqEqual
  <2> QED
    BY <2>1, <2>3, <2>9
<1> QED
  BY <1>2, <1>3, <1>4

LEMMA SlotsPart ==
    ASSUME NEW c \in Compilers, Sorted(c), NEW d \in Nat, NEW e \in Nat, d <= e
    PROVE  /\ LowPart(Slots(c, e), Base(c, d)) = Slots(c, d)
           /\ Base(c, d) \in Nat /\ Base(c, d) <= Len(Slots(c, e))
<1>1. PICK a \in Nat, b \in Nat : a = Base(c, d) /\ b = Base(c, e)
  <2>1. Base(c, d) \in 0 .. Len(c.locals) /\ Base(c, e) \in 0 .. Len(c.locals) /\ Len(c.locals) \in Nat
    BY BaseIs, CompilerIs
  <2>2. Base(c, d) \in Nat /\ Base(c, e) \in Nat
    BY <2>1
  <2> QED
    BY <2>2
<1>2. a <= b /\ \A i \in 1 .. a : Slots(c, e)[i] = Slots(c, d)[i]
  BY <1>1, BaseMono
<1>3. PICK x \in Seq(Nat), y \in Seq(Nat) :
          x = Slots(c, d) /\ y = Slots(c, e) /\ Len(x) = a /\ Len(y) = b
  BY <1>1, BaseIs
<1>4. \A i \in 1 .. a : x[i] = y[i]
  BY <1>2, <1>3
<1>5. LowPart(y, a) \in Seq(Nat) /\ Len(LowPart(y, a)) = a
  BY <1>2, <1>3, LowPartIs
<1>6. \A i \in 1 .. a : LowPart(y, a)[i] = y[i]
  BY DEF LowPart
<1>7. LowPart(y, a) = x
  BY <1>3, <1>4, <1>5, <1>6, SeqEqual
<1> QED
  BY <1>1, <1>2, <1>3, <1>7

\* The stack and the captured slots, when h gives the height after each instruction.
Heights(c, h, L) ==
    [p \in Nat |-> IF p <= End(c) THEN L[p] ELSE LowPart(L[End(c)], h[p - End(c)])]

HeightsOpen(c, h, O) ==
    [p \in Nat |-> IF p <= End(c) THEN O[p] ELSE O[End(c)] \cap 1 .. h[p - End(c)]]

HeightsFrom(M, L, n, h) ==
    /\ M \in [Nat -> Seq(Nat)]
    /\ \A p \in 1 .. n : M[p] = L[p]
    /\ \A q \in Nat : M[n + q] = LowPart(L[n], h[q])

HeightsOpenFrom(P, O, n, h) ==
    /\ P \in [Nat -> SUBSET Nat]
    /\ \A p \in 1 .. n : P[p] = O[p]
    /\ \A q \in Nat : P[n + q] = O[n] \cap 1 .. h[q]

LEMMA HeightsIs ==
    ASSUME NEW c \in Compilers, NEW L \in [Nat -> Seq(Nat)], NEW h \in [Nat -> Nat],
           h[0] = Len(L[End(c)]), \A q \in Nat : h[q] <= Len(L[End(c)])
    PROVE  HeightsFrom(Heights(c, h, L), L, End(c), h)
<1>1. PICK n \in Nat : n = End(c)
  BY CompilerIs
<1>2. PICK s \in Seq(Nat) : s = L[n]
  OBVIOUS
<1>3. \A q \in Nat : LowPart(s, h[q]) \in Seq(Nat)
  BY <1>1, <1>2, LowPartIs
<1>4. LowPart(s, h[0]) = s
  BY <1>1, <1>2, LowPartIs
<1>5. PICK F : F = [q \in Nat |-> LowPart(s, h[q])]
  OBVIOUS
<1>6. F \in [Nat -> Seq(Nat)] /\ F[0] = s /\ \A q \in Nat : F[q] = LowPart(s, h[q])
  BY <1>3, <1>4, <1>5
<1>7. PICK M : M = [p \in Nat |-> IF p <= n THEN L[p] ELSE LowPart(s, h[p - n])]
  OBVIOUS
<1>8. \A p \in Nat : p <= n \/ p - n \in Nat
  <2>1. \A x, y \in Nat : x <= y \/ x - y \in Nat
    OBVIOUS
  <2> QED
    BY <2>1, Zenon
<1>9. M = [p \in Nat |-> IF p <= n THEN L[p] ELSE F[p - n]]
  BY <1>6, <1>7, <1>8
<1>10. M \in [Nat -> Seq(Nat)]
  BY <1>6, <1>8, <1>9
<1>11. \A p \in 1 .. n : M[p] = L[p]
  BY <1>7
<1>12. ASSUME NEW q \in Nat PROVE M[n + q] = F[q]
  <2>1. CASE q = 0
    BY <1>2, <1>6, <1>7, <2>1
  <2>2. CASE q # 0
    <3>1. n + q \in Nat /\ ~(n + q <= n) /\ (n + q) - n = q
      BY <2>2
    <3> QED
      BY <1>9, <3>1
  <2> QED
    BY <2>1, <2>2
<1>13. Heights(c, h, L) = M
  BY <1>1, <1>2, <1>7, Zenon DEF Heights
<1> QED
  BY <1>1, <1>2, <1>6, <1>10, <1>11, <1>12, <1>13 DEF HeightsFrom

LEMMA HeightsOpenIs ==
    ASSUME NEW c \in Compilers, NEW O \in [Nat -> SUBSET Nat], NEW h \in [Nat -> Nat],
           O[End(c)] \subseteq 1 .. h[0]
    PROVE  HeightsOpenFrom(HeightsOpen(c, h, O), O, End(c), h)
<1>1. PICK n \in Nat : n = End(c)
  BY CompilerIs
<1>2. PICK K \in SUBSET Nat : K = O[n]
  OBVIOUS
<1>3. PICK F : F = [q \in Nat |-> K \cap 1 .. h[q]]
  OBVIOUS
<1>4. F \in [Nat -> SUBSET Nat] /\ F[0] = K /\ \A q \in Nat : F[q] = K \cap 1 .. h[q]
  BY <1>1, <1>2, <1>3
<1>5. PICK P : P = [p \in Nat |-> IF p <= n THEN O[p] ELSE K \cap 1 .. h[p - n]]
  OBVIOUS
<1>6. \A p \in Nat : p <= n \/ p - n \in Nat
  BY <1>1
<1>7. P = [p \in Nat |-> IF p <= n THEN O[p] ELSE F[p - n]]
  BY <1>4, <1>5, <1>6
<1>8. P \in [Nat -> SUBSET Nat]
  BY <1>4, <1>6, <1>7
<1>9. \A p \in 1 .. n : P[p] = O[p]
  BY <1>5
<1>10. ASSUME NEW q \in Nat PROVE P[n + q] = F[q]
  <2>1. CASE q = 0
    BY <1>2, <1>4, <1>5, <2>1
  <2>2. CASE q # 0
    <3>1. n + q \in Nat /\ ~(n + q <= n) /\ (n + q) - n = q
      BY <2>2
    <3> QED
      BY <1>7, <3>1
  <2> QED
    BY <2>1, <2>2
<1>11. HeightsOpen(c, h, O) = P
  BY <1>1, <1>2, <1>5, Zenon DEF HeightsOpen
<1> QED
  BY <1>1, <1>2, <1>4, <1>8, <1>9, <1>10, <1>11 DEF HeightsOpenFrom

\* Instruction i discards the highest of g slots, and f are left.
Leaving(c, bs, i, g, f) ==
    /\ g \in 1 .. Len(c.locals) /\ f = g - 1 /\ i = Discard(c.locals[g])
    /\ \A t \in 1 .. Len(bs) : bs[t].kind = "loop" =>
           Base(c, t - 1) < g \/ (i.op = "pop" => bs[t].left = TRUE /\ Base(c, t - 1) = g)

\* Instruction q of k branches forward, where the stack is as high.
Skipping(c, i, h, q, k) ==
    /\ i.op = "branch" /\ h[q] = h[q - 1]
    /\ \E r \in 0 .. k : i.to = End(c) + r /\ h[r] = h[q - 1]

\* Instruction i jumps to the beginning of a loop, on a stack of g slots.
Jumping(c, bs, i, g) ==
    /\ i.op = "jump"
    /\ i.to # 0 =>
          /\ \E t \in 1 .. Len(bs) : bs[t].kind = "loop" /\ bs[t].start = i.to /\ Base(c, t - 1) = g
          /\ \A t \in 1 .. Len(bs) : bs[t].kind = "loop" => bs[t].start <= i.to

HeightMove(c, bs, i, h, q, k) ==
    \/ Leaving(c, bs, i, h[q - 1], h[q])
    \/ Skipping(c, i, h, q, k)
    \/ Jumping(c, bs, i, h[q - 1])

\* The heights begin with that of c, and are never higher.
HeightsOf(c, h) ==
    /\ h \in [Nat -> Nat] /\ h[0] = Len(c.locals)
    /\ \A q \in Nat : h[q] <= Len(c.locals)

LEMMA DiscardIs ==
    ASSUME NEW x \in Locals
    PROVE  /\ Discard(x) \in Instructions /\ Discard(x).op \in {"pop", "close"}
           /\ x.captured = TRUE => Discard(x).op = "close"
           /\ x.captured = FALSE => Discard(x).op = "pop"
<1>1. x.captured \in BOOLEAN
  BY LocalIs
<1>2. Pop \in Instructions /\ [op |-> "close"] \in Instructions
  BY DEF Instructions, Discards, Pop
<1>3. Discard(x) = IF x.captured THEN [op |-> "close"] ELSE Pop
  BY DEF Discard
<1>4. Pop.op = "pop"
  BY DEF Pop
<1> QED
  BY <1>1, <1>2, <1>3, <1>4

LEMMA HeightNow ==
    ASSUME NEW c, NEW bs, Fits(c, bs), ~Inner(c), NEW L, Ready(c, bs, L)
    PROVE  /\ L \in [Nat -> Seq(Nat)] /\ L[End(c)] = Slots(c, c.scopeDepth)
           /\ Len(L[End(c)]) = Len(c.locals) /\ Len(c.locals) \in Nat
           /\ Base(c, c.scopeDepth) = Len(c.locals)
<1>1. c \in Compilers /\ Sorted(c) /\ c.scopeDepth \in Nat
  BY FitsIs
<1>2. Len(Slots(c, c.scopeDepth)) = Base(c, c.scopeDepth)
  BY <1>1, BaseIs
<1>3. Base(c, c.scopeDepth) = Len(c.locals)
  BY <1>1, FullBase
<1>4. Len(c.locals) \in Nat
  BY <1>1, CompilerIs
<1>5. L \in [Nat -> Seq(Nat)] /\ L[End(c)] = Slots(c, c.scopeDepth)
  BY DEF Ready, Laid, Flow
<1> QED
  BY <1>2, <1>3, <1>4, <1>5

LEMMA HeightStep ==
    ASSUME NEW c, NEW bs, Fits(c, bs), ~Inner(c), NEW L, Ready(c, bs, L),
           NEW h, HeightsOf(c, h), NEW M, HeightsFrom(M, L, End(c), h),
           NEW k \in Nat, NEW q \in 1 .. k, NEW i \in Instructions,
           HeightMove(c, bs, i, h, q, k)
    PROVE  /\ FlowStep(i, M, Len(c.code) + q, Len(c.code) + k)
           /\ \A t \in 1 .. Len(bs) : bs[t].kind = "loop" => InLoop(i, M[Len(c.code) + q], bs[t], L)
<1>1. /\ c \in Compilers /\ Sorted(c) /\ c.scopeDepth \in Nat /\ Len(bs) \in Nat
      /\ L \in [Nat -> Seq(Nat)] /\ Laid(c, bs, L)
  BY FitsIs DEF Ready, Laid, Flow
<1>2. PICK n \in Nat, l \in Nat, s \in Seq(Nat) :
          /\ n = Len(c.code) /\ l = Len(c.locals) /\ s = L[End(c)] /\ End(c) = n + 1
          /\ Len(s) = l /\ s = Slots(c, c.scopeDepth) /\ Base(c, c.scopeDepth) = l
  <2>1. Len(c.code) \in Nat /\ End(c) = Len(c.code) + 1
    BY <1>1, CompilerIs
  <2>2. /\ L[End(c)] = Slots(c, c.scopeDepth) /\ Len(L[End(c)]) = Len(c.locals)
        /\ Len(c.locals) \in Nat /\ Base(c, c.scopeDepth) = Len(c.locals)
    BY HeightNow
  <2>3. L[End(c)] \in Seq(Nat)
    <3>1. End(c) \in Nat
      BY <2>1
    <3> QED
      BY <1>1, <3>1
  <2> QED
    BY <2>1, <2>2, <2>3
<1>3. PICK g \in Nat, f \in Nat : g = h[q - 1] /\ f = h[q] /\ g <= l /\ f <= l
  <2>1. q - 1 \in Nat /\ q \in Nat
    OBVIOUS
  <2>2. \A x \in Nat : h[x] \in Nat /\ h[x] <= l
    BY <1>2 DEF HeightsOf
  <2> QED
    BY <2>1, <2>2
<1>4. q \in Nat /\ q - 1 \in Nat /\ n + 1 + (q - 1) = n + q /\ n + 1 + q = n + q + 1
  BY <1>2
<1>5. \A x \in Nat : M[n + 1 + x] = LowPart(s, h[x])
  BY <1>2 DEF HeightsFrom
<1>6. M[n + q] = LowPart(s, g) /\ M[n + q + 1] = LowPart(s, f)
  BY <1>3, <1>4, <1>5
<1>7. /\ LowPart(s, g) \in Seq(Nat) /\ Len(LowPart(s, g)) = g
      /\ g > 0 => Front(LowPart(s, g)) = LowPart(s, g - 1)
  BY <1>2, <1>3, LowPartIs
<1>8. ASSUME NEW t \in 1 .. Len(bs), bs[t].kind = "loop"
      PROVE  /\ Len(L[bs[t].start]) = Base(c, t - 1) /\ Base(c, t - 1) \in Nat
             /\ bs[t].start \in 1 .. n /\ L[bs[t].start] = Slots(c, t - 1)
             /\ LowPart(s, Base(c, t - 1)) = Slots(c, t - 1)
  <2>1. /\ L[bs[t].start] = Slots(c, t - 1) /\ Len(L[bs[t].start]) = Base(c, t - 1)
        /\ Base(c, t - 1) \in Nat
        /\ bs[t].start \in 1 .. Len(c.code)
    BY <1>1, <1>8, LoopHeight
  <2>2. t - 1 \in Nat /\ t - 1 <= c.scopeDepth
    BY FitsIs
  <2>3. LowPart(Slots(c, c.scopeDepth), Base(c, t - 1)) = Slots(c, t - 1)
    BY <1>1, <2>2, SlotsPart
  <2> QED
    BY <1>2, <2>1, <2>3
<1>9. CASE Leaving(c, bs, i, g, f)
  <2>1. g > 0 /\ f = g - 1 /\ i.op \in {"pop", "close"}
    <3>1. g \in 1 .. l /\ f = g - 1 /\ i = Discard(c.locals[g])
      BY <1>2, <1>9 DEF Leaving
    <3>2. c.locals[g] \in Locals
      BY <1>1, <1>2, <3>1, CompilerIs
    <3>3. Discard(c.locals[g]).op \in {"pop", "close"}
      BY <3>2, DiscardIs
    <3> QED
      BY <3>1, <3>3
  <2>2. M[n + q + 1] = Front(M[n + q]) /\ Len(M[n + q]) > 0
    BY <1>6, <1>7, <2>1
  <2>3. FlowStep(i, M, n + q, n + k)
    BY <2>1, <2>2, Zenon DEF FlowStep
  <2>4. ASSUME NEW t \in 1 .. Len(bs), bs[t].kind = "loop" PROVE InLoop(i, M[n + q], bs[t], L)
    <3>1. Base(c, t - 1) < g \/ (i.op = "pop" => bs[t].left = TRUE /\ Base(c, t - 1) = g)
      BY <1>9, <2>4 DEF Leaving
    <3>2. Len(M[n + q]) = g /\ Len(L[bs[t].start]) = Base(c, t - 1) /\ Base(c, t - 1) \in Nat
      BY <1>6, <1>7, <1>8, <2>4
    <3>3. \A x, y \in Nat : x < y => y > x
      OBVIOUS
    <3>4. i.op = "pop" => Len(M[n + q]) > Len(L[bs[t].start])
                          \/ (bs[t].left = TRUE /\ Len(M[n + q]) = Len(L[bs[t].start]))
      BY <3>1, <3>2, <3>3, Zenon
    <3>5. i.op \notin {"jump", "branch"}
      BY <2>1
    <3> QED
      BY <3>4, <3>5 DEF InLoop
  <2> QED
    BY <1>2, <2>3, <2>4
<1>10. CASE Skipping(c, i, h, q, k)
  <2>1. i.op = "branch" /\ f = g
    BY <1>3, <1>10 DEF Skipping
  <2>2. PICK r \in 0 .. k : i.to = n + 1 + r /\ h[r] = g
    BY <1>2, <1>3, <1>10 DEF Skipping
  <2>3. r \in Nat /\ n + 1 + r \in 1 .. n + k + 1 /\ n + 1 + r > n
    BY <1>2
  <2>4. M[i.to] = M[n + q] /\ M[n + q + 1] = M[n + q]
    <3>1. M[n + 1 + r] = LowPart(s, h[r])
      BY <1>5, <2>3
    <3> QED
      BY <1>6, <2>1, <2>2, <3>1
  <2>5. FlowStep(i, M, n + q, n + k)
    <3>1. i.to \in 1 .. n + k + 1
      BY <2>2, <2>3
    <3> QED
      BY <2>1, <2>4, <3>1, Zenon DEF FlowStep
  <2>6. ASSUME NEW t \in 1 .. Len(bs), bs[t].kind = "loop" PROVE InLoop(i, M[n + q], bs[t], L)
    <3>1. bs[t].start \in 1 .. n
      BY <1>8, <2>6
    <3>2. i.to >= bs[t].start
      <4>1. \A x \in 1 .. n, y \in 1 .. n + k + 1 : y > n => y >= x
        OBVIOUS
      <4> QED
        BY <2>2, <2>3, <3>1, <4>1, Zenon
    <3> QED
      BY <2>1, <3>2 DEF InLoop
  <2> QED
    BY <1>2, <2>5, <2>6
<1>11. CASE Jumping(c, bs, i, g)
  <2>1. i.op = "jump"
    BY <1>11 DEF Jumping
  <2>2. i.to # 0 => i.to \in 1 .. n + k + 1 /\ M[i.to] = M[n + q]
    <3> SUFFICES ASSUME i.to # 0 PROVE i.to \in 1 .. n + k + 1 /\ M[i.to] = M[n + q]
      OBVIOUS
    <3>1. PICK t \in 1 .. Len(bs) : bs[t].kind = "loop" /\ bs[t].start = i.to /\ Base(c, t - 1) = g
      BY <1>11 DEF Jumping
    <3>2. i.to \in 1 .. n /\ L[i.to] = LowPart(s, g)
      BY <1>8, <3>1
    <3>3. i.to \in 1 .. n + 1 /\ i.to \in 1 .. n + k + 1
      <4>1. \A x \in 1 .. n : x \in 1 .. n + 1 /\ x \in 1 .. n + k + 1
        OBVIOUS
      <4> QED
        BY <3>2, <4>1, Zenon
    <3>4. M[i.to] = L[i.to]
      BY <1>2, <3>3 DEF HeightsFrom
    <3> QED
      BY <1>6, <3>2, <3>3, <3>4
  <2>3. FlowStep(i, M, n + q, n + k)
    BY <2>1, <2>2, Zenon DEF FlowStep
  <2>4. ASSUME NEW t \in 1 .. Len(bs), bs[t].kind = "loop" PROVE InLoop(i, M[n + q], bs[t], L)
    <3>1. i.to # 0 => i.to >= bs[t].start
      <4> SUFFICES ASSUME i.to # 0 PROVE i.to >= bs[t].start
        OBVIOUS
      <4>1. /\ \E r \in 1 .. Len(bs) : bs[r].kind = "loop" /\ bs[r].start = i.to
            /\ bs[t].start <= i.to
        BY <1>11, <2>4 DEF Jumping
      <4>2. i.to \in Nat /\ bs[t].start \in Nat
        BY <1>8, <2>4, <4>1, SMTT(30)
      <4> QED
        BY <4>1, <4>2
    <3> QED
      BY <2>1, <3>1 DEF InLoop
  <2> QED
    BY <1>2, <2>3, <2>4
<1>12. Leaving(c, bs, i, g, f) \/ Skipping(c, i, h, q, k) \/ Jumping(c, bs, i, g)
  BY <1>3 DEF HeightMove
<1> QED
  BY <1>9, <1>10, <1>11, <1>12

LEMMA OpenNow ==
    ASSUME NEW c, NEW bs, Fits(c, bs), NEW L, Ready(c, bs, L), NEW O, Tracked(c, bs, L, O)
    PROVE  /\ O \in [Nat -> SUBSET Nat] /\ O[End(c)] \subseteq CapturedSlots(c)
           /\ O[End(c)] \subseteq 1 .. Len(L[End(c)])
           /\ \A d \in 1 .. Len(bs) :
                 /\ \A j \in Pending(bs[d], c) : O[j] \subseteq O[End(c)] /\ O[j] \subseteq 1 .. Len(L[j])
                 /\ bs[d].kind = "loop" =>
                       O[End(c)] \cap 1 .. Len(L[bs[d].start]) \subseteq O[bs[d].start]
<1>1. c \in Compilers /\ Len(bs) \in Nat /\ \A d \in 1 .. Len(bs) : bs[d] \in Constructs
  BY FitsIs
<1>2. End(c) \in 1 .. Len(c.code) + 1 /\ \A p \in 1 .. Len(c.code) : p \in 1 .. Len(c.code) + 1
  <2>1. PICK n \in Nat : n = Len(c.code) /\ End(c) = n + 1
    BY <1>1, CompilerIs
  <2>2. n + 1 \in 1 .. n + 1 /\ \A p \in 1 .. n : p \in 1 .. n + 1
    BY <2>1
  <2> QED
    BY <2>1, <2>2
<1>3. OpenFlow(c.code, L, O) /\ Covers(c, bs, L, O) /\ O[End(c)] \subseteq CapturedSlots(c)
  BY DEF Tracked, OpenLaid
<1>4. O \in [Nat -> SUBSET Nat] /\ \A p \in 1 .. Len(c.code) + 1 : O[p] \subseteq 1 .. Len(L[p])
  BY <1>3 DEF OpenFlow
<1>5. ASSUME NEW d \in 1 .. Len(bs), NEW j \in Pending(bs[d], c)
      PROVE  O[j] \subseteq O[End(c)] /\ O[j] \subseteq 1 .. Len(L[j])
  <2>1. bs[d] \in Constructs /\ BlockLaid(bs[d], d, c, L)
    BY <1>1 DEF Ready, Laid
  <2>2. PICK b : b = bs[d]
    OBVIOUS
  <2>3. b \in Constructs /\ BlockLaid(b, d, c, L) /\ j \in Pending(b, c)
    BY <1>5, <2>1, <2>2
  <2>4. j \in 1 .. Len(c.code)
    BY <1>1, <2>3, PendingIs
  <2> QED
    BY <1>2, <1>3, <1>4, <1>5, <2>4 DEF Covers
<1>6. \A d \in 1 .. Len(bs) : bs[d].kind = "loop" =>
          O[End(c)] \cap 1 .. Len(L[bs[d].start]) \subseteq O[bs[d].start]
  BY <1>3 DEF Covers
<1> QED
  BY <1>2, <1>3, <1>4, <1>5, <1>6

LEMMA HeightOpenStep ==
    ASSUME NEW c, NEW bs, Fits(c, bs), ~Inner(c), NEW L, Ready(c, bs, L),
           NEW h, HeightsOf(c, h), NEW M, HeightsFrom(M, L, End(c), h),
           NEW O, Tracked(c, bs, L, O), NEW P, HeightsOpenFrom(P, O, End(c), h),
           NEW k \in Nat, NEW q \in 1 .. k, NEW i \in Instructions,
           HeightMove(c, bs, i, h, q, k)
    PROVE  /\ OpenStep(i, M, P, Len(c.code) + q)
           /\ P[Len(c.code) + q + 1] \subseteq 1 .. Len(M[Len(c.code) + q + 1])
<1>1. /\ c \in Compilers /\ Sorted(c) /\ c.scopeDepth \in Nat /\ Len(bs) \in Nat
      /\ L \in [Nat -> Seq(Nat)] /\ Laid(c, bs, L)
  BY FitsIs DEF Ready, Laid, Flow
<1>2. PICK n \in Nat, l \in Nat, s \in Seq(Nat) :
          /\ n = Len(c.code) /\ l = Len(c.locals) /\ s = L[End(c)] /\ End(c) = n + 1 /\ Len(s) = l
  <2>1. Len(c.code) \in Nat /\ End(c) = Len(c.code) + 1
    BY <1>1, CompilerIs
  <2>2. /\ L[End(c)] = Slots(c, c.scopeDepth) /\ Len(L[End(c)]) = Len(c.locals)
        /\ Len(c.locals) \in Nat /\ Base(c, c.scopeDepth) = Len(c.locals)
    BY HeightNow
  <2>3. L[End(c)] \in Seq(Nat)
    <3>1. End(c) \in Nat
      BY <2>1
    <3> QED
      BY <1>1, <3>1
  <2> QED
    BY <2>1, <2>2, <2>3
<1>3. PICK g \in Nat, f \in Nat : g = h[q - 1] /\ f = h[q] /\ g <= l /\ f <= l
  <2>1. q - 1 \in Nat /\ q \in Nat
    OBVIOUS
  <2>2. \A x \in Nat : h[x] \in Nat /\ h[x] <= l
    BY <1>2 DEF HeightsOf
  <2> QED
    BY <2>1, <2>2
<1>4. q \in Nat /\ q - 1 \in Nat /\ n + 1 + (q - 1) = n + q /\ n + 1 + q = n + q + 1
  BY <1>2
<1>5. PICK K \in SUBSET Nat : /\ K = O[n + 1] /\ K \subseteq CapturedSlots(c) /\ K \subseteq 1 .. l
                              /\ O \in [Nat -> SUBSET Nat]
  <2>1. /\ O \in [Nat -> SUBSET Nat] /\ O[End(c)] \subseteq CapturedSlots(c)
        /\ O[End(c)] \subseteq 1 .. Len(L[End(c)])
    BY OpenNow
  <2>2. O[n + 1] \in SUBSET Nat
    BY <2>1
  <2> QED
    BY <1>2, <2>1, <2>2
<1>6. \A x \in Nat : M[n + 1 + x] = LowPart(s, h[x]) /\ P[n + 1 + x] = K \cap 1 .. h[x]
  BY <1>2, <1>5 DEF HeightsFrom, HeightsOpenFrom
<1>7. /\ M[n + q] = LowPart(s, g) /\ M[n + q + 1] = LowPart(s, f)
      /\ P[n + q] = K \cap 1 .. g /\ P[n + q + 1] = K \cap 1 .. f
  BY <1>3, <1>4, <1>6
<1>8. Len(LowPart(s, g)) = g /\ Len(LowPart(s, f)) = f
  BY <1>2, <1>3, LowPartIs
<1>9. P[n + q + 1] \subseteq 1 .. Len(M[n + q + 1])
  BY <1>7, <1>8
<1>10. CASE Leaving(c, bs, i, g, f)
  <2>1. g \in 1 .. l /\ f = g - 1 /\ i = Discard(c.locals[g])
    BY <1>2, <1>10 DEF Leaving
  <2>2. c.locals[g] \in Locals
    BY <1>1, <1>2, <2>1, CompilerIs
  <2>3. i.op \in {"pop", "close"} /\ (c.locals[g].captured = TRUE => i.op = "close")
    BY <2>1, <2>2, DiscardIs
  <2>4. g \in K => i.op = "close"
    <3>1. g \in K => c.locals[g].captured = TRUE
      BY <1>5 DEF CapturedSlots
    <3> QED
      BY <2>3, <3>1
  <2>5. \A x \in 1 .. g : x = g \/ x \in 1 .. f
    BY <1>3, <2>1
  <2>6. P[n + q] \ {g} \subseteq P[n + q + 1]
    BY <1>7, <2>5
  <2>7. i.op = "pop" => g \notin P[n + q] /\ P[n + q] \subseteq P[n + q + 1]
    <3> SUFFICES ASSUME i.op = "pop" PROVE g \notin P[n + q] /\ P[n + q] \subseteq P[n + q + 1]
      OBVIOUS
    <3>1. g \notin K
      BY <2>4
    <3>2. g \notin P[n + q]
      BY <1>7, <3>1
    <3> QED
      BY <2>6, <3>2
  <2>8. Len(M[n + q]) = g
    BY <1>7, <1>8
  <2>9. OpenStep(i, M, P, n + q)
    BY <2>3, <2>6, <2>7, <2>8, Zenon DEF OpenStep
  <2> QED
    BY <1>2, <1>9, <2>9
<1>11. CASE Skipping(c, i, h, q, k)
  <2>1. i.op = "branch" /\ f = g
    BY <1>3, <1>11 DEF Skipping
  <2>2. PICK r \in 0 .. k : i.to = n + 1 + r /\ h[r] = g
    BY <1>2, <1>3, <1>11 DEF Skipping
  <2>3. r \in Nat
    OBVIOUS
  <2>4. P[i.to] = P[n + q] /\ P[n + q + 1] = P[n + q]
    <3>1. P[n + 1 + r] = K \cap 1 .. h[r]
      BY <1>6, <2>3
    <3> QED
      BY <1>7, <2>1, <2>2, <3>1
  <2>5. OpenStep(i, M, P, n + q)
    BY <2>1, <2>4, Zenon DEF OpenStep
  <2> QED
    BY <1>2, <1>9, <2>5
<1>12. CASE Jumping(c, bs, i, g)
  <2>1. i.op = "jump"
    BY <1>12 DEF Jumping
  <2>2. i.to # 0 => P[n + q] \subseteq P[i.to]
    <3> SUFFICES ASSUME i.to # 0 PROVE P[n + q] \subseteq P[i.to]
      OBVIOUS
    <3>1. PICK t \in 1 .. Len(bs) : bs[t].kind = "loop" /\ bs[t].start = i.to /\ Base(c, t - 1) = g
      BY <1>12 DEF Jumping
    <3>2. Len(L[bs[t].start]) = Base(c, t - 1) /\ bs[t].start \in 1 .. Len(c.code)
      BY <1>1, <3>1, LoopHeight
    <3>3. i.to \in 1 .. n /\ Len(L[i.to]) = g
      BY <1>2, <3>1, <3>2
    <3>4. O[End(c)] \cap 1 .. Len(L[bs[t].start]) \subseteq O[bs[t].start]
      BY <3>1, OpenNow
    <3>5. K \cap 1 .. g \subseteq O[i.to]
      BY <1>2, <1>5, <3>1, <3>3, <3>4
    <3>6. i.to \in 1 .. n + 1
      <4>1. \A x \in 1 .. n : x \in 1 .. n + 1
        OBVIOUS
      <4> QED
        BY <3>3, <4>1, Zenon
    <3>7. P[i.to] = O[i.to]
      BY <1>2, <3>6 DEF HeightsOpenFrom
    <3> QED
      BY <1>7, <3>5, <3>7
  <2>3. OpenStep(i, M, P, n + q)
    BY <2>1, <2>2, Zenon DEF OpenStep
  <2> QED
    BY <1>2, <1>9, <2>3
<1>13. Leaving(c, bs, i, g, f) \/ Skipping(c, i, h, q, k) \/ Jumping(c, bs, i, g)
  BY <1>3 DEF HeightMove
<1> QED
  BY <1>10, <1>11, <1>12, <1>13

LEMMA HeightsLaid ==
    ASSUME NEW c, NEW bs, Fits(c, bs), ~Inner(c), NEW e, Fits(e, bs),
           NEW xs \in Seq(Instructions), Grown(c, e, xs), e.params = c.params,
           e.scopeDepth <= c.scopeDepth, SameUpTo(c, e, e.scopeDepth),
           CapturedSlots(c) \cap 1 .. Base(c, e.scopeDepth) \subseteq CapturedSlots(e),
           NEW h, HeightsOf(c, h), h[Len(xs)] = Base(c, e.scopeDepth),
           \A q \in 1 .. Len(xs) : HeightMove(c, bs, xs[q], h, q, Len(xs)),
           NEW L, Ready(c, bs, L)
    PROVE  /\ Ready(e, bs, Heights(c, h, L)) /\ HeightsFrom(Heights(c, h, L), L, End(c), h)
           /\ \A O : Tracked(c, bs, L, O) =>
                 /\ Tracked(e, bs, Heights(c, h, L), HeightsOpen(c, h, O))
                 /\ HeightsOpenFrom(HeightsOpen(c, h, O), O, End(c), h)
<1>1. /\ c \in Compilers /\ Sorted(c) /\ c.scopeDepth \in Nat /\ Len(bs) \in Nat
      /\ L \in [Nat -> Seq(Nat)] /\ Laid(c, bs, L)
  BY FitsIs DEF Ready, Laid, Flow
<1>2. /\ e \in Compilers /\ Sorted(e) /\ e.scopeDepth \in Nat
      /\ \A d \in 1 .. Len(bs) : /\ bs[d] \in Constructs /\ d - 1 <= e.scopeDepth
                                 /\ (bs[d].kind = "match" => d <= e.scopeDepth)
  BY FitsIs
<1>3. PICK n \in Nat, k \in Nat, l \in Nat, s \in Seq(Nat) :
          /\ n = Len(c.code) /\ k = Len(xs) /\ l = Len(c.locals) /\ s = L[End(c)] /\ End(c) = n + 1
          /\ Len(s) = l /\ s = Slots(c, c.scopeDepth)
  <2>1. Len(c.code) \in Nat /\ End(c) = Len(c.code) + 1
    BY <1>1, CompilerIs
  <2>2. /\ L[End(c)] = Slots(c, c.scopeDepth) /\ Len(L[End(c)]) = Len(c.locals)
        /\ Len(c.locals) \in Nat
    BY HeightNow
  <2>3. L[End(c)] \in Seq(Nat)
    <3>1. End(c) \in Nat
      BY <2>1
    <3> QED
      BY <1>1, <3>1
  <2>4. Len(xs) \in Nat
    BY LenProperties
  <2> QED
    BY <2>1, <2>2, <2>3, <2>4
<1>4. h \in [Nat -> Nat] /\ h[0] = l /\ \A q \in Nat : h[q] <= l
  BY <1>3 DEF HeightsOf
<1>5. PICK M : M = Heights(c, h, L)
  OBVIOUS
<1>6. HeightsFrom(M, L, End(c), h)
  <2>1. h[0] = Len(L[End(c)]) /\ \A q \in Nat : h[q] <= Len(L[End(c)])
    BY <1>3, <1>4
  <2> QED
    BY <1>1, <1>4, <1>5, <2>1, HeightsIs
<1>7. /\ M \in [Nat -> Seq(Nat)] /\ \A p \in 1 .. n + 1 : M[p] = L[p]
      /\ \A q \in Nat : M[n + 1 + q] = LowPart(s, h[q])
  BY <1>3, <1>6 DEF HeightsFrom
<1>8. ASSUME NEW q \in 1 .. k
      PROVE  /\ FlowStep(xs[q], M, n + q, n + k)
             /\ \A t \in 1 .. Len(bs) : bs[t].kind = "loop" => InLoop(xs[q], M[n + q], bs[t], L)
  <2>1. xs[q] \in Instructions /\ HeightMove(c, bs, xs[q], h, q, k)
    BY <1>3, ElementOfSeq
  <2>2. PICK i \in Instructions : i = xs[q]
    BY <2>1
  <2>3. /\ FlowStep(i, M, Len(c.code) + q, Len(c.code) + k)
        /\ \A t \in 1 .. Len(bs) : bs[t].kind = "loop" => InLoop(i, M[Len(c.code) + q], bs[t], L)
    BY <1>6, <2>1, <2>2, HeightStep
  <2> QED
    BY <1>3, <2>2, <2>3
<1>9. Laid(e, bs, M)
  <2>1. \A q \in 1 .. Len(xs) : FlowStep(xs[q], M, Len(c.code) + q, Len(c.code) + Len(xs))
    BY <1>3, <1>8
  <2>2. \A d \in 1 .. Len(bs) : bs[d].kind = "loop" =>
               \A q \in 1 .. Len(xs) : InLoop(xs[q], M[Len(c.code) + q], bs[d], L)
    BY <1>3, <1>8
  <2>3. \A p \in 1 .. Len(c.code) + 1 : M[p] = L[p]
    BY <1>3, <1>7
  <2> QED
    BY <1>1, <1>2, <1>7, <2>1, <2>2, <2>3, ExtendLaid
<1>10. End(e) = n + 1 + k
  <2>1. Len(e.code) = n + k /\ End(e) = Len(e.code) + 1
    BY <1>2, <1>3, CompilerIs DEF Grown
  <2> QED
    BY <2>1
<1>11. PICK b \in Nat : b = Base(c, e.scopeDepth) /\ b = h[k] /\ b <= l
          /\ LowPart(s, b) = Slots(e, e.scopeDepth)
  <2>1. /\ LowPart(Slots(c, c.scopeDepth), Base(c, e.scopeDepth)) = Slots(c, e.scopeDepth)
        /\ Base(c, e.scopeDepth) \in Nat /\ Base(c, e.scopeDepth) <= Len(Slots(c, c.scopeDepth))
    BY <1>1, <1>2, SlotsPart
  <2>2. e.scopeDepth \in 0 .. e.scopeDepth
    BY <1>2
  <2>3. Slots(c, e.scopeDepth) = Slots(e, e.scopeDepth)
    BY <2>2 DEF SameUpTo
  <2> QED
    BY <1>3, <2>1, <2>3
<1>12. Ready(e, bs, M)
  <2>1. M[1] = e.params
    <3>1. 1 \in 1 .. n + 1
      BY <1>3
    <3> QED
      BY <1>7, <3>1 DEF Ready
  <2>2. M[End(e)] = Slots(e, e.scopeDepth)
    BY <1>7, <1>10, <1>11
  <2> QED
    BY <1>9, <2>1, <2>2 DEF Ready
<1>13. ASSUME NEW O, Tracked(c, bs, L, O)
       PROVE  /\ Tracked(e, bs, M, HeightsOpen(c, h, O))
              /\ HeightsOpenFrom(HeightsOpen(c, h, O), O, End(c), h)
  <2>1. /\ O \in [Nat -> SUBSET Nat] /\ O[End(c)] \subseteq CapturedSlots(c)
        /\ O[End(c)] \subseteq 1 .. l
        /\ \A d \in 1 .. Len(bs) :
              /\ \A j \in Pending(bs[d], c) : O[j] \subseteq O[End(c)] /\ O[j] \subseteq 1 .. Len(L[j])
              /\ bs[d].kind = "loop" =>
                       O[End(c)] \cap 1 .. Len(L[bs[d].start]) \subseteq O[bs[d].start]
    BY <1>3, <1>13, OpenNow
  <2>2. PICK P : P = HeightsOpen(c, h, O)
    OBVIOUS
  <2>3. HeightsOpenFrom(P, O, End(c), h)
    BY <1>1, <1>4, <2>1, <2>2, HeightsOpenIs
  <2>4. /\ P \in [Nat -> SUBSET Nat] /\ \A p \in 1 .. n + 1 : P[p] = O[p]
        /\ \A q \in Nat : P[n + 1 + q] = O[End(c)] \cap 1 .. h[q]
    BY <1>3, <2>3 DEF HeightsOpenFrom
  <2>5. P[End(e)] = O[End(c)] \cap 1 .. b
    BY <1>10, <1>11, <2>4
  <2>6. ASSUME NEW q \in 1 .. k
        PROVE  OpenStep(xs[q], M, P, n + q) /\ P[n + q + 1] \subseteq 1 .. Len(M[n + q + 1])
    <3>1. xs[q] \in Instructions /\ HeightMove(c, bs, xs[q], h, q, k)
      BY <1>3, ElementOfSeq
    <3>2. PICK i \in Instructions : i = xs[q]
      BY <3>1
    <3>3. /\ OpenStep(i, M, P, Len(c.code) + q)
          /\ P[Len(c.code) + q + 1] \subseteq 1 .. Len(M[Len(c.code) + q + 1])
      BY <1>6, <1>13, <2>3, <3>1, <3>2, HeightOpenStep
    <3> QED
      BY <1>3, <3>2, <3>3
  <2>7. ASSUME NEW d \in 1 .. Len(bs)
        PROVE  /\ \A j \in Pending(bs[d], c) : O[j] \subseteq P[End(e)]
               /\ bs[d].kind = "loop" =>
                    P[End(e)] \cap 1 .. Len(L[bs[d].start]) \subseteq O[bs[d].start]
    <3>1. ASSUME NEW j \in Pending(bs[d], c) PROVE O[j] \subseteq P[End(e)]
      <4>1. PICK m \in Nat : /\ L[j] = Slots(c, m)
                             /\ bs[d].kind # "match" => m <= d - 1
                             /\ m <= d
        <5>1. WaitsLow(c, L, bs[d], d, j)
          BY <1>1, <3>1, OpenHeight
        <5> QED
          BY <5>1 DEF WaitsLow
      <4>2. m <= e.scopeDepth
        <5>1. d - 1 <= e.scopeDepth /\ (bs[d].kind = "match" => d <= e.scopeDepth)
          BY <1>2
        <5>2. \A x \in Nat, y \in Nat, z \in Int :
                  (x <= z - 1 /\ z - 1 <= y => x <= y) /\ (x <= z /\ z <= y => x <= y)
          OBVIOUS
        <5>3. d \in Int
          BY <1>1
        <5> QED
          BY <1>2, <4>1, <5>1, <5>2, <5>3, Zenon
      <4>3. Len(L[j]) = Base(c, m) /\ Base(c, m) <= b /\ Base(c, m) \in Nat
        <5>1. Len(Slots(c, m)) = Base(c, m) /\ Base(c, m) \in 0 .. Len(c.locals)
          BY <1>1, BaseIs
        <5>2. Base(c, m) <= Base(c, e.scopeDepth)
          BY <1>1, <1>2, <4>2, BaseMono
        <5>3. Base(c, m) \in Nat
          BY <5>1
        <5> QED
          BY <1>11, <4>1, <5>1, <5>2, <5>3
      <4>4. 1 .. Len(L[j]) \subseteq 1 .. b
        <5>1. \A x, y \in Nat : x <= y => 1 .. x \subseteq 1 .. y
          OBVIOUS
        <5> QED
          BY <4>3, <5>1
      <4>5. O[j] \subseteq O[End(c)] /\ O[j] \subseteq 1 .. Len(L[j])
        BY <2>1, <3>1
      <4> QED
        BY <2>5, <4>4, <4>5
    <3>2. bs[d].kind = "loop" =>
                    P[End(e)] \cap 1 .. Len(L[bs[d].start]) \subseteq O[bs[d].start]
      BY <2>1, <2>5
    <3> QED
      BY <3>1, <3>2
  <2>8. OpenLaid(e, bs, M, P)
    <3>1. /\ \A p \in 1 .. Len(c.code) + 1 : M[p] = L[p]
          /\ \A p \in 1 .. Len(c.code) + 1 : P[p] = O[p]
          /\ \A q \in 1 .. Len(xs) :
               /\ OpenStep(xs[q], M, P, Len(c.code) + q)
               /\ P[Len(c.code) + q + 1] \subseteq 1 .. Len(M[Len(c.code) + q + 1])
      BY <1>3, <1>7, <2>4, <2>6
    <3>2. M \in [Nat -> Seq(Nat)] /\ P \in [Nat -> SUBSET Nat] /\ OpenLaid(c, bs, L, O)
      BY <1>7, <1>13, <2>4 DEF Tracked
    <3> QED
      BY <1>1, <1>2, <2>7, <3>1, <3>2, ExtendOpen
  <2>9. P[End(e)] \subseteq CapturedSlots(e)
    BY <1>11, <2>1, <2>5
  <2> QED
    BY <2>2, <2>3, <2>8, <2>9 DEF Tracked
<1> QED
  BY <1>5, <1>6, <1>12, <1>13

LEMMA CleanupIs ==
    ASSUME NEW c \in Compilers, Sorted(c), ~Inner(c), NEW d \in Nat
    PROVE  /\ Cleanup(c, d) \in Seq(Instructions)
           /\ Base(c, d) \in Nat /\ Base(c, d) <= Len(c.locals)
           /\ Len(Cleanup(c, d)) = Len(c.locals) - Base(c, d)
           /\ \A q \in 1 .. Len(c.locals) - Base(c, d) :
                 /\ Len(c.locals) - q + 1 \in 1 .. Len(c.locals)
                 /\ Cleanup(c, d)[q] = Discard(c.locals[Len(c.locals) - q + 1])
<1>1. PICK l \in Nat, b \in Nat : l = Len(c.locals) /\ b = Base(c, d) /\ b <= l /\ Kept(c, d) = b
  <2>1. Len(c.locals) \in Nat /\ Base(c, d) \in 0 .. Len(c.locals) /\ Kept(c, d) = Base(c, d)
    BY CompilerIs, BaseIs, KeptIs
  <2> QED
    BY <2>1
<1>2. PICK m \in Nat : m = l - b
  BY <1>1
<1>3. \A q \in 1 .. m : l - q + 1 \in 1 .. l /\ q \in 1 .. l /\ (l - q) + 1 = l - q + 1
  BY <1>1, <1>2
<1>4. \A q \in 1 .. l : Reverse(c.locals)[q] = c.locals[(l - q) + 1]
  BY <1>1 DEF Reverse
<1>5. PICK f : f = [q \in 1 .. m |-> Discard(Reverse(c.locals)[q])]
  OBVIOUS
<1>6. f = Cleanup(c, d)
  BY <1>1, <1>2, <1>5 DEF Cleanup
<1>7. \A q \in 1 .. m : f[q] = Discard(c.locals[l - q + 1])
  BY <1>3, <1>4, <1>5
<1>8. \A q \in 1 .. m : f[q] \in Instructions
  <2> TAKE q \in 1 .. m
  <2>1. c.locals[l - q + 1] \in Locals
    BY <1>1, <1>3, CompilerIs
  <2>2. Discard(c.locals[l - q + 1]) \in Instructions
    BY <2>1, DiscardIs
  <2> QED
    BY <1>7, <2>2
<1>9. f \in [1 .. m -> Instructions]
  BY <1>5, <1>8
<1>10. f \in Seq(Instructions)
  BY <1>2, <1>9, FunctionIsSeq
<1>11. Len(f) = m
  <2>1. DOMAIN f = 1 .. m /\ DOMAIN f = 1 .. Len(f) /\ Len(f) \in Nat
    BY <1>9, <1>10, LenProperties
  <2> QED
    BY <2>1
<1> QED
  BY <1>1, <1>2, <1>3, <1>6, <1>7, <1>10, <1>11

\* e is c when its last scope is left.
ScopeLeft(c, e) ==
    /\ e \in Compilers /\ Sorted(e) /\ ~Inner(e)
    /\ Grown(c, e, Cleanup(c, c.scopeDepth - 1))
    /\ e.upvalues = c.upvalues /\ e.params = c.params /\ e.scopeDepth = c.scopeDepth - 1
    /\ Len(e.locals) = Base(c, c.scopeDepth - 1)
    /\ \A i \in 1 .. Len(e.locals) : i \in 1 .. Len(c.locals) /\ e.locals[i] = c.locals[i]
    /\ SameUpTo(c, e, c.scopeDepth - 1)

LEMMA EndScopeIs ==
    ASSUME NEW c \in Compilers, Sorted(c), ~Inner(c), c.scopeDepth > 0
    PROVE  ScopeLeft(c, EndScope(c))
<1>1. PICK d \in Nat : d = c.scopeDepth - 1
  <2>1. c.scopeDepth \in Nat
    BY CompilerIs
  <2> QED
    BY <2>1
<1>2. PICK b \in Nat, xs \in Seq(Instructions) :
          b = Base(c, d) /\ b <= Len(c.locals) /\ xs = Cleanup(c, d)
  BY CleanupIs
<1>3. Kept(c, d) = b
  BY <1>2, KeptIs
<1>4. PICK a : a = Emit(c, xs)
  OBVIOUS
<1>5. /\ a \in Compilers
      /\ a.locals = c.locals /\ a.upvalues = c.upvalues /\ a.scopeDepth = c.scopeDepth
      /\ a.params = c.params
      /\ Grown(c, a, xs)
  <2>1. /\ Emit(c, xs) \in Compilers
        /\ Emit(c, xs).locals = c.locals /\ Emit(c, xs).upvalues = c.upvalues
        /\ Emit(c, xs).scopeDepth = c.scopeDepth /\ Emit(c, xs).params = c.params
        /\ Len(Emit(c, xs).code) = Len(c.code) + Len(xs)
        /\ \A p \in 1 .. Len(c.code) : Emit(c, xs).code[p] = c.code[p]
        /\ \A q \in 1 .. Len(xs) : Emit(c, xs).code[Len(c.code) + q] = xs[q]
    BY EmitIs
  <2> QED
    BY <1>4, <2>1 DEF Grown
<1>6. PICK e : e = [a EXCEPT !.scopeDepth = d, !.locals = SubSeq(@, 1, b)]
  OBVIOUS
<1>7. e = EndScope(c)
  BY <1>1, <1>2, <1>3, <1>4, <1>6, Zenon DEF EndScope
<1>8. /\ e \in Compilers
      /\ e.code = a.code /\ e.upvalues = a.upvalues /\ e.scopeDepth = d
      /\ e.params = a.params
      /\ Len(e.locals) = b
      /\ \A i \in 1 .. b : e.locals[i] = a.locals[i]
  <2>1. b \in 0 .. Len(a.locals)
    <3>1. Len(c.locals) \in Nat
      BY CompilerIs
    <3> QED
      BY <1>2, <1>5, <3>1
  <2>2. a \in Compilers /\ d \in Nat
    BY <1>5
  <2>3. LET x == [a EXCEPT !.scopeDepth = d, !.locals = SubSeq(@, 1, b)]
        IN  /\ x \in Compilers
            /\ x.code = a.code /\ x.upvalues = a.upvalues /\ x.scopeDepth = d
            /\ x.params = a.params
            /\ Len(x.locals) = b
            /\ \A i \in 1 .. b : x.locals[i] = a.locals[i]
    BY <2>1, <2>2, ScopeIs, ZenonT(60)
  <2> QED
    BY <1>6, <2>3, Zenon
<1>9. Grown(c, e, xs)
  BY <1>5, <1>8 DEF Grown
<1>10. \A i \in 1 .. b : i \in 1 .. Len(c.locals) /\ e.locals[i] = c.locals[i] /\ c.locals[i].depth \in 1 .. d
  <2>1. \A i \in 1 .. b : i \in 1 .. Len(c.locals) /\ i <= b
    <3>1. Len(c.locals) \in Nat
      BY CompilerIs
    <3> QED
      BY <1>2, <3>1
  <2>2. \A i \in 1 .. Len(c.locals) : i <= b <=> c.locals[i].depth \in 1 .. d
    BY <1>2, BaseIs
  <2> QED
    BY <1>5, <1>8, <2>1, <2>2
<1>11. Sorted(e)
  <2>1. ASSUME NEW i \in 1 .. b, NEW j \in 1 .. b, i < j
        PROVE  /\ c.locals[i].depth # Uninitialized
               /\ c.locals[j].depth # Uninitialized => c.locals[i].depth <= c.locals[j].depth
    BY <1>10, <2>1 DEF Sorted
  <2> QED
    BY <1>8, <1>10, <2>1 DEF Sorted
<1>12. ~Inner(e)
  <2>1. \A i \in 1 .. b : e.locals[i].depth # Uninitialized
    BY <1>10 DEF Uninitialized
  <2>2. b > 0 => b \in 1 .. b
    OBVIOUS
  <2> QED
    BY <1>8, <2>1, <2>2 DEF Inner
<1>13. ASSUME NEW m \in 0 .. d PROVE Base(e, m) = Base(c, m) /\ Slots(e, m) = Slots(c, m)
  <2>1. m \in Nat /\ 1 .. m \subseteq 1 .. d
    BY <1>13
  <2>2. \A i \in 1 .. Len(c.locals) : c.locals[i].depth \in 1 .. m =>
               /\ i \in 1 .. Len(e.locals) /\ e.locals[i].depth \in 1 .. m
               /\ e.locals[i].var = c.locals[i].var
    <3> TAKE i \in 1 .. Len(c.locals)
    <3>1. i <= b <=> c.locals[i].depth \in 1 .. d
      BY <1>2, BaseIs
    <3>2. c.locals[i].depth \in 1 .. m => i \in 1 .. b
      BY <1>2, <2>1, <3>1
    <3> QED
      BY <1>8, <1>10, <3>2
  <2>3. \A i \in 1 .. Len(e.locals) : e.locals[i].depth \in 1 .. m =>
               i \in 1 .. Len(c.locals) /\ c.locals[i].depth \in 1 .. m
    BY <1>8, <1>10
  <2> QED
    BY <1>8, <1>11, <2>1, <2>2, <2>3, SameSlots
<1> QED
  BY <1>1, <1>2, <1>5, <1>7, <1>8, <1>9, <1>10, <1>11, <1>12, <1>13 DEF ScopeLeft, SameUpTo

\* The heights when b of l slots are left, from the instruction a on.
Falling(l, b, a) == [q \in Nat |-> IF q <= a THEN l ELSE IF q - a <= l - b THEN l - (q - a) ELSE l]

FallsTo(h, l, b, a) ==
    /\ h \in [Nat -> Nat] /\ h[0] = l /\ \A q \in Nat : h[q] <= l
    /\ h[a] = l
    /\ \A q \in 1 .. l - b : h[a + q - 1] = l - q + 1 /\ h[a + q] = l - q
    /\ h[a + (l - b)] = b
    /\ h[a + (l - b) + 1] = l

LEMMA FallingIs ==
    ASSUME NEW l \in Nat, NEW b \in Nat, b <= l, NEW a \in Nat
    PROVE  FallsTo(Falling(l, b, a), l, b, a)
<1>1. PICK h : h = [q \in Nat |-> IF q <= a THEN l ELSE IF q - a <= l - b THEN l - (q - a) ELSE l]
  OBVIOUS
<1>2. \A q \in Nat : h[q] = IF q <= a THEN l ELSE IF q - a <= l - b THEN l - (q - a) ELSE l
  BY <1>1
<1>3. \A q \in Nat : q <= a \/ ~(q - a <= l - b) \/ (l - (q - a) \in Nat /\ l - (q - a) <= l)
  OBVIOUS
<1>4. \A q \in Nat : h[q] \in Nat /\ h[q] <= l
  BY <1>2, <1>3
<1>5. h \in [Nat -> Nat]
  BY <1>1, <1>4
<1>6. h[0] = l /\ h[a] = l
  BY <1>2
<1>7. PICK m \in Nat : m = l - b /\ l - m = b
  OBVIOUS
<1>8. ASSUME NEW q \in 0 .. m PROVE h[a + q] = l - q
  <2>1. a + q \in Nat /\ (a + q <= a => q = 0) /\ (a + q) - a = q /\ q <= m /\ l - 0 = l
    OBVIOUS
  <2>2. h[a + q] = IF a + q <= a THEN l ELSE IF q <= l - b THEN l - q ELSE l
    BY <1>2, <2>1
  <2>3. q <= l - b
    BY <1>7, <2>1
  <2> QED
    BY <2>1, <2>2, <2>3
<1>9. ASSUME NEW q \in 1 .. l - b PROVE h[a + q - 1] = l - q + 1 /\ h[a + q] = l - q
  <2>1. q \in 1 .. m
    BY <1>7
  <2>2. PICK r \in 0 .. m : r = q - 1
    BY <2>1
  <2>3. a + r = a + q - 1 /\ l - r = l - q + 1 /\ q \in 0 .. m
    BY <2>1, <2>2
  <2> QED
    BY <1>8, <2>3
<1>10. h[a + (l - b)] = b
  <2>1. m \in 0 .. m
    OBVIOUS
  <2>2. h[a + m] = l - m
    BY <1>8, <2>1
  <2> QED
    BY <1>7, <2>2
<1>11. h[a + (l - b) + 1] = l
  <2>1. a + m + 1 \in Nat /\ ~(a + m + 1 <= a) /\ (a + m + 1) - a = m + 1 /\ ~(m + 1 <= m)
    OBVIOUS
  <2>2. h[a + m + 1] = l
    BY <1>2, <1>7, <2>1
  <2> QED
    BY <1>7, <2>2
<1>12. h = Falling(l, b, a)
  BY <1>1 DEF Falling
<1> QED
  BY <1>4, <1>5, <1>6, <1>9, <1>10, <1>11, <1>12 DEF FallsTo

\* The slots of c that lie in the scopes up to d stay, the others are discarded.
LeavesScope(c, bs, L, e, d) ==
    \E M : /\ Ready(e, bs, M)
           /\ \A p \in 1 .. Len(c.code) + 1 : M[p] = L[p]
           /\ \A O : Tracked(c, bs, L, O) =>
                 \E P : /\ Tracked(e, bs, M, P)
                        /\ \A p \in 1 .. Len(c.code) + 1 : P[p] = O[p]
                        /\ P[End(e)] = O[End(c)] \cap 1 .. Base(c, d)

LEMMA EndScopeLaid ==
    ASSUME NEW c, NEW bs, Fits(c, bs), ~Inner(c), c.scopeDepth > 0, Len(bs) <= c.scopeDepth,
           Len(bs) = c.scopeDepth => bs[Len(bs)].kind # "match", NEW L, Ready(c, bs, L)
    PROVE  LeavesScope(c, bs, L, EndScope(c), c.scopeDepth - 1) /\ Fits(EndScope(c), bs)
<1>1. /\ c \in Compilers /\ Sorted(c) /\ Len(bs) \in Nat
      /\ L \in [Nat -> Seq(Nat)] /\ Laid(c, bs, L)
  BY FitsIs DEF Ready, Laid, Flow
<1>2. PICK s \in Nat, d \in Nat : s = c.scopeDepth /\ d = s - 1 /\ s = d + 1
  <2>1. c.scopeDepth \in Nat
    BY FitsIs
  <2> QED
    BY <2>1
<1>3. PICK l \in Nat, b \in Nat, xs \in Seq(Instructions) :
          /\ l = Len(c.locals) /\ b = Base(c, d) /\ b <= l /\ xs = Cleanup(c, d) /\ Len(xs) = l - b
          /\ \A q \in 1 .. l - b : l - q + 1 \in 1 .. l /\ xs[q] = Discard(c.locals[l - q + 1])
  <2>1. /\ Cleanup(c, d) \in Seq(Instructions)
        /\ Base(c, d) \in Nat /\ Base(c, d) <= Len(c.locals)
        /\ Len(Cleanup(c, d)) = Len(c.locals) - Base(c, d)
        /\ \A q \in 1 .. Len(c.locals) - Base(c, d) :
              /\ Len(c.locals) - q + 1 \in 1 .. Len(c.locals)
              /\ Cleanup(c, d)[q] = Discard(c.locals[Len(c.locals) - q + 1])
    BY <1>1, CleanupIs
  <2>2. Len(c.locals) \in Nat
    BY <1>1, CompilerIs
  <2> QED
    BY <2>1, <2>2
<1>4. PICK e : e = EndScope(c)
  OBVIOUS
<1>5. /\ e \in Compilers /\ Sorted(e) /\ ~Inner(e) /\ Grown(c, e, xs)
      /\ e.params = c.params /\ e.scopeDepth = d /\ Len(e.locals) = b
      /\ \A i \in 1 .. b : e.locals[i] = c.locals[i]
      /\ SameUpTo(c, e, d)
  <2>1. ScopeLeft(c, e)
    BY <1>1, <1>4, EndScopeIs
  <2> QED
    BY <1>2, <1>3, <2>1 DEF ScopeLeft
<1>6. \A t \in 1 .. Len(bs) : t - 1 \in Nat /\ t - 1 <= d /\ (bs[t].kind = "match" => t <= d)
  <2> TAKE t \in 1 .. Len(bs)
  <2>1. \A x, y, z : x \in Nat /\ y \in Nat /\ z \in 1 .. x /\ x <= y + 1 =>
            z - 1 \in Nat /\ z - 1 <= y /\ (~(z <= y) => z = x /\ x = y + 1)
    OBVIOUS
  <2>2. Len(bs) <= d + 1
    BY <1>2
  <2> QED
    BY <1>1, <1>2, <2>1, <2>2, Zenon
<1>7. Fits(e, bs)
  BY <1>5, <1>6 DEF Fits
<1>8. PICK h : h = Falling(l, b, 0)
  OBVIOUS
<1>9. /\ h \in [Nat -> Nat] /\ h[0] = l /\ \A q \in Nat : h[q] <= l
      /\ \A q \in 1 .. l - b : h[q - 1] = l - q + 1 /\ h[q] = l - q
      /\ h[l - b] = b
  <2>1. FallsTo(h, l, b, 0)
    BY <1>3, <1>8, FallingIs
  <2>2. \A q \in 1 .. l - b : 0 + q - 1 = q - 1 /\ 0 + q = q
    OBVIOUS
  <2>3. 0 + (l - b) = l - b
    OBVIOUS
  <2> QED
    BY <2>1, <2>2, <2>3 DEF FallsTo
<1>10. HeightsOf(c, h)
  BY <1>3, <1>9 DEF HeightsOf
<1>11. ASSUME NEW q \in 1 .. Len(xs) PROVE HeightMove(c, bs, xs[q], h, q, Len(xs))
  <2>1. q \in 1 .. l - b
    BY <1>3
  <2>2. PICK g : g = l - q + 1 /\ g \in 1 .. l /\ h[q - 1] = g /\ h[q] = g - 1 /\ xs[q] = Discard(c.locals[g])
    <3>1. (l - q + 1) - 1 = l - q
      BY <2>1
    <3> QED
      BY <1>3, <1>9, <2>1, <3>1
  <2>3. b < g
    BY <2>1, <2>2
  <2>4. ASSUME NEW t \in 1 .. Len(bs) PROVE Base(c, t - 1) < g
    <3>1. Base(c, t - 1) <= b
      BY <1>1, <1>3, <1>6, BaseMono
    <3>2. Base(c, t - 1) \in Nat
      <4>1. Base(c, t - 1) \in 0 .. Len(c.locals)
        BY <1>1, <1>6, BaseIs
      <4> QED
        BY <4>1
    <3>3. \A x, y \in Nat, z \in Int : x <= y /\ y < z => x < z
      OBVIOUS
    <3>4. g \in Int
      BY <2>2
    <3> QED
      BY <2>3, <3>1, <3>2, <3>3, <3>4, Zenon
  <2>5. Leaving(c, bs, xs[q], g, g - 1)
    BY <1>3, <2>2, <2>4 DEF Leaving
  <2> QED
    BY <2>2, <2>5 DEF HeightMove
<1>12. PICK M : M = Heights(c, h, L)
  OBVIOUS
<1>13. /\ Ready(e, bs, M) /\ HeightsFrom(M, L, End(c), h)
       /\ \A O : Tracked(c, bs, L, O) =>
                 /\ Tracked(e, bs, M, HeightsOpen(c, h, O))
                 /\ HeightsOpenFrom(HeightsOpen(c, h, O), O, End(c), h)
  <2>1. e.scopeDepth <= c.scopeDepth /\ SameUpTo(c, e, e.scopeDepth)
    <3>1. d <= d + 1
      OBVIOUS
    <3> QED
      BY <1>2, <1>5, <3>1
  <2>2. CapturedSlots(c) \cap 1 .. Base(c, e.scopeDepth) \subseteq CapturedSlots(e)
    BY <1>3, <1>5 DEF CapturedSlots
  <2>3. h[Len(xs)] = Base(c, e.scopeDepth)
    BY <1>3, <1>5, <1>9
  <2> QED
    BY <1>5, <1>7, <1>10, <1>11, <1>12, <2>1, <2>2, <2>3, HeightsLaid
<1>14. PICK n \in Nat : n = Len(c.code) /\ End(c) = n + 1
  BY <1>1, CompilerIs
<1>15. End(e) = n + 1 + (l - b)
  <2>1. Len(e.code) = n + (l - b) /\ End(e) = Len(e.code) + 1
    BY <1>3, <1>5, <1>14, CompilerIs DEF Grown
  <2> QED
    BY <2>1
<1>16. ASSUME NEW O, Tracked(c, bs, L, O)
       PROVE  \E P : /\ Tracked(e, bs, M, P)
                     /\ \A p \in 1 .. Len(c.code) + 1 : P[p] = O[p]
                     /\ P[End(e)] = O[End(c)] \cap 1 .. Base(c, d)
  <2>1. PICK P : P = HeightsOpen(c, h, O)
    OBVIOUS
  <2>2. Tracked(e, bs, M, P) /\ HeightsOpenFrom(P, O, End(c), h)
    BY <1>13, <1>16, <2>1
  <2>3. \A p \in 1 .. Len(c.code) + 1 : P[p] = O[p]
    BY <1>14, <2>2 DEF HeightsOpenFrom
  <2>4. P[n + 1 + (l - b)] = O[End(c)] \cap 1 .. h[l - b]
    <3>1. l - b \in Nat
      BY <1>3
    <3> QED
      BY <1>14, <2>2, <3>1 DEF HeightsOpenFrom
  <2>5. P[End(e)] = O[End(c)] \cap 1 .. Base(c, d)
    BY <1>3, <1>9, <1>15, <2>4
  <2> QED
    BY <2>2, <2>3, <2>5
<1>17. \A p \in 1 .. Len(c.code) + 1 : M[p] = L[p]
  BY <1>13, <1>14 DEF HeightsFrom
<1>18. LeavesScope(c, bs, L, e, d)
  BY <1>13, <1>16, <1>17 DEF LeavesScope
<1> QED
  BY <1>2, <1>4, <1>7, <1>18

LEMMA EndScopeLeads ==
    ASSUME NEW c, NEW bs, Fits(c, bs), ~Inner(c), c.scopeDepth > 0, Len(bs) <= c.scopeDepth,
           Len(bs) = c.scopeDepth => bs[Len(bs)].kind # "match"
    PROVE  Leads(c, bs, EndScope(c), bs)
<1> SUFFICES ASSUME NEW L, Ready(c, bs, L)
             PROVE  \E M : /\ Ready(EndScope(c), bs, M)
                           /\ \A O : Tracked(c, bs, L, O) => \E P : Tracked(EndScope(c), bs, M, P)
  BY DEF Leads
<1>1. LeavesScope(c, bs, L, EndScope(c), c.scopeDepth - 1)
  BY EndScopeLaid
<1>2. PICK M : /\ Ready(EndScope(c), bs, M)
               /\ \A O : Tracked(c, bs, L, O) => \E P : Tracked(EndScope(c), bs, M, P)
  BY <1>1 DEF LeavesScope
<1> QED
  BY <1>2

-----------------------------------------------------------------------------
(* Jumps that are patched, and loops                                       *)

LEMMA PatchReady ==
    ASSUME NEW c, NEW bs, Fits(c, bs), NEW J \in SUBSET (1 .. Len(c.code)), NEW L, Ready(c, bs, L),
           \A j \in J : /\ c.code[j].op \in {"jump", "branch"}
                        /\ c.code[j].op = "jump" \/ c.code[j].leaves = 0 => L[j] = L[End(c)]
    PROVE  /\ Ready(Patch(c, J, End(c)), bs, L) /\ Fits(Patch(c, J, End(c)), bs)
           /\ Inner(Patch(c, J, End(c))) <=> Inner(c)
           /\ End(Patch(c, J, End(c))) = End(c)
           /\ \A O : /\ Tracked(c, bs, L, O)
                     /\ \A j \in J : c.code[j].op = "jump" \/ c.code[j].leaves = 0 => O[j] \subseteq O[End(c)]
                     => Tracked(Patch(c, J, End(c)), bs, L, O)
<1>1. /\ c \in Compilers /\ Len(bs) \in Nat /\ Laid(c, bs, L)
      /\ \A d \in 1 .. Len(bs) : bs[d] \in Constructs
  BY FitsIs DEF Ready
<1>2. PICK e : e = Patch(c, J, End(c))
  OBVIOUS
<1>3. /\ e \in Compilers
      /\ e.locals = c.locals /\ e.scopeDepth = c.scopeDepth /\ e.params = c.params
      /\ Len(e.code) = Len(c.code)
  <2>1. End(c) \in Nat
    BY <1>1, CompilerIs
  <2>2. \A p \in J : p \in 1 .. Len(c.code) => c.code[p].op \in {"jump", "branch"}
    OBVIOUS
  <2>3. LET x == Patch(c, J, End(c))
        IN  /\ x \in Compilers
            /\ x.locals = c.locals /\ x.scopeDepth = c.scopeDepth /\ x.params = c.params
            /\ Len(x.code) = Len(c.code)
    BY <1>1, <2>1, <2>2, PatchIs
  <2> QED
    BY <1>2, <2>3
<1>4. /\ Sorted(e) /\ Fits(e, bs) /\ (Inner(e) <=> Inner(c))
      /\ Slots(e, c.scopeDepth) = Slots(c, c.scopeDepth) /\ CapturedSlots(e) = CapturedSlots(c)
  BY <1>3, SameNow
<1>5. End(e) = End(c)
  BY <1>3 DEF End
<1>6. Laid(e, bs, L)
  BY <1>1, <1>2, PatchLaid
<1>7. Ready(e, bs, L)
  BY <1>3, <1>4, <1>5, <1>6 DEF Ready
<1>8. ASSUME NEW O, Tracked(c, bs, L, O),
             \A j \in J : c.code[j].op = "jump" \/ c.code[j].leaves = 0 => O[j] \subseteq O[End(c)]
      PROVE  Tracked(e, bs, L, O)
  <2>1. OpenLaid(c, bs, L, O) /\ O[End(c)] \subseteq CapturedSlots(c)
    BY <1>8 DEF Tracked
  <2>2. \A j \in J : /\ c.code[j].op \in {"jump", "branch"}
                     /\ c.code[j].op = "jump" \/ c.code[j].leaves = 0 => O[j] \subseteq O[End(c)]
    BY <1>8
  <2>3. OpenLaid(e, bs, L, O)
    BY <1>1, <1>2, <2>1, <2>2, PatchOpen
  <2> QED
    BY <1>4, <1>5, <2>1, <2>3 DEF Tracked
<1> QED
  BY <1>2, <1>4, <1>5, <1>7, <1>8

\* From e, which is c and a jump out of the scopes deeper than d, the code goes on as from c.
JumpsOut(c, bs, L, e, d, jump) ==
    \E M : /\ Ready(e, bs, M)
           /\ M[jump] = Slots(c, d)
           /\ \A O : Tracked(c, bs, L, O) => \E P : Tracked(e, bs, M, P) /\ P[jump] \subseteq P[End(e)]

\* xs is ys between a and z.
Framed(xs, a, ys, z) ==
    /\ xs \in Seq(Instructions) /\ Len(xs) = Len(ys) + 2
    /\ xs[1] = a
    /\ \A q \in 1 .. Len(ys) : xs[1 + q] = ys[q]
    /\ xs[Len(ys) + 2] = z

LEMMA FramedIs ==
    ASSUME NEW a \in Instructions, NEW z \in Instructions, NEW ys \in Seq(Instructions)
    PROVE  Framed(<<a>> \o ys \o <<z>>, a, ys, z)
<1>1. PICK m \in Nat : m = Len(ys)
  BY LenProperties
<1>2. PICK x \in Seq(Instructions), y \in Seq(Instructions) :
          x = <<a>> /\ y = <<z>> /\ Len(x) = 1 /\ Len(y) = 1 /\ x[1] = a /\ y[1] = z
  <2>1. <<a>> \in Seq(Instructions) /\ <<z>> \in Seq(Instructions)
    OBVIOUS
  <2>2. Len(<<a>>) = 1 /\ Len(<<z>>) = 1 /\ <<a>>[1] = a /\ <<z>>[1] = z
    OBVIOUS
  <2> QED
    BY <2>1, <2>2
<1>3. PICK w : w = x \o ys
  OBVIOUS
<1>4. /\ w \in Seq(Instructions) /\ Len(w) = 1 + m
      /\ \A i \in 1 .. 1 + m : w[i] = IF i <= 1 THEN x[i] ELSE ys[i - 1]
  <2>1. /\ x \o ys \in Seq(Instructions) /\ Len(x \o ys) = Len(x) + Len(ys)
        /\ \A i \in 1 .. Len(x) + Len(ys) : (x \o ys)[i] = IF i <= Len(x) THEN x[i] ELSE ys[i - Len(x)]
    BY ConcatProperties
  <2> QED
    BY <1>1, <1>2, <1>3, <2>1
<1>5. PICK v : v = w \o y
  OBVIOUS
<1>6. /\ v \in Seq(Instructions) /\ Len(v) = (1 + m) + 1
      /\ \A i \in 1 .. (1 + m) + 1 : v[i] = IF i <= 1 + m THEN w[i] ELSE y[i - (1 + m)]
  <2>1. /\ w \o y \in Seq(Instructions) /\ Len(w \o y) = Len(w) + Len(y)
        /\ \A i \in 1 .. Len(w) + Len(y) : (w \o y)[i] = IF i <= Len(w) THEN w[i] ELSE y[i - Len(w)]
    BY <1>4, ConcatProperties
  <2> QED
    BY <1>2, <1>4, <1>5, <2>1
<1>7. v[1] = a
  <2>1. 1 \in 1 .. (1 + m) + 1 /\ 1 <= 1 + m /\ 1 \in 1 .. 1 + m /\ 1 <= 1
    OBVIOUS
  <2> QED
    BY <1>2, <1>4, <1>6, <2>1
<1>8. ASSUME NEW q \in 1 .. m PROVE v[1 + q] = ys[q]
  <2>1. 1 + q \in 1 .. (1 + m) + 1 /\ 1 + q <= 1 + m /\ 1 + q \in 1 .. 1 + m
    BY <1>1
  <2>2. ~(1 + q <= 1) /\ (1 + q) - 1 = q
    BY <1>1
  <2> QED
    BY <1>4, <1>6, <2>1, <2>2
<1>9. v[m + 2] = z
  <2>1. m + 2 = (1 + m) + 1
    BY <1>1
  <2>2. (1 + m) + 1 \in 1 .. (1 + m) + 1 /\ ~((1 + m) + 1 <= 1 + m) /\ ((1 + m) + 1) - (1 + m) = 1
    BY <1>1
  <2> QED
    BY <1>2, <1>6, <2>1, <2>2
<1>10. Len(v) = m + 2
  BY <1>6
<1>11. v = <<a>> \o ys \o <<z>>
  BY <1>2, <1>3, <1>5, Zenon
<1> QED
  BY <1>1, <1>6, <1>7, <1>8, <1>9, <1>10, <1>11, Zenon DEF Framed

\* The code xs of a break or continue, which discards m slots.
LeaveCode(c, d, to, m, xs) ==
    /\ xs \in Seq(Instructions) /\ Len(xs) = m + 2
    /\ xs[1] = Branch(End(c) + 1 + m + 1, 0)
    /\ \A q \in 1 .. m : xs[1 + q] = Discard(c.locals[Len(c.locals) - q + 1])
    /\ xs[m + 2] = Jump(to)

LEMMA LeaveCodeIs ==
    ASSUME NEW c \in Compilers, Sorted(c), ~Inner(c), NEW d \in Nat, NEW to \in Nat,
           NEW m \in Nat, m = Len(c.locals) - Base(c, d)
    PROVE  LeaveCode(c, d, to, m,
                     <<Branch(End(c) + 1 + m + 1, 0)>> \o Cleanup(c, d) \o <<Jump(to)>>)
<1>1. PICK ys \in Seq(Instructions) :
          /\ ys = Cleanup(c, d) /\ Len(ys) = m
          /\ \A q \in 1 .. m : ys[q] = Discard(c.locals[Len(c.locals) - q + 1])
  BY CleanupIs
<1>2. PICK a \in Instructions, z \in Instructions :
          a = Branch(End(c) + 1 + m + 1, 0) /\ z = Jump(to)
  <2>1. End(c) + 1 + m + 1 \in Nat
    BY CompilerIs
  <2> QED
    BY <2>1 DEF Instructions, Branches, JumpsTo, Branch, Jump
<1>3. PICK xs : xs = <<a>> \o ys \o <<z>>
  OBVIOUS
<1>4. Framed(xs, a, ys, z)
  BY <1>3, FramedIs
<1>5. /\ xs \in Seq(Instructions) /\ Len(xs) = m + 2 /\ xs[1] = a /\ xs[m + 2] = z
      /\ \A q \in 1 .. m : xs[1 + q] = Discard(c.locals[Len(c.locals) - q + 1])
  BY <1>1, <1>4 DEF Framed
<1>6. xs = <<Branch(End(c) + 1 + m + 1, 0)>> \o Cleanup(c, d) \o <<Jump(to)>>
  BY <1>1, <1>2, <1>3, Zenon
<1>7. LeaveCode(c, d, to, m, xs)
  BY <1>2, <1>5, Zenon DEF LeaveCode
<1> QED
  BY <1>6, <1>7, Zenon

LEMMA Descending ==
    ASSUME NEW m \in Nat, NEW q \in 1 .. m, NEW l \in Nat, NEW b \in Nat, m = l - b
    PROVE  /\ l - q + 1 \in Nat /\ l - q + 1 \in b + 1 .. l /\ l - q + 1 \in 1 .. l
           /\ (l - q + 1) - 1 = l - q /\ (1 + q) - 1 = 1 + q - 1
OBVIOUS

\* A break or continue to the scopes up to d discards m slots of c, or jumps to the loop at to.
LeavesFor(c, bs, d, to, m) ==
    /\ m \in Nat /\ m = Len(c.locals) - Base(c, d) /\ d \in Nat /\ d <= c.scopeDepth
    /\ to # 0 =>
          /\ \E t \in 1 .. Len(bs) :
                 bs[t].kind = "loop" /\ bs[t].start = to /\ Base(c, t - 1) = Base(c, d)
          /\ \A t \in 1 .. Len(bs) : bs[t].kind = "loop" => bs[t].start <= to
    /\ \A t \in 1 .. Len(bs) : bs[t].kind = "loop" =>
          \A g \in Base(c, d) + 1 .. Len(c.locals) :
              \/ Base(c, t - 1) < g
              \/ c.locals[g].captured = FALSE => bs[t].left = TRUE /\ Base(c, t - 1) = g

LEMMA LeaveLaid ==
    ASSUME NEW c, NEW bs, Fits(c, bs), ~Inner(c), NEW d, NEW to \in Nat, NEW m,
           LeavesFor(c, bs, d, to, m), NEW xs, LeaveCode(c, d, to, m, xs), NEW L, Ready(c, bs, L)
    PROVE  JumpsOut(c, bs, L, Emit(c, xs), d, End(c) + 1 + m) /\ Fits(Emit(c, xs), bs)
<1>0. m \in Nat /\ d \in Nat /\ d <= c.scopeDepth
  BY DEF LeavesFor
<1>1. /\ c \in Compilers /\ Sorted(c) /\ c.scopeDepth \in Nat /\ Len(bs) \in Nat
      /\ L \in [Nat -> Seq(Nat)] /\ Laid(c, bs, L)
  BY FitsIs DEF Ready, Laid, Flow
<1>2. PICK l \in Nat, b \in Nat, n \in Nat :
          /\ l = Len(c.locals) /\ b = Base(c, d) /\ b <= l /\ m = l - b /\ n = Len(c.code)
          /\ End(c) = n + 1 /\ Base(c, c.scopeDepth) = l
  <2>1. Base(c, d) \in Nat /\ Base(c, d) <= Len(c.locals)
    BY <1>0, <1>1, CleanupIs
  <2>2. Len(c.locals) \in Nat /\ Len(c.code) \in Nat /\ End(c) = Len(c.code) + 1
    BY <1>1, CompilerIs
  <2>3. Base(c, c.scopeDepth) = Len(c.locals)
    BY <1>1, FullBase
  <2>4. m = Len(c.locals) - Base(c, d)
    BY DEF LeavesFor
  <2> QED
    BY <2>1, <2>2, <2>3, <2>4
<1>3. /\ xs \in Seq(Instructions) /\ Len(xs) = m + 2
      /\ xs[1] = Branch(n + 1 + 1 + m + 1, 0)
      /\ \A q \in 1 .. m : xs[1 + q] = Discard(c.locals[l - q + 1])
      /\ xs[m + 2] = Jump(to)
  BY <1>2 DEF LeaveCode
<1>31. PICK e : e = Emit(c, xs)
  OBVIOUS
<1>4. /\ e \in Compilers /\ e.locals = c.locals /\ e.scopeDepth = c.scopeDepth /\ e.params = c.params
      /\ Grown(c, e, xs)
  <2>1. LET x == Emit(c, xs)
        IN  /\ x \in Compilers /\ x.locals = c.locals /\ x.scopeDepth = c.scopeDepth
            /\ x.params = c.params
            /\ Len(x.code) = Len(c.code) + Len(xs)
            /\ \A p \in 1 .. Len(c.code) : x.code[p] = c.code[p]
            /\ \A q \in 1 .. Len(xs) : x.code[Len(c.code) + q] = xs[q]
    BY <1>1, <1>3, EmitIs
  <2> QED
    BY <1>31, <2>1 DEF Grown
<1>5. /\ Sorted(e) /\ Fits(e, bs) /\ SameUpTo(c, e, c.scopeDepth) /\ CapturedSlots(e) = CapturedSlots(c)
  BY <1>4, SameNow
<1>6. PICK h : h = Falling(l, b, 1)
  OBVIOUS
<1>7. /\ h \in [Nat -> Nat] /\ h[0] = l /\ \A q \in Nat : h[q] <= l
      /\ h[1] = l
      /\ \A q \in 1 .. m : h[1 + q - 1] = l - q + 1 /\ h[1 + q] = l - q
      /\ h[1 + m] = b
      /\ h[1 + m + 1] = l
  <2>1. FallsTo(h, l, b, 1)
    BY <1>2, <1>6, FallingIs
  <2> QED
    BY <1>2, <2>1 DEF FallsTo
<1>8. HeightsOf(c, h)
  BY <1>2, <1>7 DEF HeightsOf
<1>9. /\ m + 2 \in Nat /\ 1 + m + 1 = m + 2 /\ 1 + m = (m + 2) - 1 /\ 1 + m \in Nat
      /\ n + 1 + 1 + m + 1 = n + 1 + (m + 2) /\ n + 1 + 1 + m = n + 1 + (1 + m)
      /\ (n + (m + 2)) + 1 = n + 1 + (m + 2)
  <2>1. \A x, y \in Nat : /\ x + 2 \in Nat /\ 1 + x + 1 = x + 2 /\ 1 + x = (x + 2) - 1 /\ 1 + x \in Nat
                           /\ y + 1 + 1 + x + 1 = y + 1 + (x + 2) /\ y + 1 + 1 + x = y + 1 + (1 + x)
                           /\ (y + (x + 2)) + 1 = y + 1 + (x + 2)
    OBVIOUS
  <2>2. m \in Nat /\ n \in Nat
    BY <1>0
  <2> QED
    BY <2>1, <2>2, Zenon
<1>10. HeightMove(c, bs, xs[1], h, 1, m + 2)
  <2>1. xs[1].op = "branch" /\ xs[1].to = n + 1 + 1 + m + 1
    BY <1>3 DEF Branch
  <2>2. m + 2 \in 0 .. m + 2 /\ 1 - 1 = 0
    BY <1>9
  <2>3. h[m + 2] = h[1 - 1] /\ h[1] = h[1 - 1]
    BY <1>7, <1>9, <2>2
  <2>4. Skipping(c, xs[1], h, 1, m + 2)
    BY <1>2, <1>9, <2>1, <2>2, <2>3 DEF Skipping
  <2> QED
    BY <2>4 DEF HeightMove
<1>11. HeightMove(c, bs, xs[m + 2], h, m + 2, m + 2)
  <2>1. xs[m + 2].op = "jump" /\ xs[m + 2].to = to
    BY <1>3 DEF Jump
  <2>2. h[(m + 2) - 1] = b
    BY <1>7, <1>9
  <2>3. Jumping(c, bs, xs[m + 2], b)
    BY <1>2, <2>1 DEF Jumping, LeavesFor
  <2> QED
    BY <2>2, <2>3 DEF HeightMove
<1>12. ASSUME NEW q \in 1 .. m PROVE HeightMove(c, bs, xs[1 + q], h, 1 + q, m + 2)
  <2>1. PICK g \in Nat : /\ g = l - q + 1 /\ g \in b + 1 .. l /\ g \in 1 .. l /\ g - 1 = l - q
                         /\ (1 + q) - 1 = 1 + q - 1
    <3>1. m \in Nat /\ q \in 1 .. m /\ m = l - b
      BY <1>0, <1>2, Zenon
    <3>2. /\ l - q + 1 \in Nat /\ l - q + 1 \in b + 1 .. l /\ l - q + 1 \in 1 .. l
          /\ (l - q + 1) - 1 = l - q /\ (1 + q) - 1 = 1 + q - 1
      BY <3>1, Descending
    <3> QED
      BY <3>2, Zenon
  <2>2. h[(1 + q) - 1] = g /\ h[1 + q] = g - 1
    BY <1>7, <2>1
  <2>3. xs[1 + q] = Discard(c.locals[g])
    BY <1>3, <2>1
  <2>4. c.locals[g] \in Locals
    BY <1>1, <1>2, <2>1, CompilerIs
  <2>5. Discard(c.locals[g]).op = "pop" => c.locals[g].captured = FALSE
    <3>1. c.locals[g].captured \in BOOLEAN /\ (c.locals[g].captured = TRUE => Discard(c.locals[g]).op = "close")
      BY <2>4, LocalIs, DiscardIs
    <3>2. "pop" # "close"
      OBVIOUS
    <3> QED
      BY <3>1, <3>2
  <2>6. \A t \in 1 .. Len(bs) : bs[t].kind = "loop" =>
           Base(c, t - 1) < g \/ (xs[1 + q].op = "pop" => bs[t].left = TRUE /\ Base(c, t - 1) = g)
    <3>1. \A t \in 1 .. Len(bs) : bs[t].kind = "loop" =>
               \A x \in b + 1 .. l :
                   \/ Base(c, t - 1) < x
                   \/ c.locals[x].captured = FALSE => bs[t].left = TRUE /\ Base(c, t - 1) = x
      BY <1>2 DEF LeavesFor
    <3> QED
      BY <2>1, <2>3, <2>5, <3>1
  <2>7. Leaving(c, bs, xs[1 + q], g, g - 1)
    BY <1>2, <2>1, <2>3, <2>6 DEF Leaving
  <2> QED
    BY <2>2, <2>7 DEF HeightMove
<1>13. ASSUME NEW q \in 1 .. Len(xs) PROVE HeightMove(c, bs, xs[q], h, q, Len(xs))
  <2>1. Len(xs) = m + 2
    BY <1>3
  <2>2. q = 1 \/ q = m + 2 \/ \E r \in 1 .. m : q = 1 + r
    <3>1. q \in 1 .. m + 2
      BY <2>1
    <3>2. \A x \in Nat : \A y \in 1 .. x + 2 :
              (y = 1 \/ y = x + 2 \/ y - 1 \in 1 .. x) /\ y = 1 + (y - 1)
      OBVIOUS
    <3>3. (q = 1 \/ q = m + 2 \/ q - 1 \in 1 .. m) /\ q = 1 + (q - 1)
      BY <1>0, <3>1, <3>2, Zenon
    <3> QED
      BY <3>3, Zenon
  <2> QED
    BY <1>10, <1>11, <1>12, <2>1, <2>2
<1>14. PICK M : M = Heights(c, h, L)
  OBVIOUS
<1>15. /\ Ready(e, bs, M) /\ HeightsFrom(M, L, End(c), h)
       /\ \A O : Tracked(c, bs, L, O) =>
                 /\ Tracked(e, bs, M, HeightsOpen(c, h, O))
                 /\ HeightsOpenFrom(HeightsOpen(c, h, O), O, End(c), h)
  <2>1. e.scopeDepth <= c.scopeDepth /\ SameUpTo(c, e, e.scopeDepth)
    <3>1. \A x \in Nat : x <= x
      OBVIOUS
    <3> QED
      BY <1>1, <1>4, <1>5, <3>1, Zenon
  <2>2. CapturedSlots(c) \cap 1 .. Base(c, e.scopeDepth) \subseteq CapturedSlots(e)
    BY <1>5
  <2>3. h[Len(xs)] = Base(c, e.scopeDepth)
    BY <1>2, <1>3, <1>4, <1>7, <1>9
  <2> QED
    BY <1>3, <1>4, <1>5, <1>8, <1>13, <1>14, <2>1, <2>2, <2>3, HeightsLaid
<1>16. PICK j \in Nat : j = 1 + m
  BY <1>9
<1>17. End(c) + 1 + m = n + 1 + j /\ End(e) = n + 1 + (m + 2)
  <2>1. End(c) + 1 + m = n + 1 + j
    BY <1>2, <1>9, <1>16, Zenon
  <2>2. Len(e.code) = n + (m + 2) /\ End(e) = Len(e.code) + 1
    BY <1>2, <1>3, <1>4, CompilerIs DEF Grown
  <2>3. (n + (m + 2)) + 1 = n + 1 + (m + 2)
    BY <1>9
  <2> QED
    BY <2>1, <2>2, <2>3
<1>18. M[n + 1 + j] = Slots(c, d)
  <2>1. M[n + 1 + j] = LowPart(L[n + 1], h[j])
    BY <1>2, <1>15 DEF HeightsFrom
  <2>2. L[n + 1] = Slots(c, c.scopeDepth) /\ h[j] = Base(c, d)
    BY <1>2, <1>7, <1>16 DEF Ready
  <2>3. LowPart(Slots(c, c.scopeDepth), Base(c, d)) = Slots(c, d)
    BY <1>0, <1>1, SlotsPart
  <2> QED
    BY <2>1, <2>2, <2>3
<1>19. ASSUME NEW O, Tracked(c, bs, L, O)
       PROVE  \E P : Tracked(e, bs, M, P) /\ P[n + 1 + j] \subseteq P[End(e)]
  <2>1. PICK P : P = HeightsOpen(c, h, O)
    OBVIOUS
  <2>2. Tracked(e, bs, M, P) /\ HeightsOpenFrom(P, O, End(c), h)
    BY <1>15, <1>19, <2>1
  <2>3. \A q \in Nat : P[n + 1 + q] = O[n + 1] \cap 1 .. h[q]
    BY <1>2, <2>2 DEF HeightsOpenFrom
  <2>4. P[n + 1 + j] = O[n + 1] \cap 1 .. b /\ P[n + 1 + (m + 2)] = O[n + 1] \cap 1 .. l
    <3>1. m + 2 \in Nat /\ h[m + 2] = l /\ h[j] = b
      BY <1>7, <1>9, <1>16
    <3> QED
      BY <2>3, <3>1
  <2>5. 1 .. b \subseteq 1 .. l
    BY <1>2
  <2> QED
    BY <1>17, <2>2, <2>4, <2>5
<1>20. JumpsOut(c, bs, L, e, d, n + 1 + j)
  BY <1>15, <1>18, <1>19 DEF JumpsOut
<1> QED
  BY <1>5, <1>17, <1>20, <1>31

-----------------------------------------------------------------------------
(* What a statement makes of the last function                             *)

Here(c, bs) ==
    c \in Compilers /\ ~Inner(c) /\ bs \in Seq(Constructs) /\ Named(c, bs) /\ Len(bs) > 0

LEMMA HereIs ==
    ASSUME NEW c, NEW bs, Here(c, bs)
    PROVE  /\ c \in Compilers /\ ~Inner(c) /\ Sorted(c) /\ Fits(c, bs) /\ Named(c, bs)
           /\ bs \in Seq(Constructs) /\ Len(bs) \in Nat /\ Len(bs) > 0
           /\ Len(bs) = c.scopeDepth /\ c.scopeDepth \in Nat /\ c.scopeDepth > 0
           /\ \A d \in 1 .. Len(bs) : bs[d] \in Constructs
<1>1. c \in Compilers /\ ~Inner(c) /\ Named(c, bs) /\ bs \in Seq(Constructs) /\ Len(bs) > 0
  BY DEF Here
<1>2. Sorted(c)
  BY <1>1, NamedIsSorted
<1>3. Len(bs) = c.scopeDepth /\ Len(bs) \in Nat
  BY <1>1, NamedIs
<1>4. \A d \in 1 .. Len(bs) : d - 1 <= c.scopeDepth /\ d <= c.scopeDepth
  BY <1>3
<1>5. Fits(c, bs)
  BY <1>1, <1>2, <1>4 DEF Fits
<1>6. \A d \in 1 .. Len(bs) : bs[d] \in Constructs
  BY <1>1, <1>3
<1> QED
  BY <1>1, <1>2, <1>3, <1>5, <1>6

\* The code of e reads no upvalue that the code of c does not.
Reuses(c, e) ==
    /\ e.upvalues = c.upvalues
    /\ \A q \in 1 .. Len(e.code) : e.code[q].op = "upvalue" =>
           \E r \in 1 .. Len(c.code) : c.code[r] = e.code[q]

LEMMA ReusesOn ==
    ASSUME NEW c, NEW d, NEW e, Reuses(c, d), Reuses(d, e)
    PROVE  Reuses(c, e)
<1>1. d.upvalues = c.upvalues /\ e.upvalues = d.upvalues
  BY DEF Reuses
<1>2. \A q \in 1 .. Len(e.code) : e.code[q].op = "upvalue" =>
           \E r \in 1 .. Len(d.code) : d.code[r] = e.code[q]
  BY DEF Reuses
<1>3. \A q \in 1 .. Len(d.code) : d.code[q].op = "upvalue" =>
           \E r \in 1 .. Len(c.code) : c.code[r] = d.code[q]
  BY DEF Reuses
<1>4. \A q \in 1 .. Len(e.code) : e.code[q].op = "upvalue" =>
           \E r \in 1 .. Len(c.code) : c.code[r] = e.code[q]
  <2> TAKE q \in 1 .. Len(e.code)
  <2> HAVE e.code[q].op = "upvalue"
  <2>1. PICK r \in 1 .. Len(d.code) : d.code[r] = e.code[q]
    BY <1>2
  <2>2. PICK s \in 1 .. Len(c.code) : c.code[s] = d.code[r]
    BY <1>3, <2>1
  <2> QED
    BY <2>1, <2>2
<1> QED
  BY <1>1, <1>4 DEF Reuses

LEMMA GrownReuses ==
    ASSUME NEW c \in Compilers, NEW e \in Compilers, NEW xs \in Seq(Instructions), Grown(c, e, xs),
           e.upvalues = c.upvalues, \A q \in 1 .. Len(xs) : xs[q].op # "upvalue"
    PROVE  Reuses(c, e)
<1>1. \A p \in 1 .. Len(e.code) :
          p \in 1 .. Len(c.code)
          \/ \E q \in 1 .. Len(xs) : p = Len(c.code) + q /\ e.code[p] = xs[q]
  BY GrownSplit
<1>2. \A p \in 1 .. Len(c.code) : e.code[p] = c.code[p]
  BY DEF Grown
<1>3. \A p \in 1 .. Len(e.code) : e.code[p].op = "upvalue" =>
          \E r \in 1 .. Len(c.code) : c.code[r] = e.code[p]
  <2> TAKE p \in 1 .. Len(e.code)
  <2> HAVE e.code[p].op = "upvalue"
  <2>1. p \in 1 .. Len(c.code)
    BY <1>1
  <2> QED
    BY <1>2, <2>1
<1> QED
  BY <1>3 DEF Reuses

LEMMA SameCodeReuses ==
    ASSUME NEW c, NEW e, e.code = c.code, e.upvalues = c.upvalues
    PROVE  Reuses(c, e)
<1>1. \A q \in 1 .. Len(e.code) : e.code[q].op = "upvalue" =>
           \E r \in 1 .. Len(c.code) : c.code[r] = e.code[q]
  BY Zenon
<1> QED
  BY <1>1 DEF Reuses

LEMMA PatchReuses ==
    ASSUME NEW c \in Compilers, NEW J, NEW to \in Nat,
           \A p \in J : p \in 1 .. Len(c.code) => c.code[p].op \in {"jump", "branch"}
    PROVE  Reuses(c, Patch(c, J, to))
<1>1. PICK e : e = Patch(c, J, to)
  OBVIOUS
<1>2. /\ e.upvalues = c.upvalues /\ Len(e.code) = Len(c.code)
      /\ \A p \in 1 .. Len(c.code) : p \notin J => e.code[p] = c.code[p]
      /\ \A p \in 1 .. Len(c.code) : p \in J => e.code[p].op = c.code[p].op
  <2>1. LET x == Patch(c, J, to)
        IN  /\ x \in Compilers
            /\ x.locals = c.locals /\ x.upvalues = c.upvalues /\ x.scopeDepth = c.scopeDepth
            /\ x.params = c.params
            /\ Len(x.code) = Len(c.code)
            /\ \A p \in 1 .. Len(c.code) :
                  /\ p \notin J => x.code[p] = c.code[p]
                  /\ p \in J => /\ x.code[p].op = c.code[p].op /\ x.code[p].to = to
                                /\ c.code[p].op = "branch" => x.code[p].leaves = c.code[p].leaves
    BY PatchIs
  <2> QED
    BY <1>1, <2>1
<1>3. \A p \in 1 .. Len(e.code) : e.code[p].op = "upvalue" =>
          \E r \in 1 .. Len(c.code) : c.code[r] = e.code[p]
  <2> TAKE p \in 1 .. Len(e.code)
  <2> HAVE e.code[p].op = "upvalue"
  <2>1. p \in 1 .. Len(c.code)
    BY <1>2
  <2>2. p \notin J
    BY <1>2, <2>1
  <2> QED
    BY <1>2, <2>1, <2>2
<1> QED
  BY <1>1, <1>2, <1>3 DEF Reuses

Becomes(c, bs, e, bb) == Here(e, bb) /\ Leads(c, bs, e, bb) /\ Reuses(c, e)

(* The blocks.                                                             *)

LEMMA WaitLeads ==
    ASSUME NEW c, NEW bs, Len(bs) \in Nat, NEW bb, Len(bb) \in Nat, Len(bb) <= Len(bs),
           \A d \in 1 .. Len(bb) : SameWait(bs[d], bb[d])
    PROVE  Leads(c, bs, c, bb)
<1> SUFFICES ASSUME NEW L, Ready(c, bs, L)
             PROVE  \E M : /\ Ready(c, bb, M)
                           /\ \A O : Tracked(c, bs, L, O) => \E P : Tracked(c, bb, M, P)
  BY DEF Leads
<1>1. Laid(c, bs, L)
  BY DEF Ready
<1>2. /\ Laid(c, bb, L)
      /\ \A O : OpenLaid(c, bs, L, O) => OpenLaid(c, bb, L, O)
  BY <1>1, WaitLaid
<1> QED
  BY <1>2 DEF Ready, Tracked

\* A new construct that waits for nothing.
LEMMA AppendLeads ==
    ASSUME NEW c, NEW bs, Len(bs) \in Nat,
           NEW bb, NEW b, Extends(bs, bb, b), b.kind \in {"block", "for", "match"},
           b.kind = "match" => b.ends = {}
    PROVE  Leads(c, bs, c, bb)
<1> SUFFICES ASSUME NEW L, Ready(c, bs, L)
             PROVE  \E M : /\ Ready(c, bb, M)
                           /\ \A O : Tracked(c, bs, L, O) => \E P : Tracked(c, bb, M, P)
  BY DEF Leads
<1>1. Laid(c, bs, L)
  BY DEF Ready
<1>2. b.kind # "loop" /\ b.kind # "case"
  OBVIOUS
<1>3. BlockLaid(b, Len(bs) + 1, c, L)
  BY <1>2 DEF BlockLaid
<1>4. Pending(b, c) = {}
  BY <1>2 DEF Pending
<1>5. LaidMore(c, bs, bb, L, b)
  <2>1. Follows(c, bs, L, b)
    BY <1>2, <1>3 DEF Follows
  <2> QED
    BY <1>1, <2>1, AppendLaid
<1>6. \A O : Covered(c, L, b, O)
  BY <1>2, <1>4 DEF Covered
<1> QED
  BY <1>5, <1>6 DEF Ready, Tracked, LaidMore

-----------------------------------------------------------------------------
(* Declarations and blocks                                                 *)

LEMMA WithIs ==
    ASSUME text.length \in Nat, NEW f \in Decls, NEW n \in Nat \ {0}
    PROVE  /\ With(f, n) \in Decls
           /\ DOMAIN With(f, n) = DOMAIN f \union {n}
           /\ \A m \in DOMAIN f : m # n => With(f, n)[m] = f[m]
           /\ With(f, n)[n] = Var
<1>1. Var \in Nat
  BY DEF Var
<1>2. PICK v \in Nat : v = Var
  BY <1>1
<1>3. PICK S \in SUBSET (Nat \ {0}) : f \in [S -> Nat]
  BY DEF Decls
<1>4. PICK g : g = [m \in S \union {n} |-> IF m = n THEN v ELSE f[m]]
  OBVIOUS
<1>5. With(f, n) = g
  BY <1>2, <1>3, <1>4 DEF With
<1>6. g \in [S \union {n} -> Nat]
  BY <1>3, <1>4
<1>7. S \union {n} \in SUBSET (Nat \ {0})
  BY <1>3
<1>8. g \in Decls
  BY <1>6, <1>7 DEF Decls
<1>9. DOMAIN g = DOMAIN f \union {n} /\ (\A m \in DOMAIN f : m # n => g[m] = f[m]) /\ g[n] = v
  BY <1>3, <1>4
<1> QED
  BY <1>2, <1>5, <1>8, <1>9

LEMMA DeclIs ==
    ASSUME NEW b \in Constructs, NEW f \in Decls
    PROVE  LET a == [b EXCEPT !.decls = f]
           IN  /\ a \in Constructs /\ a.kind = b.kind /\ a.decls = f
               /\ b.kind = "fn" => a.self = b.self
               /\ SameWait(b, a)
<1> DEFINE F == [kind : {"fn"}, decls : Decls, self : Nat]
           B == [kind : {"block", "for"}, decls : Decls]
           W == [kind : {"loop"}, decls : Decls, start : Nat, breakDepth : Nat, continueDepth : Nat,
                 breaks : SUBSET Nat, own : Nat, left : BOOLEAN]
           M == [kind : {"match"}, decls : Decls, ends : SUBSET Nat]
           C == [kind : {"case"}, decls : Decls, fails : SUBSET Nat]
           a == [b EXCEPT !.decls = f]
<1>0. Constructs = F \union B \union W \union M \union C
  BY DEF Constructs
<1>1. CASE b \in F
  <2>1. a \in F /\ a.kind = b.kind /\ a.decls = f /\ a.self = b.self /\ b.kind = "fn"
    BY <1>1
  <2> HIDE DEF F, B, W, M, C, a
  <2> QED
    BY <1>0, <2>1 DEF SameWait, a
<1>2. CASE b \in B
  <2>1. a \in B /\ a.kind = b.kind /\ a.decls = f /\ b.kind \in {"block", "for"}
    BY <1>2
  <2> HIDE DEF F, B, W, M, C, a
  <2> QED
    BY <1>0, <2>1 DEF SameWait, a
<1>3. CASE b \in W
  <2>1. /\ a \in W /\ a.kind = b.kind /\ a.decls = f /\ b.kind = "loop"
        /\ a.start = b.start /\ a.breakDepth = b.breakDepth /\ a.continueDepth = b.continueDepth
        /\ a.breaks = b.breaks /\ a.own = b.own /\ a.left = b.left
    BY <1>3
  <2> HIDE DEF F, B, W, M, C, a
  <2> QED
    BY <1>0, <2>1 DEF SameWait, a
<1>4. CASE b \in M
  <2>1. a \in M /\ a.kind = b.kind /\ a.decls = f /\ b.kind = "match" /\ a.ends = b.ends
    BY <1>4
  <2> HIDE DEF F, B, W, M, C, a
  <2> QED
    BY <1>0, <2>1 DEF SameWait, a
<1>5. CASE b \in C
  <2>1. a \in C /\ a.kind = b.kind /\ a.decls = f /\ b.kind = "case" /\ a.fails = b.fails
    BY <1>5
  <2> HIDE DEF F, B, W, M, C, a
  <2> QED
    BY <1>0, <2>1 DEF SameWait, a
<1> HIDE DEF F, B, W, M, C
<1> QED
  BY <1>0, <1>1, <1>2, <1>3, <1>4, <1>5

\* The last block of bs declares n for Var, too.
Declares(bs, bb, n) ==
    /\ Len(bb) = Len(bs)
    /\ \A d \in 1 .. Len(bs) : d # Len(bs) => bb[d] = bs[d]
    /\ bb[Len(bs)] = [bs[Len(bs)] EXCEPT !.decls = With(@, n)]

LEMMA DeclaresIs ==
    ASSUME text.length \in Nat, NEW bs \in Seq(Constructs), Len(bs) > 0, NEW bb,
           NEW n \in Nat \ {0}, n \notin DOMAIN bs[Len(bs)].decls, Declares(bs, bb, n)
    PROVE  /\ Len(bb) = Len(bs) /\ Len(bs) \in Nat
           /\ \A d \in 1 .. Len(bs) : bb[d] \in Constructs /\ SameWait(bs[d], bb[d])
           /\ NamesMore(bs, bb, n, Var)
<1>1. PICK l \in Nat : l = Len(bs) /\ l > 0 /\ l \in 1 .. l
  BY LenProperties
<1>2. /\ \A d \in 1 .. l : bs[d] \in Constructs
      /\ \A d \in 1 .. l : d # l => bb[d] = bs[d]
      /\ bb[l] = [bs[l] EXCEPT !.decls = With(bs[l].decls, n)] /\ Len(bb) = l
  BY <1>1 DEF Declares
<1>3. PICK b \in Constructs : b = bs[l]
  BY <1>1, <1>2
<1>4. b.decls \in Decls /\ n \notin DOMAIN b.decls
  BY <1>1, <1>3, ConstructIs
<1>5. PICK f \in Decls : /\ f = With(b.decls, n) /\ DOMAIN f = DOMAIN b.decls \union {n}
                         /\ \A m \in DOMAIN b.decls : m # n => f[m] = b.decls[m]
                         /\ f[n] = Var
  BY <1>4, WithIs
<1>6. PICK a : a = bb[l]
  OBVIOUS
<1>7. a \in Constructs /\ a.decls = f /\ SameWait(b, a)
  <2>1. a = [b EXCEPT !.decls = f]
    BY <1>2, <1>3, <1>5, <1>6
  <2> QED
    BY <2>1, DeclIs
<1>8. ASSUME NEW d \in 1 .. l PROVE bb[d] \in Constructs /\ SameWait(bs[d], bb[d])
  <2>1. CASE d = l
    BY <1>3, <1>6, <1>7, <2>1
  <2>2. CASE d # l
    BY <1>2, <2>2 DEF SameWait
  <2> QED
    BY <2>1, <2>2
<1>9. ASSUME NEW d \in 1 .. l, NEW m \in DOMAIN bs[d].decls
      PROVE  m \in DOMAIN bb[d].decls /\ bb[d].decls[m] = bs[d].decls[m]
  <2>1. CASE d = l
    BY <1>3, <1>4, <1>5, <1>6, <1>7, <2>1
  <2>2. CASE d # l
    BY <1>2, <2>2
  <2> QED
    BY <2>1, <2>2
<1>10. ASSUME NEW d \in 1 .. l, NEW m \in DOMAIN bb[d].decls
       PROVE  m \in DOMAIN bs[d].decls \/ (d = l /\ m = n)
  <2>1. CASE d = l
    BY <1>3, <1>5, <1>6, <1>7, <2>1
  <2>2. CASE d # l
    BY <1>2, <2>2
  <2> QED
    BY <2>1, <2>2
<1>11. n \in DOMAIN bb[l].decls /\ bb[l].decls[n] = Var
  BY <1>5, <1>6, <1>7
<1> QED
  BY <1>1, <1>2, <1>8, <1>9, <1>10, <1>11 DEF NamesMore

LEMMA LetBecomes ==
    ASSUME NEW c, NEW bs, Here(c, bs), text.length \in Nat, NEW n \in Nat \ {0},
           n \notin DOMAIN bs[Len(bs)].decls, bs[Len(bs)].kind # "match",
           NEW bb \in Seq(Constructs), Declares(bs, bb, n)
    PROVE  Becomes(c, bs, MarkInitialized(Emit(AddLocal(c, n, Var), <<PushOf(Var)>>)), bb)
<1>1. PICK v \in Nat : v = Var
  BY DEF Var
<1>2. PICK e : e = MarkInitialized(Emit(AddLocal(c, n, v), <<PushOf(v)>>))
  OBVIOUS
<1>3. /\ c \in Compilers /\ ~Inner(c) /\ Sorted(c) /\ Fits(c, bs) /\ Named(c, bs)
      /\ bs \in Seq(Constructs) /\ Len(bs) \in Nat /\ Len(bs) > 0
      /\ Len(bs) = c.scopeDepth /\ c.scopeDepth > 0
  BY HereIs
<1>4. Leads(c, bs, e, bs) /\ Fits(e, bs) /\ ~Inner(e)
  <2>1. \A x \in Nat : x <= x
    OBVIOUS
  <2>2. Len(bs) <= c.scopeDepth
    BY <1>3, <2>1, Zenon
  <2>3. LET x == MarkInitialized(Emit(AddLocal(c, n, v), <<PushOf(v)>>))
        IN  Leads(c, bs, x, bs) /\ Fits(x, bs) /\ ~Inner(x)
    BY <1>3, <2>2, DeclareLeads
  <2> QED
    BY <1>2, <2>3
<1>5. /\ e \in Compilers /\ Grown(c, e, <<PushOf(v)>>)
      /\ e.upvalues = c.upvalues /\ e.scopeDepth = c.scopeDepth /\ e.params = c.params
      /\ Len(e.locals) = Len(c.locals) + 1
      /\ \A i \in 1 .. Len(c.locals) : e.locals[i] = c.locals[i]
      /\ e.locals[Len(c.locals) + 1].name = n /\ e.locals[Len(c.locals) + 1].var = v
      /\ e.locals[Len(c.locals) + 1].depth = c.scopeDepth
  <2>1. DeclaredIn(c, e, n, v)
    BY <1>2, <1>3, DeclareIs
  <2> QED
    BY <2>1 DEF DeclaredIn
<1>6. /\ Len(bb) = Len(bs) /\ NamesMore(bs, bb, n, v)
      /\ \A d \in 1 .. Len(bs) : SameWait(bs[d], bb[d])
  BY <1>1, <1>3, DeclaresIs
<1>7. Named(e, bb)
  <2>1. LocalMore(c, e, n, v)
    BY <1>5 DEF LocalMore
  <2> QED
    BY <1>3, <1>5, <1>6, <2>1, NamedDeclare
<1>8. Leads(e, bs, e, bb)
  <2>1. Len(bb) \in Nat /\ Len(bb) <= Len(bs)
    BY <1>3, <1>6
  <2> QED
    BY <1>3, <1>6, <2>1, WaitLeads
<1>9. Reuses(c, e)
  <2>1. PICK xs \in Seq(Instructions) : xs = <<PushOf(v)>> /\ Len(xs) = 1 /\ xs[1].op # "upvalue"
    <3>1. PushOf(v) \in Instructions /\ PushOf(v).op = "push"
      BY DEF PushOf, Pushes, Instructions
    <3>2. PICK i \in Instructions : i = PushOf(v) /\ i.op # "upvalue"
      BY <3>1
    <3>3. <<i>> \in Seq(Instructions) /\ Len(<<i>>) = 1 /\ <<i>>[1] = i
      OBVIOUS
    <3> QED
      BY <3>2, <3>3
  <2>2. \A q \in 1 .. Len(xs) : xs[q].op # "upvalue"
    BY <2>1
  <2> QED
    BY <1>3, <1>5, <2>1, <2>2, GrownReuses
<1>10. Here(e, bb)
  BY <1>3, <1>4, <1>5, <1>6, <1>7 DEF Here
<1>11. Leads(c, bs, e, bb)
  BY <1>4, <1>8, LeadsOn
<1> QED
  BY <1>1, <1>2, <1>9, <1>10, <1>11 DEF Becomes

\* e is c with the parameter n.
ParamIn(c, e, n, v) ==
    /\ e \in Compilers /\ e.code = c.code /\ e.upvalues = c.upvalues
    /\ e.params = Append(c.params, v) /\ LocalMore(c, e, n, v)
    /\ e.locals[Len(c.locals) + 1].depth = c.scopeDepth

LEMMA ParamIs ==
    ASSUME NEW c \in Compilers, NEW n \in Nat, NEW v \in Nat
    PROVE  ParamIn(c, [MarkInitialized(AddLocal(c, n, v)) EXCEPT !.params = Append(@, v)], n, v)
<1>0. PICK e : e = [MarkInitialized(AddLocal(c, n, v)) EXCEPT !.params = Append(@, v)]
  OBVIOUS
<1>1. PICK k \in Nat : k = Len(c.locals) /\ k + 1 \in Nat /\ k + 1 > 0
                       /\ k + 1 \notin 1 .. k /\ 1 .. k \subseteq 1 .. k + 1
  <2>1. Len(c.locals) \in Nat
    BY CompilerIs
  <2>2. \A x \in Nat : x + 1 \in Nat /\ x + 1 > 0 /\ x + 1 \notin 1 .. x /\ 1 .. x \subseteq 1 .. x + 1
    OBVIOUS
  <2> QED
    BY <2>1, <2>2
<1>2. PICK a \in Compilers :
          /\ a = AddLocal(c, n, v)
          /\ a.code = c.code /\ a.upvalues = c.upvalues /\ a.scopeDepth = c.scopeDepth
          /\ a.params = c.params
          /\ Len(a.locals) = k + 1
          /\ \A i \in 1 .. k : a.locals[i] = c.locals[i]
          /\ a.locals[k + 1] = [name |-> n, var |-> v, depth |-> Uninitialized, captured |-> FALSE]
  BY <1>1, AddLocalIs
<1>3. PICK b \in Compilers :
          /\ b = MarkInitialized(a)
          /\ b.code = a.code /\ b.upvalues = a.upvalues /\ b.scopeDepth = a.scopeDepth
          /\ b.params = a.params
          /\ Len(b.locals) = k + 1
          /\ \A i \in 1 .. k + 1 : i # k + 1 => b.locals[i] = a.locals[i]
          /\ b.locals[k + 1].name = a.locals[k + 1].name /\ b.locals[k + 1].var = a.locals[k + 1].var
          /\ b.locals[k + 1].depth = a.scopeDepth
  <2>1. Len(a.locals) > 0
    BY <1>1, <1>2
  <2>2. LET x == MarkInitialized(a)
            m == Len(a.locals)
        IN  /\ x \in Compilers
            /\ x.code = a.code /\ x.upvalues = a.upvalues /\ x.scopeDepth = a.scopeDepth
            /\ x.params = a.params
            /\ Len(x.locals) = m /\ m \in 1 .. m
            /\ \A i \in 1 .. m : i # m => x.locals[i] = a.locals[i]
            /\ x.locals[m].name = a.locals[m].name /\ x.locals[m].var = a.locals[m].var
            /\ x.locals[m].captured = a.locals[m].captured
            /\ x.locals[m].depth = a.scopeDepth
    BY <2>1, MarkIs
  <2> QED
    BY <1>2, <2>2
<1>4. PICK ps \in Seq(Nat) : ps = Append(c.params, v)
  <2>1. c.params \in Seq(Nat)
    BY CompilerIs
  <2> QED
    BY <2>1, PushedIs
<1>5. e = [b EXCEPT !.params = ps]
  BY <1>0, <1>2, <1>3, <1>4
<1>6. /\ e \in Compilers /\ e.code = b.code /\ e.upvalues = b.upvalues /\ e.params = ps
      /\ e.locals = b.locals /\ e.scopeDepth = b.scopeDepth
  BY <1>5 DEF Compilers
<1>7. \A i \in 1 .. k : e.locals[i] = c.locals[i]
  BY <1>1, <1>2, <1>3, <1>6
<1>8. LocalMore(c, e, n, v)
  BY <1>1, <1>2, <1>3, <1>6, <1>7 DEF LocalMore
<1> QED
  BY <1>0, <1>1, <1>2, <1>3, <1>4, <1>6, <1>8 DEF ParamIn

LEMMA ParamBecomes ==
    ASSUME NEW c, NEW bs, Here(c, bs), text.length \in Nat, NEW n \in Nat \ {0},
           n \notin DOMAIN bs[Len(bs)].decls, Len(bs) = 1, bs[1].kind = "fn", c.code = <<>>,
           NEW bb \in Seq(Constructs), Declares(bs, bb, n)
    PROVE  Becomes(c, bs, [MarkInitialized(AddLocal(c, n, Var)) EXCEPT !.params = Append(@, Var)], bb)
<1>1. PICK v \in Nat : v = Var
  BY DEF Var
<1>2. PICK e : e = [MarkInitialized(AddLocal(c, n, v)) EXCEPT !.params = Append(@, v)]
  OBVIOUS
<1>3. /\ c \in Compilers /\ ~Inner(c) /\ Sorted(c) /\ Fits(c, bs) /\ Named(c, bs)
      /\ bs \in Seq(Constructs) /\ Len(bs) \in Nat /\ Len(bs) > 0
      /\ Len(bs) = c.scopeDepth /\ c.scopeDepth > 0
  BY HereIs
<1>4. /\ e \in Compilers /\ e.code = c.code /\ e.upvalues = c.upvalues
      /\ e.params = Append(c.params, v) /\ LocalMore(c, e, n, v)
      /\ e.locals[Len(c.locals) + 1].depth = c.scopeDepth
  <2>1. ParamIn(c, e, n, v)
    BY <1>2, <1>3, ParamIs
  <2> QED
    BY <2>1 DEF ParamIn
<1>5. /\ Len(bb) = Len(bs) /\ bb[1].kind = "fn"
      /\ NamesMore(bs, bb, n, v)
  <2>1. /\ Len(bb) = Len(bs) /\ NamesMore(bs, bb, n, v)
        /\ \A d \in 1 .. Len(bs) : SameWait(bs[d], bb[d])
    BY <1>1, <1>3, DeclaresIs
  <2>2. SameWait(bs[1], bb[1])
    BY <2>1
  <2> QED
    BY <2>1, <2>2 DEF SameWait
<1>6. Named(e, bb)
  BY <1>3, <1>4, <1>5, NamedDeclare
<1>7. PICK k \in Nat : k = Len(c.locals)
  BY <1>3, CompilerIs
<1>8. \A i \in 1 .. k : c.locals[i].depth # Uninitialized
  BY <1>3, <1>7, FullBase
<1>9. SlotMore(c, e, k, v)
  BY <1>3, <1>4, <1>7, <1>8 DEF SlotMore, LocalMore
<1>10. ~Inner(e) /\ Slots(e, e.scopeDepth) = Append(Slots(c, c.scopeDepth), v)
  BY <1>3, <1>4, <1>9, SlotMoreIs DEF LocalMore
<1>11. Here(e, bb)
  BY <1>3, <1>4, <1>5, <1>6, <1>10 DEF Here
<1>12. Len(c.code) = 0 /\ Len(e.code) = 0 /\ End(c) = 1 /\ End(e) = 1
  BY <1>4 DEF End
<1>13. PICK s \in Seq(Nat) : s = Append(c.params, v)
  <2>1. c.params \in Seq(Nat)
    BY <1>3, CompilerIs
  <2> QED
    BY <2>1, PushedIs
<1>14. ASSUME NEW L, Ready(c, bs, L)
       PROVE  \E M : /\ Ready(e, bb, M)
                     /\ \A O : Tracked(c, bs, L, O) => \E P : Tracked(e, bb, M, P)
  <2>1. Slots(c, c.scopeDepth) = c.params
    BY <1>12, <1>14 DEF Ready
  <2>2. PICK M : M = [p \in Nat |-> s]
    OBVIOUS
  <2>3. M \in [Nat -> Seq(Nat)] /\ M[1] = s
    BY <2>2
  <2>4. Flow(e.code, M)
    BY <1>12, <2>3 DEF Flow
  <2>5. \A d \in 1 .. Len(bb) : d = 1 /\ bb[d].kind = "fn"
    BY <1>5
  <2>6. \A d \in 1 .. Len(bb) : BlockLaid(bb[d], d, e, M)
    <3> TAKE d \in 1 .. Len(bb)
    <3>1. bb[d].kind = "fn"
      BY <2>5
    <3> QED
      BY <3>1 DEF BlockLaid
  <2>7. Laid(e, bb, M)
    BY <2>4, <2>5, <2>6 DEF Laid
  <2>8. Ready(e, bb, M)
    BY <1>4, <1>10, <1>12, <1>13, <2>1, <2>3, <2>7 DEF Ready
  <2>9. PICK P : P = [p \in Nat |-> {}]
    OBVIOUS
  <2>10. P \in [Nat -> SUBSET Nat] /\ \A p \in Nat : P[p] = {}
    BY <2>9
  <2>11. OpenFlow(e.code, M, P)
    BY <1>12, <2>10 DEF OpenFlow
  <2>12. Covers(e, bb, M, P)
    <3> SUFFICES ASSUME NEW d \in 1 .. Len(bb)
                 PROVE  /\ \A j \in Pending(bb[d], e) : P[j] \subseteq P[End(e)]
                        /\ bb[d].kind = "loop" =>
                              P[End(e)] \cap 1 .. Len(M[bb[d].start]) \subseteq P[bb[d].start]
      BY DEF Covers
    <3>1. bb[d].kind = "fn"
      BY <2>5
    <3>2. Pending(bb[d], e) = {}
      BY <3>1 DEF Pending
    <3> QED
      BY <3>1, <3>2
  <2>13. Tracked(e, bb, M, P)
    BY <1>12, <2>10, <2>11, <2>12 DEF Tracked, OpenLaid
  <2> QED
    BY <2>8, <2>13
<1>15. Leads(c, bs, e, bb)
  BY <1>14 DEF Leads
<1>16. Reuses(c, e)
  BY <1>4, SameCodeReuses
<1> QED
  BY <1>1, <1>2, <1>11, <1>15, <1>16 DEF Becomes

LEMMA BeginBlockBecomes ==
    ASSUME NEW c, NEW bs, Here(c, bs), NEW bb \in Seq(Constructs), NEW b, Extends(bs, bb, b),
           b.kind = "block", DOMAIN b.decls = {}
    PROVE  Becomes(c, bs, BeginScope(c), bb)
<1>1. PICK e : e = BeginScope(c)
  OBVIOUS
<1>2. /\ c \in Compilers /\ ~Inner(c) /\ Fits(c, bs) /\ Named(c, bs) /\ Len(bs) \in Nat
  BY HereIs
<1>3. Leads(c, bs, e, bs) /\ ~Inner(e)
  BY <1>1, <1>2, BeginScopeLeads
<1>4. /\ e \in Compilers /\ e.scopeDepth = c.scopeDepth + 1 /\ e.code = c.code
      /\ e.upvalues = c.upvalues /\ e.locals = c.locals
  BY <1>1, <1>2, BeginScopeIs
<1>5. /\ Len(bb) = Len(bs) + 1 /\ bb[Len(bs) + 1] = b
      /\ \A d \in 1 .. Len(bs) : bb[d] = bs[d]
  BY DEF Extends
<1>6. Named(e, bb)
  <2>1. \A d \in 1 .. Len(bs) : bb[d].decls = bs[d].decls
    BY <1>5
  <2> QED
    BY <1>2, <1>4, <1>5, <2>1, NamedOpen
<1>7. Leads(e, bs, e, bb)
  <2>1. b.kind \in {"block", "for", "match"} /\ b.kind # "match"
    OBVIOUS
  <2> QED
    BY <1>2, <2>1, AppendLeads
<1>8. Leads(c, bs, e, bb)
  BY <1>3, <1>7, LeadsOn
<1>9. Len(bb) > 0
  BY <1>2, <1>5
<1>10. Reuses(c, e)
  BY <1>4, SameCodeReuses
<1> QED
  BY <1>1, <1>3, <1>4, <1>6, <1>8, <1>9, <1>10 DEF Becomes, Here

\* bb is bs without the last.
Shortens(bs, bb) ==
    /\ Len(bb) = Len(bs) - 1
    /\ \A d \in 1 .. Len(bb) : bb[d] = bs[d]

LEMMA EndScopeNamed ==
    ASSUME NEW c, NEW bs, Here(c, bs), Len(bs) > 1, NEW bb \in Seq(Constructs), Shortens(bs, bb)
    PROVE  Here(EndScope(c), bb) /\ Reuses(c, EndScope(c))
<1>1. PICK e : e = EndScope(c)
  OBVIOUS
<1>2. /\ c \in Compilers /\ ~Inner(c) /\ Sorted(c) /\ Named(c, bs) /\ Len(bs) \in Nat
      /\ c.scopeDepth > 0 /\ c.scopeDepth \in Nat
  BY HereIs
<1>3. ScopeLeft(c, e)
  BY <1>1, <1>2, EndScopeIs
<1>4. /\ e \in Compilers /\ ~Inner(e) /\ Grown(c, e, Cleanup(c, c.scopeDepth - 1))
      /\ e.upvalues = c.upvalues /\ e.scopeDepth = c.scopeDepth - 1
      /\ Len(e.locals) = Base(c, c.scopeDepth - 1)
      /\ \A i \in 1 .. Len(e.locals) : e.locals[i] = c.locals[i]
  BY <1>3 DEF ScopeLeft
<1>5. /\ Len(bb) = Len(bs) - 1 /\ \A d \in 1 .. Len(bs) - 1 : bb[d].decls = bs[d].decls
  BY DEF Shortens
<1>6. Named(e, bb)
  BY <1>2, <1>4, <1>5, NamedClose
<1>7. Len(bb) > 0
  BY <1>2, <1>5
<1>8. Reuses(c, e)
  <2>1. PICK xs : xs = Cleanup(c, c.scopeDepth - 1)
    OBVIOUS
  <2>2. PICK d \in Nat : d = c.scopeDepth - 1
    BY <1>2
  <2>3. /\ xs \in Seq(Instructions) /\ Len(xs) = Len(c.locals) - Base(c, d)
        /\ \A q \in 1 .. Len(c.locals) - Base(c, d) :
              /\ Len(c.locals) - q + 1 \in 1 .. Len(c.locals)
              /\ xs[q] = Discard(c.locals[Len(c.locals) - q + 1])
    BY <1>2, <2>1, <2>2, CleanupIs
  <2>4. ASSUME NEW q \in 1 .. Len(xs) PROVE xs[q].op # "upvalue"
    <3>1. PICK i \in 1 .. Len(c.locals) : xs[q] = Discard(c.locals[i])
      BY <2>3
    <3>2. c.locals[i] \in Locals
      BY <1>2, CompilerIs
    <3>3. Discard(c.locals[i]).op \in {"pop", "close"}
      BY <3>2, DiscardIs
    <3> QED
      BY <3>1, <3>3
  <2> QED
    BY <1>2, <1>4, <2>1, <2>3, <2>4, GrownReuses
<1> QED
  BY <1>1, <1>4, <1>6, <1>7, <1>8 DEF Here

LEMMA ShortenLeads ==
    ASSUME NEW c, NEW bs, Len(bs) \in Nat, Len(bs) > 0, NEW bb, Shortens(bs, bb)
    PROVE  Leads(c, bs, c, bb)
<1>1. Len(bb) \in Nat /\ Len(bb) <= Len(bs)
  BY DEF Shortens
<1>2. \A d \in 1 .. Len(bb) : SameWait(bs[d], bb[d])
  BY DEF Shortens, SameWait
<1> QED
  BY <1>1, <1>2, WaitLeads

LEMMA EndBlockBecomes ==
    ASSUME NEW c, NEW bs, Here(c, bs), Len(bs) > 1, NEW bb \in Seq(Constructs), Shortens(bs, bb),
           bs[Len(bs)].kind # "match"
    PROVE  Becomes(c, bs, EndScope(c), bb)
<1>1. /\ c \in Compilers /\ ~Inner(c) /\ Fits(c, bs) /\ Len(bs) \in Nat /\ Len(bs) = c.scopeDepth
      /\ c.scopeDepth > 0 /\ Len(bs) > 0
  BY HereIs
<1>2. Leads(c, bs, EndScope(c), bs)
  <2>1. Len(bs) <= c.scopeDepth
    BY <1>1
  <2> QED
    BY <1>1, <2>1, EndScopeLeads
<1>3. Leads(EndScope(c), bs, EndScope(c), bb)
  BY <1>1, ShortenLeads
<1>4. Leads(c, bs, EndScope(c), bb)
  BY <1>2, <1>3, LeadsOn
<1> QED
  BY <1>4, EndScopeNamed DEF Becomes

-----------------------------------------------------------------------------
(* Scopes that are opened with a local                                     *)

LEMMA DeclareMore ==
    ASSUME NEW c \in Compilers, NEW n \in Nat, NEW v \in Nat, NEW e, DeclaredIn(c, e, n, v)
    PROVE  e \in Compilers /\ LocalMore(c, e, n, v) /\ Reuses(c, e)
<1>1. /\ e \in Compilers /\ Grown(c, e, <<PushOf(v)>>) /\ e.upvalues = c.upvalues
      /\ LocalMore(c, e, n, v)
  BY DEF DeclaredIn, LocalMore
<1>2. PICK xs \in Seq(Instructions) : xs = <<PushOf(v)>> /\ \A q \in 1 .. Len(xs) : xs[q].op # "upvalue"
  <2>1. PushOf(v) \in Instructions /\ PushOf(v).op = "push"
    BY DEF PushOf, Pushes, Instructions
  <2>2. PICK i \in Instructions : i = PushOf(v) /\ i.op # "upvalue"
    BY <2>1
  <2>3. <<i>> \in Seq(Instructions) /\ Len(<<i>>) = 1 /\ <<i>>[1] = i
    OBVIOUS
  <2>4. \A q \in 1 .. Len(<<i>>) : <<i>>[q].op # "upvalue"
    BY <2>2, <2>3
  <2> QED
    BY <2>2, <2>3, <2>4
<1> QED
  BY <1>1, <1>2, GrownReuses

\* The scope of b is opened, in which n is declared for v.
OpensWith(bs, bb, b, n, v) ==
    /\ Extends(bs, bb, b) /\ b.kind \in {"for", "match"} /\ (b.kind = "match" => b.ends = {})
    /\ DOMAIN b.decls \subseteq {n} /\ (n # NoName => n \in DOMAIN b.decls /\ b.decls[n] = v)

Opened(c, n, v) == MarkInitialized(Emit(AddLocal(BeginScope(c), n, v), <<PushOf(v)>>))

OpenedIn(c, e, v) ==
    /\ e.scopeDepth = c.scopeDepth + 1
    /\ Base(e, c.scopeDepth + 1) = Base(e, c.scopeDepth) + 1
    /\ e.locals[Base(e, c.scopeDepth + 1)].var = v

LEMMA OpenedBecomes ==
    ASSUME NEW c, NEW bs, Here(c, bs), NEW n \in Nat, NEW v \in Nat,
           NEW bb \in Seq(Constructs), NEW b, OpensWith(bs, bb, b, n, v)
    PROVE  Becomes(c, bs, Opened(c, n, v), bb) /\ OpenedIn(c, Opened(c, n, v), v)
<1>1. PICK s : s = BeginScope(c)
  OBVIOUS
<1>2. PICK e : e = MarkInitialized(Emit(AddLocal(s, n, v), <<PushOf(v)>>))
  OBVIOUS
<1>3. /\ c \in Compilers /\ ~Inner(c) /\ Sorted(c) /\ Fits(c, bs) /\ Named(c, bs) /\ Len(bs) \in Nat
      /\ Len(bs) = c.scopeDepth
  BY HereIs
<1>4. Leads(c, bs, s, bs) /\ ~Inner(s) /\ Fits(s, bs)
  BY <1>1, <1>3, BeginScopeLeads
<1>5. /\ s \in Compilers /\ s.scopeDepth = c.scopeDepth + 1 /\ s.code = c.code
      /\ s.upvalues = c.upvalues /\ s.locals = c.locals
  BY <1>1, <1>3, BeginScopeIs
<1>6. PICK d \in Nat : d = c.scopeDepth /\ s.scopeDepth = d + 1 /\ d + 1 > 0 /\ d <= d + 1 /\ d # d + 1
  <2>1. \A x \in Nat : x + 1 > 0 /\ x <= x + 1 /\ x # x + 1
    OBVIOUS
  <2> QED
    BY <1>3, <1>5, <2>1
<1>7. Leads(s, bs, e, bs) /\ Fits(e, bs) /\ ~Inner(e)
  <2>1. /\ s.scopeDepth > 0 /\ Len(bs) <= s.scopeDepth
        /\ (Len(bs) = s.scopeDepth => bs[Len(bs)].kind # "match")
    BY <1>3, <1>6
  <2>2. LET x == MarkInitialized(Emit(AddLocal(s, n, v), <<PushOf(v)>>))
        IN  Leads(s, bs, x, bs) /\ Fits(x, bs) /\ ~Inner(x)
    BY <1>4, <2>1, DeclareLeads
  <2> QED
    BY <1>2, <2>2
<1>8. DeclaredIn(s, e, n, v)
  BY <1>2, <1>5, DeclareIs
<1>9. e \in Compilers /\ LocalMore(s, e, n, v) /\ Reuses(s, e)
  BY <1>5, <1>8, DeclareMore
<1>10. /\ Len(bb) = Len(bs) + 1 /\ bb[Len(bs) + 1] = b
       /\ \A i \in 1 .. Len(bs) : bb[i] = bs[i]
       /\ b.kind \in {"block", "for", "match"} /\ (b.kind = "match" => b.ends = {})
       /\ DOMAIN b.decls \subseteq {n} /\ (n # NoName => n \in DOMAIN b.decls /\ b.decls[n] = v)
  BY DEF OpensWith, Extends
<1>11. Leads(e, bs, e, bb)
  BY <1>3, <1>10, AppendLeads DEF OpensWith
<1>12. Leads(c, bs, e, bb)
  BY <1>4, <1>7, <1>11, LeadsOn
<1>13. Reuses(c, e)
  BY <1>5, <1>9, SameCodeReuses, ReusesOn
<1>14. PICK ba : /\ ba = [i \in 1 .. Len(bs) + 1 |-> IF i = Len(bs) + 1 THEN Block("block") ELSE bs[i]]
                 /\ Len(ba) = Len(bs) + 1
  <2>1. PICK l \in Nat : l = Len(bs) + 1
    BY <1>3
  <2>2. PICK x : x = [i \in 1 .. l |-> IF i = l THEN Block("block") ELSE bs[i]]
    OBVIOUS
  <2>3. Len(x) = l
    BY <2>2
  <2> QED
    BY <2>1, <2>2, <2>3
<1>15. /\ \A i \in 1 .. Len(bs) : ba[i] = bs[i]
       /\ DOMAIN ba[Len(bs) + 1].decls = {}
  <2>1. \A x \in Nat : x + 1 \in 1 .. x + 1 /\ \A i \in 1 .. x : i \in 1 .. x + 1 /\ i # x + 1
    OBVIOUS
  <2>2. Block("block").decls = NoDecls /\ DOMAIN NoDecls = {}
    BY DEF Block, NoDecls
  <2> QED
    BY <1>3, <1>14, <2>1, <2>2
<1>16. Named(s, ba)
  <2>1. \A i \in 1 .. Len(bs) : ba[i].decls = bs[i].decls
    BY <1>15
  <2> QED
    BY <1>3, <1>5, <1>14, <1>15, <2>1, NamedOpen
<1>17. NamesMore(ba, bb, n, v)
  <2>1. PICK k \in Nat : k = Len(bs) /\ k + 1 \in 1 .. k + 1 /\ \A i \in 1 .. k + 1 : i \in 1 .. k \/ i = k + 1
    <3>1. \A x \in Nat : x + 1 \in 1 .. x + 1 /\ \A i \in 1 .. x + 1 : i \in 1 .. x \/ i = x + 1
      OBVIOUS
    <3> QED
      BY <1>3, <3>1
  <2>2. ASSUME NEW i \in 1 .. k + 1, NEW m \in DOMAIN ba[i].decls
        PROVE  m \in DOMAIN bb[i].decls /\ bb[i].decls[m] = ba[i].decls[m]
    BY <1>10, <1>15, <2>1, <2>2
  <2>3. ASSUME NEW i \in 1 .. k + 1, NEW m \in DOMAIN bb[i].decls
        PROVE  m \in DOMAIN ba[i].decls \/ (i = k + 1 /\ m = n)
    BY <1>10, <1>15, <2>1, <2>3
  <2>4. n # NoName => /\ n \notin DOMAIN ba[k + 1].decls /\ n \in DOMAIN bb[k + 1].decls
                      /\ bb[k + 1].decls[n] = v
    BY <1>10, <1>15, <2>1
  <2> QED
    BY <1>10, <1>14, <2>1, <2>2, <2>3, <2>4 DEF NamesMore
<1>18. Named(e, bb)
  <2>1. Len(ba) > 0
    BY <1>3, <1>14
  <2> QED
    BY <1>4, <1>5, <1>9, <1>16, <1>17, <2>1, NamedDeclare
<1>19. Len(bb) > 0
  BY <1>3, <1>10
<1>20. Becomes(c, bs, e, bb)
  BY <1>7, <1>9, <1>12, <1>13, <1>18, <1>19 DEF Becomes, Here
<1>21. PICK k \in Nat : k = Len(c.locals) /\ k + 1 \in 1 .. k + 1 /\ 1 .. k \subseteq 1 .. k + 1
  <2>1. Len(c.locals) \in Nat
    BY <1>3, CompilerIs
  <2>2. \A x \in Nat : x + 1 \in 1 .. x + 1 /\ 1 .. x \subseteq 1 .. x + 1
    OBVIOUS
  <2> QED
    BY <2>1, <2>2
<1>22. /\ e.scopeDepth = d + 1 /\ Len(e.locals) = k + 1
       /\ \A i \in 1 .. k : e.locals[i] = c.locals[i]
       /\ e.locals[k + 1].var = v /\ e.locals[k + 1].depth = d + 1
  BY <1>5, <1>6, <1>8, <1>21 DEF DeclaredIn
<1>23. Sorted(e)
  BY <1>18, <1>9, NamedIsSorted
<1>24. Base(e, d + 1) = k + 1
  BY <1>7, <1>9, <1>22, <1>23, FullBase
<1>25. Base(e, d) = k
  <2>1. /\ Base(e, d) \in 0 .. Len(e.locals)
        /\ \A i \in 1 .. Len(e.locals) : i <= Base(e, d) <=> e.locals[i].depth \in 1 .. d
    BY <1>9, <1>23, BaseIs
  <2>2. PICK x \in Nat : x = Base(e, d) /\ x <= k + 1
    BY <1>21, <1>22, <2>1
  <2>3. \A i \in 1 .. k : e.locals[i].depth \in 1 .. d
    <3>1. \A i \in 1 .. k : c.locals[i].depth \in 1 .. d
      BY <1>3, <1>6, <1>21, FullBase
    <3> QED
      BY <1>22, <3>1
  <2>4. \A i \in 1 .. k : i <= x
    BY <1>21, <1>22, <2>1, <2>2, <2>3
  <2>5. ~(k + 1 <= x)
    <3>1. d + 1 \notin 1 .. d
      BY <1>6
    <3> QED
      BY <1>21, <1>22, <2>1, <2>2, <3>1
  <2>6. k = 0 \/ k \in 1 .. k
    BY <1>21
  <2>7. k = 0 \/ k <= x
    BY <2>4, <2>6
  <2>8. \A i, j \in Nat : (i = 0 \/ i <= j) /\ j <= i + 1 /\ ~(i + 1 <= j) => j = i
    OBVIOUS
  <2> QED
    BY <2>2, <2>5, <2>7, <2>8
<1>26. OpenedIn(c, e, v)
  BY <1>6, <1>22, <1>24, <1>25 DEF OpenedIn
<1> QED
  BY <1>1, <1>2, <1>20, <1>26 DEF Opened

-----------------------------------------------------------------------------
(* Loops that begin                                                        *)

\* The loop b begins after the code of c.
LoopHere(c, b) ==
    /\ b.kind = "loop" /\ DOMAIN b.decls = {} /\ b.start = End(c)
    /\ b.continueDepth = c.scopeDepth /\ b.breaks = {} /\ b.left = FALSE
    /\ b.own = Temp => b.breakDepth = c.scopeDepth
    /\ b.own # Temp =>
          /\ c.scopeDepth > 1 /\ b.breakDepth = c.scopeDepth - 1
          /\ Base(c, c.scopeDepth) = Base(c, c.scopeDepth - 1) + 1
          /\ c.locals[Base(c, c.scopeDepth)].var = b.own

LEMMA LoopLaid ==
    ASSUME NEW c \in Compilers, c.scopeDepth > 0, NEW b, LoopHere(c, b),
           NEW e \in Compilers, e.locals = c.locals, Len(e.code) = Len(c.code) + 1,
           e.code[Len(c.code) + 1] = Branch(0, 0),
           NEW M, M[End(c)] = Slots(c, c.scopeDepth)
    PROVE  BlockLaid(b, c.scopeDepth + 1, e, M)
<1>1. PICK n \in Nat, d \in Nat :
          /\ n = Len(c.code) /\ End(c) = n + 1 /\ Len(e.code) = n + 1
          /\ d = c.scopeDepth /\ d > 0
  BY CompilerIs
<1>2. /\ b.kind = "loop" /\ b.start = n + 1
      /\ b.continueDepth = d /\ b.breaks = {} /\ b.left = FALSE
      /\ b.own = Temp => b.breakDepth = d
      /\ b.own # Temp =>
            /\ d > 1 /\ b.breakDepth = d - 1
            /\ Base(c, d) = Base(c, d - 1) + 1
            /\ c.locals[Base(c, d)].var = b.own
  BY <1>1 DEF LoopHere
<1>3. \A x : Base(e, x) = Base(c, x) /\ Slots(e, x) = Slots(c, x)
  BY DEF Base, Slots
<1>4. (d + 1) - 1 = d /\ d + 1 > 1 /\ (d > 1 => d + 1 > 2) /\ (d + 1) - 2 = d - 1
  <2>1. \A x \in Nat : x > 0 => (x + 1) - 1 = x /\ x + 1 > 1 /\ (x > 1 => x + 1 > 2) /\ (x + 1) - 2 = x - 1
    OBVIOUS
  <2> QED
    BY <1>1, <2>1
<1>5. /\ n + 1 \in 1 .. n + 1 /\ \A p \in n + 1 .. n + 1 : p = n + 1
  <2>1. \A x \in Nat : x + 1 \in 1 .. x + 1 /\ \A p \in x + 1 .. x + 1 : p = x + 1
    OBVIOUS
  <2> QED
    BY <2>1
<1>6. PICK i : i = e.code[n + 1] /\ i.op = "branch" /\ i.to = 0 /\ i.leaves = 0
  BY <1>1 DEF Branch
<1>7. \A p \in b.start .. Len(e.code) :
          /\ e.code[p].op = "pop" =>
                Len(M[p]) > Len(M[b.start]) \/ (b.left = TRUE /\ Len(M[p]) = Len(M[b.start]))
          /\ e.code[p].op \in {"jump", "branch"} => e.code[p].to = 0 \/ e.code[p].to >= b.start
  <2> TAKE p \in b.start .. Len(e.code)
  <2>1. p = n + 1
    BY <1>1, <1>2, <1>5
  <2> QED
    BY <1>6, <2>1
<1>8. M[b.start] = Slots(e, (d + 1) - 1)
  BY <1>1, <1>2, <1>3, <1>4
<1>9. b.own # Temp => /\ d + 1 > 2 /\ b.breakDepth = (d + 1) - 2
                      /\ Base(e, (d + 1) - 1) = Base(e, (d + 1) - 2) + 1
                      /\ e.locals[Base(e, (d + 1) - 1)].var = b.own
  BY <1>2, <1>3, <1>4
<1>10. BlockLaid(b, d + 1, e, M)
  <2>1. b.continueDepth = (d + 1) - 1 /\ d + 1 > 1
    BY <1>2, <1>4
  <2>2. b.start \in 1 .. Len(e.code) /\ e.code[b.start].op = "branch" /\ e.code[b.start].leaves = 0
    BY <1>1, <1>2, <1>5, <1>6
  <2>3. b.own = Temp => b.breakDepth = (d + 1) - 1 /\ b.left = FALSE
    BY <1>2, <1>4
  <2> QED
    BY <1>2, <1>7, <1>8, <1>9, <2>1, <2>2, <2>3 DEF BlockLaid
<1> QED
  BY <1>1, <1>10

LEMMA BodyLeads ==
    ASSUME NEW c, NEW bs, Here(c, bs), NEW bb \in Seq(Constructs), NEW b, Extends(bs, bb, b),
           LoopHere(c, b)
    PROVE  /\ Leads(c, bs, Emit(c, <<Branch(0, 0)>>), bb) /\ Fits(Emit(c, <<Branch(0, 0)>>), bb)
           /\ Reuses(c, Emit(c, <<Branch(0, 0)>>))
<1>1. PICK i \in Instructions : /\ i = Branch(0, 0) /\ i.op = "branch" /\ i.to = 0 /\ i.leaves = 0
  <2>1. PICK i : i = Branch(0, 0)
    OBVIOUS
  <2>2. i \in Instructions
    BY <2>1 DEF Branch, Branches, Instructions
  <2>3. i.op = "branch" /\ i.to = 0 /\ i.leaves = 0
    BY <2>1 DEF Branch
  <2> QED
    BY <2>1, <2>2, <2>3
<1>2. PICK xs \in Seq(Instructions) : xs = <<i>> /\ Len(xs) = 1 /\ xs[1] = i
  <2>1. <<i>> \in Seq(Instructions) /\ Len(<<i>>) = 1 /\ <<i>>[1] = i
    OBVIOUS
  <2> QED
    BY <2>1
<1>3. PICK e : e = Emit(c, xs)
  OBVIOUS
<1>4. /\ c \in Compilers /\ ~Inner(c) /\ Sorted(c) /\ Fits(c, bs) /\ Named(c, bs) /\ Len(bs) \in Nat
      /\ Len(bs) = c.scopeDepth /\ c.scopeDepth > 0 /\ c.scopeDepth \in Nat
      /\ \A d \in 1 .. Len(bs) : bs[d] \in Constructs
  BY HereIs
<1>5. /\ e \in Compilers /\ e.locals = c.locals /\ e.upvalues = c.upvalues
      /\ e.scopeDepth = c.scopeDepth /\ e.params = c.params /\ Grown(c, e, xs)
  <2>1. LET x == Emit(c, xs)
        IN  /\ x \in Compilers
            /\ x.locals = c.locals /\ x.upvalues = c.upvalues /\ x.scopeDepth = c.scopeDepth
            /\ x.params = c.params
            /\ Len(xs) \in Nat /\ Len(x.code) = Len(c.code) + Len(xs)
            /\ \A p \in 1 .. Len(c.code) : x.code[p] = c.code[p]
            /\ \A q \in 1 .. Len(xs) : x.code[Len(c.code) + q] = xs[q]
    BY <1>4, EmitIs
  <2> QED
    BY <1>3, <2>1 DEF Grown
<1>6. Sorted(e) /\ Fits(e, bs)
  BY <1>4, <1>5, SameNow
<1>7. \A q \in 1 .. Len(xs) : q = 1
  BY <1>2
<1>8. \A q \in 1 .. Len(xs) : Balanced(c, bs, xs[q], q, {})
  <2> TAKE q \in 1 .. Len(xs)
  <2>1. xs[q] = i
    BY <1>2, <1>7
  <2> QED
    BY <1>1, <2>1, Zenon DEF Balanced
<1>9. PICK n \in Nat : n = Len(c.code) /\ End(c) = n + 1 /\ Len(e.code) = n + 1 /\ End(e) = n + 1 + 1
                       /\ e.code[n + 1] = Branch(0, 0)
  <2>1. Len(c.code) \in Nat /\ End(c) = Len(c.code) + 1 /\ End(e) = Len(c.code) + Len(xs) + 1
    BY <1>4, <1>5, GrownIs
  <2>2. /\ Len(e.code) = Len(c.code) + Len(xs) /\ e.code[Len(c.code) + 1] = xs[1]
    <3>1. 1 \in 1 .. Len(xs)
      BY <1>2
    <3> QED
      BY <1>5, <3>1 DEF Grown
  <2> QED
    BY <1>1, <1>2, <2>1, <2>2
<1>10. /\ Len(bb) = Len(bs) + 1 /\ bb[Len(bs) + 1] = b
       /\ \A d \in 1 .. Len(bs) : bb[d] = bs[d]
  BY DEF Extends
<1>11. b.kind = "loop" /\ b.start = n + 1
  BY <1>9 DEF LoopHere
<1>12. ASSUME NEW L, Ready(c, bs, L)
       PROVE  \E M : /\ Ready(e, bb, M)
                     /\ \A O : Tracked(c, bs, L, O) => \E P : Tracked(e, bb, M, P)
  <2>1. PICK M : M = Stays(c, {}, L)
    OBVIOUS
  <2>2. /\ Ready(e, bs, M)
        /\ \A O : Tracked(c, bs, L, O) => Tracked(e, bs, M, StaysOpen(c, O))
    <3>1. {} \in SUBSET Nat /\ 0 \notin {} /\ Len(xs) \notin {}
      OBVIOUS
    <3> QED
      BY <1>4, <1>5, <1>8, <1>12, <2>1, <3>1, EmitBalanced
  <2>3. M[n + 1] = Slots(c, c.scopeDepth)
    <3>1. L \in [Nat -> Seq(Nat)] /\ L[n + 1] = Slots(c, c.scopeDepth)
      BY <1>9, <1>12 DEF Ready, Laid, Flow
    <3>2. StaysFrom(M, L, n + 1, {})
      BY <1>4, <1>9, <2>1, <3>1, StaysIs
    <3>3. n + 1 \in 1 .. n + 1
      OBVIOUS
    <3> QED
      BY <3>1, <3>2, <3>3 DEF StaysFrom
  <2>4. BlockLaid(b, Len(bs) + 1, e, M)
    <3>1. M[End(c)] = Slots(c, c.scopeDepth)
      BY <1>9, <2>3
    <3>2. Len(e.code) = Len(c.code) + 1 /\ e.code[Len(c.code) + 1] = Branch(0, 0)
      BY <1>9
    <3>3. BlockLaid(b, c.scopeDepth + 1, e, M)
      BY <1>4, <1>5, <3>1, <3>2, LoopLaid
    <3> QED
      BY <1>4, <3>3
  <2>5. \A d \in 1 .. Len(bs) : bs[d].kind = "loop" => bs[d].start < b.start
    <3> TAKE d \in 1 .. Len(bs)
    <3> HAVE bs[d].kind = "loop"
    <3>1. bs[d].start \in 1 .. Len(c.code)
      <4>1. Laid(c, bs, L)
        BY <1>12 DEF Ready
      <4> QED
        BY <1>4, <4>1, LoopHeight
    <3>2. bs[d].start \in 1 .. n /\ b.start = n + 1
      BY <1>9, <1>11, <3>1, Zenon
    <3>3. \A x \in Nat : \A y \in 1 .. x : y < x + 1
      OBVIOUS
    <3> QED
      BY <3>2, <3>3, Zenon
  <2>6. Laid(e, bs, M)
    BY <2>2 DEF Ready
  <2>7. LaidMore(e, bs, bb, M, b)
    <3>1. Follows(e, bs, M, b)
      BY <1>11, <2>4, <2>5 DEF Follows
    <3> QED
      BY <1>4, <2>6, <3>1, AppendLaid
  <2>8. Ready(e, bb, M)
    BY <2>2, <2>7 DEF Ready, LaidMore
  <2>9. ASSUME NEW O, Tracked(c, bs, L, O) PROVE Tracked(e, bb, M, StaysOpen(c, O))
    <3>1. PICK P : P = StaysOpen(c, O)
      OBVIOUS
    <3>2. OpenLaid(e, bs, M, P) /\ P[End(e)] \subseteq CapturedSlots(e)
      BY <2>2, <2>9, <3>1 DEF Tracked
    <3>3. P[n + 1] = O[n + 1] /\ P[n + 1 + 1] = O[n + 1]
      <4>1. n + 1 \in Nat /\ n + 1 + 1 \in Nat /\ n + 1 <= n + 1 /\ ~(n + 1 + 1 <= n + 1)
        OBVIOUS
      <4> QED
        BY <1>9, <3>1, <4>1 DEF StaysOpen
    <3>4. Pending(b, e) = {n + 1}
      <4>1. Pending(b, e) = {b.start} \union b.breaks
        BY <1>11 DEF Pending
      <4>2. b.breaks = {}
        BY DEF LoopHere
      <4> QED
        BY <1>11, <4>1, <4>2
    <3>5. \A j \in Pending(b, e) : P[j] \subseteq P[End(e)]
      BY <1>9, <3>3, <3>4
    <3>6. P[End(e)] \cap 1 .. Len(M[b.start]) \subseteq P[b.start]
      BY <1>9, <1>11, <3>3
    <3>7. OpenLaid(e, bb, M, P)
      BY <2>7, <3>2, <3>5, <3>6 DEF LaidMore, Covered
    <3> QED
      BY <3>1, <3>2, <3>7 DEF Tracked
  <2> QED
    BY <2>8, <2>9
<1>13. Leads(c, bs, e, bb)
  BY <1>12 DEF Leads
<1>14. Fits(e, bb)
  <2>1. \A d \in 1 .. Len(bs) + 1 : d - 1 <= c.scopeDepth /\ (d \in 1 .. Len(bs) \/ d = Len(bs) + 1)
    <3>1. \A x \in Nat : \A d \in 1 .. x + 1 : d - 1 <= x /\ (d \in 1 .. x \/ d = x + 1)
      OBVIOUS
    <3> QED
      BY <1>4, <3>1
  <2>2. \A d \in 1 .. Len(bs) : d <= c.scopeDepth
    BY <1>4
  <2>3. ASSUME NEW d \in 1 .. Len(bb)
        PROVE  d - 1 <= e.scopeDepth /\ (bb[d].kind = "match" => d <= e.scopeDepth)
    <3>1. d - 1 <= e.scopeDepth /\ (d \in 1 .. Len(bs) \/ d = Len(bs) + 1)
      BY <1>5, <1>10, <2>1
    <3>2. d = Len(bs) + 1 => bb[d].kind # "match"
      BY <1>10, <1>11
    <3> QED
      BY <1>5, <2>2, <3>1, <3>2
  <2> QED
    BY <1>5, <1>6, <2>3 DEF Fits
<1>15. Reuses(c, e)
  <2>1. \A q \in 1 .. Len(xs) : xs[q].op # "upvalue"
    BY <1>1, <1>2, <1>7
  <2> QED
    BY <1>4, <1>5, <2>1, GrownReuses
<1> QED
  BY <1>1, <1>2, <1>3, <1>13, <1>14, <1>15

LEMMA BodyBecomes ==
    ASSUME NEW c, NEW bs, Here(c, bs), NEW bb \in Seq(Constructs), NEW b, Extends(bs, bb, b),
           LoopHere(c, b)
    PROVE  Becomes(c, bs, BeginBody(c), bb)
<1>1. PICK e : e = Emit(c, <<Branch(0, 0)>>)
  OBVIOUS
<1>2. PICK s : s = BeginScope(e)
  OBVIOUS
<1>3. Leads(c, bs, e, bb) /\ Fits(e, bb) /\ Reuses(c, e)
  BY <1>1, BodyLeads
<1>4. Leads(e, bb, s, bb)
  BY <1>2, <1>3, BeginScopeLeads
<1>5. c \in Compilers /\ ~Inner(c) /\ Named(c, bs) /\ Len(bs) \in Nat
  BY HereIs
<1>6. /\ e \in Compilers /\ e.locals = c.locals /\ e.scopeDepth = c.scopeDepth
  <2>1. <<Branch(0, 0)>> \in Seq(Instructions)
    <3>1. PICK i \in Instructions : i = Branch(0, 0)
      BY DEF Branch, Branches, Instructions
    <3>2. <<i>> \in Seq(Instructions)
      OBVIOUS
    <3> QED
      BY <3>1, <3>2
  <2>2. PICK xs \in Seq(Instructions) : xs = <<Branch(0, 0)>>
    BY <2>1
  <2>3. LET x == Emit(c, xs)
        IN  /\ x \in Compilers
            /\ x.locals = c.locals /\ x.upvalues = c.upvalues /\ x.scopeDepth = c.scopeDepth
            /\ x.params = c.params
            /\ Len(xs) \in Nat /\ Len(x.code) = Len(c.code) + Len(xs)
            /\ \A p \in 1 .. Len(c.code) : x.code[p] = c.code[p]
            /\ \A q \in 1 .. Len(xs) : x.code[Len(c.code) + q] = xs[q]
    BY <1>5, EmitIs
  <2> QED
    BY <1>1, <2>2, <2>3
<1>7. /\ s \in Compilers /\ s.scopeDepth = c.scopeDepth + 1 /\ s.locals = c.locals
      /\ s.code = e.code /\ s.upvalues = e.upvalues
  BY <1>2, <1>6, BeginScopeIs
<1>8. Named(s, bb) /\ ~Inner(s)
  <2>1. /\ Len(bb) = Len(bs) + 1 /\ \A d \in 1 .. Len(bs) : bb[d].decls = bs[d].decls
        /\ DOMAIN bb[Len(bs) + 1].decls = {}
    BY DEF Extends, LoopHere
  <2> QED
    BY <1>5, <1>7, <2>1, NamedOpen
<1>9. Len(bb) > 0
  BY <1>5 DEF Extends
<1>10. Reuses(c, s)
  BY <1>3, <1>7, SameCodeReuses, ReusesOn
<1>11. Leads(c, bs, s, bb)
  BY <1>3, <1>4, LeadsOn
<1> QED
  BY <1>1, <1>2, <1>7, <1>8, <1>9, <1>10, <1>11 DEF Becomes, Here, BeginBody

-----------------------------------------------------------------------------
(* Instructions that are written, and jumps that are patched               *)

EmittedIn(c, bs, e, xs) ==
    /\ e \in Compilers /\ Grown(c, e, xs) /\ Sorted(e) /\ Fits(e, bs) /\ (Inner(e) <=> Inner(c))
    /\ e.locals = c.locals /\ e.upvalues = c.upvalues /\ e.scopeDepth = c.scopeDepth
    /\ e.params = c.params

LEMMA EmitNow ==
    ASSUME NEW c, NEW bs, Fits(c, bs), NEW xs \in Seq(Instructions)
    PROVE  EmittedIn(c, bs, Emit(c, xs), xs)
<1>1. c \in Compilers
  BY FitsIs
<1>2. PICK e : e = Emit(c, xs)
  OBVIOUS
<1>3. /\ e \in Compilers /\ e.locals = c.locals /\ e.upvalues = c.upvalues
      /\ e.scopeDepth = c.scopeDepth /\ e.params = c.params /\ Grown(c, e, xs)
  <2>1. LET x == Emit(c, xs)
        IN  /\ x \in Compilers
            /\ x.locals = c.locals /\ x.upvalues = c.upvalues /\ x.scopeDepth = c.scopeDepth
            /\ x.params = c.params
            /\ Len(xs) \in Nat /\ Len(x.code) = Len(c.code) + Len(xs)
            /\ \A p \in 1 .. Len(c.code) : x.code[p] = c.code[p]
            /\ \A q \in 1 .. Len(xs) : x.code[Len(c.code) + q] = xs[q]
    BY <1>1, EmitIs
  <2> QED
    BY <1>2, <2>1 DEF Grown
<1>4. Sorted(e) /\ Fits(e, bs) /\ (Inner(e) <=> Inner(c))
  BY <1>3, SameNow
<1> QED
  BY <1>2, <1>3, <1>4 DEF EmittedIn

LEMMA SingleIs ==
    ASSUME NEW i \in Instructions
    PROVE  /\ <<i>> \in Seq(Instructions) /\ Len(<<i>>) = 1
           /\ \A q \in 1 .. Len(<<i>>) : q = 1 /\ <<i>>[q] = i
<1>1. <<i>> \in Seq(Instructions) /\ Len(<<i>>) = 1 /\ <<i>>[1] = i
  OBVIOUS
<1>2. \A q \in 1 .. Len(<<i>>) : q = 1
  BY <1>1
<1> QED
  BY <1>1, <1>2

LEMMA EmitOneLeads ==
    ASSUME NEW c, NEW bs, Fits(c, bs), NEW i \in Instructions,
           \A L : Ready(c, bs, L) => Balanced(c, bs, i, 1, {})
    PROVE  /\ Leads(c, bs, Emit(c, <<i>>), bs) /\ EmittedIn(c, bs, Emit(c, <<i>>), <<i>>)
           /\ i.op # "upvalue" => Reuses(c, Emit(c, <<i>>))
<1>1. PICK xs \in Seq(Instructions) : /\ xs = <<i>> /\ Len(xs) = 1
                                      /\ \A q \in 1 .. Len(xs) : q = 1 /\ xs[q] = i
  BY SingleIs
<1>2. PICK e : e = Emit(c, xs)
  OBVIOUS
<1>3. EmittedIn(c, bs, e, xs)
  BY <1>2, EmitNow
<1>4. /\ e \in Compilers /\ Grown(c, e, xs) /\ e.locals = c.locals /\ e.upvalues = c.upvalues
      /\ e.scopeDepth = c.scopeDepth /\ e.params = c.params
  BY <1>3 DEF EmittedIn
<1>5. ASSUME NEW L, Ready(c, bs, L)
      PROVE  \E M : /\ Ready(e, bs, M)
                    /\ \A O : Tracked(c, bs, L, O) => \E P : Tracked(e, bs, M, P)
  <2>1. \A q \in 1 .. Len(xs) : Balanced(c, bs, xs[q], q, {})
    BY <1>1, <1>5
  <2>2. {} \in SUBSET Nat /\ 0 \notin {} /\ Len(xs) \notin {}
    OBVIOUS
  <2>3. /\ Ready(e, bs, Stays(c, {}, L))
        /\ \A O : Tracked(c, bs, L, O) => Tracked(e, bs, Stays(c, {}, L), StaysOpen(c, O))
    BY <1>4, <1>5, <2>1, <2>2, EmitBalanced
  <2> QED
    BY <2>3
<1>6. Leads(c, bs, e, bs)
  BY <1>5 DEF Leads
<1>7. i.op # "upvalue" => Reuses(c, e)
  <2>1. c \in Compilers
    BY FitsIs
  <2> QED
    BY <1>1, <1>4, <2>1, GrownReuses
<1> QED
  BY <1>1, <1>2, <1>3, <1>6, <1>7

LEMMA HereSame ==
    ASSUME NEW c, NEW bs, Here(c, bs), NEW e \in Compilers,
           e.locals = c.locals, e.scopeDepth = c.scopeDepth
    PROVE  Here(e, bs)
<1>1. c \in Compilers /\ ~Inner(c) /\ bs \in Seq(Constructs) /\ Named(c, bs) /\ Len(bs) > 0
  BY DEF Here
<1>2. SameLocals(c, e)
  BY DEF SameLocals
<1>3. Named(e, bs) /\ ~Inner(e)
  BY <1>1, <1>2, NamedSame
<1> QED
  BY <1>1, <1>3 DEF Here

(* A jump back to the beginning of the last loop.                          *)

JumpedBack(c, bs, e) ==
    /\ Leads(c, bs, e, bs) /\ Fits(e, bs) /\ Reuses(c, e) /\ e \in Compilers
    /\ e.locals = c.locals /\ e.scopeDepth = c.scopeDepth /\ (Inner(e) <=> Inner(c))

LEMMA JumpBackLeads ==
    ASSUME NEW c, NEW bs, Fits(c, bs), Len(bs) > 0, bs[Len(bs)].kind = "loop",
           c.scopeDepth = Len(bs) - 1
    PROVE  JumpedBack(c, bs, Emit(c, <<Jump(bs[Len(bs)].start)>>))
<1>1. PICK t \in Nat : t = Len(bs) /\ t \in 1 .. t /\ t > 0 /\ \A d \in 1 .. t : d = t \/ d < t
  <2>1. Len(bs) \in Nat
    BY FitsIs
  <2>2. \A x \in Nat : x > 0 => x \in 1 .. x /\ \A d \in 1 .. x : d = x \/ d < x
    OBVIOUS
  <2> QED
    BY <2>1, <2>2
<1>2. PICK b \in Constructs : b = bs[t] /\ b.kind = "loop" /\ b.start \in Nat
  <2>1. bs[t] \in Constructs
    BY <1>1, FitsIs
  <2> QED
    BY <1>1, <2>1, ConstructIs
<1>3. PICK i \in Instructions : i = Jump(b.start) /\ i.op = "jump" /\ i.to = b.start
  <2>1. PICK i : i = Jump(b.start)
    OBVIOUS
  <2>2. i \in Instructions
    BY <1>2, <2>1 DEF Jump, JumpsTo, Instructions
  <2> QED
    BY <2>1, <2>2 DEF Jump
<1>4. ASSUME NEW L, Ready(c, bs, L) PROVE Balanced(c, bs, i, 1, {})
  <2>1. Laid(c, bs, L)
    BY <1>4 DEF Ready
  <2>2. \A d \in 1 .. t : bs[d].kind = "loop" => bs[d].start < b.start \/ d = t
    BY <1>1, <1>2, <2>1 DEF Laid
  <2>3. \A d \in 1 .. t : bs[d].kind = "loop" => bs[d].start <= b.start
    <3>1. \A d \in 1 .. t : bs[d].kind = "loop" => bs[d].start \in Nat
      BY <1>1, FitsIs, ConstructIs
    <3>2. \A x, y \in Nat : x < y \/ x = y => x <= y
      OBVIOUS
    <3> QED
      BY <1>2, <2>2, <3>1, <3>2
  <2>4. Back(c, bs, b.start)
    <3>1. Slots(c, t - 1) = Slots(c, c.scopeDepth)
      BY <1>1
    <3> QED
      BY <1>1, <1>2, <2>3, <3>1 DEF Back
  <2> QED
    BY <1>3, <2>4, Zenon DEF Balanced
<1>5. PICK e : e = Emit(c, <<i>>)
  OBVIOUS
<1>6. Leads(c, bs, e, bs) /\ EmittedIn(c, bs, e, <<i>>) /\ Reuses(c, e)
  <2>1. i.op # "upvalue"
    BY <1>3
  <2> QED
    BY <1>4, <1>5, <2>1, EmitOneLeads
<1> QED
  BY <1>1, <1>2, <1>3, <1>5, <1>6 DEF EmittedIn, JumpedBack

(* Jumps that lead to the end of the code now.                             *)

\* The jumps J of c wait for what the stack is now.
Waiting(c, L, J) ==
    \A j \in J : /\ c.code[j].op \in {"jump", "branch"}
                 /\ c.code[j].op = "jump" \/ c.code[j].leaves = 0 => L[j] = L[End(c)]

WaitingOpen(c, O, J) ==
    \A j \in J : c.code[j].op = "jump" \/ c.code[j].leaves = 0 => O[j] \subseteq O[End(c)]

PatchedIn(c, bs, e) ==
    /\ Fits(e, bs) /\ Reuses(c, e) /\ e \in Compilers /\ (Inner(e) <=> Inner(c))
    /\ e.locals = c.locals /\ e.scopeDepth = c.scopeDepth /\ End(e) = End(c)

LEMMA PatchLeads ==
    ASSUME NEW c, NEW bs, Fits(c, bs), NEW J \in SUBSET (1 .. Len(c.code)),
           \A j \in J : c.code[j].op \in {"jump", "branch"},
           \A L : Ready(c, bs, L) => Waiting(c, L, J),
           \A L, O : Ready(c, bs, L) /\ Tracked(c, bs, L, O) => WaitingOpen(c, O, J)
    PROVE  Leads(c, bs, Patch(c, J, End(c)), bs)
<1>1. PICK e : e = Patch(c, J, End(c))
  OBVIOUS
<1>2. ASSUME NEW L, Ready(c, bs, L)
      PROVE  \E M : /\ Ready(e, bs, M)
                    /\ \A O : Tracked(c, bs, L, O) => \E P : Tracked(e, bs, M, P)
  <2>1. \A j \in J : /\ c.code[j].op \in {"jump", "branch"}
                     /\ c.code[j].op = "jump" \/ c.code[j].leaves = 0 => L[j] = L[End(c)]
    BY <1>2 DEF Waiting
  <2>2. /\ Ready(e, bs, L)
        /\ \A O : /\ Tracked(c, bs, L, O)
                  /\ \A j \in J : c.code[j].op = "jump" \/ c.code[j].leaves = 0 => O[j] \subseteq O[End(c)]
                  => Tracked(e, bs, L, O)
    BY <1>1, <1>2, <2>1, PatchReady
  <2>3. ASSUME NEW O, Tracked(c, bs, L, O) PROVE Tracked(e, bs, L, O)
    <3>1. \A j \in J : c.code[j].op = "jump" \/ c.code[j].leaves = 0 => O[j] \subseteq O[End(c)]
      BY <1>2, <2>3 DEF WaitingOpen
    <3> QED
      BY <2>2, <2>3, <3>1
  <2> QED
    BY <2>2, <2>3
<1> QED
  BY <1>1, <1>2 DEF Leads

LEMMA PatchedIs ==
    ASSUME NEW c, NEW bs, Fits(c, bs), NEW J \in SUBSET (1 .. Len(c.code)),
           \A j \in J : c.code[j].op \in {"jump", "branch"}
    PROVE  PatchedIn(c, bs, Patch(c, J, End(c)))
<1>1. PICK e : e = Patch(c, J, End(c))
  OBVIOUS
<1>2. c \in Compilers /\ End(c) \in Nat
  BY FitsIs, CompilerIs
<1>3. \A p \in J : p \in 1 .. Len(c.code) => c.code[p].op \in {"jump", "branch"}
  OBVIOUS
<1>4. /\ e \in Compilers
      /\ e.locals = c.locals /\ e.upvalues = c.upvalues /\ e.scopeDepth = c.scopeDepth
      /\ Len(e.code) = Len(c.code)
  <2>1. LET x == Patch(c, J, End(c))
        IN  /\ x \in Compilers
            /\ x.locals = c.locals /\ x.upvalues = c.upvalues /\ x.scopeDepth = c.scopeDepth
            /\ x.params = c.params
            /\ Len(x.code) = Len(c.code)
            /\ \A p \in 1 .. Len(c.code) :
                  /\ p \notin J => x.code[p] = c.code[p]
                  /\ p \in J => /\ x.code[p].op = c.code[p].op /\ x.code[p].to = End(c)
                                /\ c.code[p].op = "branch" => x.code[p].leaves = c.code[p].leaves
    BY <1>2, <1>3, PatchIs
  <2> QED
    BY <1>1, <2>1
<1>5. Reuses(c, e)
  BY <1>1, <1>2, <1>3, PatchReuses
<1>6. Fits(e, bs) /\ (Inner(e) <=> Inner(c))
  BY <1>4, SameNow
<1> QED
  BY <1>1, <1>4, <1>5, <1>6 DEF PatchedIn, End

-----------------------------------------------------------------------------
(* Loops that end                                                          *)

Sound(c, bs) == \E L : Ready(c, bs, L)

LEMMA SoundOn ==
    ASSUME NEW c, NEW bs, Sound(c, bs), NEW e, NEW bb, Leads(c, bs, e, bb)
    PROVE  Sound(e, bb)
BY DEF Sound, Leads

LoopAt(c, L, t, b) ==
    /\ b.start \in 1 .. Len(c.code) /\ c.code[b.start].op = "branch" /\ c.code[b.start].leaves = 0
    /\ L[b.start] = Slots(c, t - 1)
    /\ \A j \in b.breaks :
          j \in 1 .. Len(c.code) /\ c.code[j].op = "jump" /\ L[j] = Slots(c, b.breakDepth)
    /\ b.own = Temp => b.breakDepth = t - 1
    /\ b.own # Temp => t > 2 /\ b.breakDepth = t - 2

LEMMA LoopAtIs ==
    ASSUME NEW c, NEW bs, NEW L, Ready(c, bs, L), NEW t \in 1 .. Len(bs), bs[t].kind = "loop"
    PROVE  LoopAt(c, L, t, bs[t])
<1>1. BlockLaid(bs[t], t, c, L)
  BY DEF Ready, Laid
<1> QED
  BY <1>1 DEF BlockLaid, LoopAt

LEMMA LoopOpenIs ==
    ASSUME NEW c, NEW bs, NEW L, Ready(c, bs, L), NEW O, Tracked(c, bs, L, O),
           NEW t \in 1 .. Len(bs), bs[t].kind = "loop"
    PROVE  \A j \in {bs[t].start} \union bs[t].breaks : O[j] \subseteq O[End(c)]
<1>1. Pending(bs[t], c) = {bs[t].start} \union bs[t].breaks
  BY DEF Pending
<1> QED
  BY <1>1 DEF Tracked, OpenLaid, Covers

\* b is the last block, a loop whose scope is left.
LoopLeft(c, bs, t, b) ==
    t \in Nat /\ t = Len(bs) /\ t > 0 /\ t \in 1 .. Len(bs) /\ b = bs[t]
    /\ b.kind = "loop" /\ c.scopeDepth = t - 1

LEMMA ExitLeads ==
    ASSUME NEW c, NEW bs, Fits(c, bs), Sound(c, bs), NEW t, NEW b, LoopLeft(c, bs, t, b)
    PROVE  /\ Leads(c, bs, Patch(c, {b.start}, End(c)), bs)
           /\ PatchedIn(c, bs, Patch(c, {b.start}, End(c)))
<1>1. t \in 1 .. Len(bs) /\ b = bs[t] /\ bs[t].kind = "loop" /\ c.scopeDepth = t - 1
  BY DEF LoopLeft
<1>2. \A L : Ready(c, bs, L) => LoopAt(c, L, t, b)
  BY <1>1, LoopAtIs
<1>3. b.start \in 1 .. Len(c.code) /\ c.code[b.start].op = "branch"
  BY <1>2 DEF Sound, LoopAt
<1>4. {b.start} \in SUBSET (1 .. Len(c.code)) /\ \A j \in {b.start} : c.code[j].op \in {"jump", "branch"}
  BY <1>3
<1>5. ASSUME NEW L, Ready(c, bs, L) PROVE Waiting(c, L, {b.start})
  <2>1. L[b.start] = Slots(c, t - 1) /\ L[End(c)] = Slots(c, c.scopeDepth)
    BY <1>2, <1>5 DEF LoopAt, Ready
  <2> QED
    BY <1>1, <1>4, <2>1 DEF Waiting
<1>6. ASSUME NEW L, NEW O, Ready(c, bs, L) /\ Tracked(c, bs, L, O)
      PROVE  WaitingOpen(c, O, {b.start})
  <2>1. \A j \in {b.start} \union b.breaks : O[j] \subseteq O[End(c)]
    BY <1>1, <1>6, LoopOpenIs
  <2> QED
    BY <2>1 DEF WaitingOpen
<1>7. PICK J \in SUBSET (1 .. Len(c.code)) : J = {b.start}
  BY <1>4
<1>8. Leads(c, bs, Patch(c, J, End(c)), bs)
  BY <1>4, <1>5, <1>6, <1>7, PatchLeads
<1>9. PatchedIn(c, bs, Patch(c, J, End(c)))
  BY <1>4, <1>7, PatchedIs
<1> QED
  BY <1>7, <1>8, <1>9

LEMMA BreaksLeads ==
    ASSUME NEW c, NEW bs, Fits(c, bs), Sound(c, bs), NEW t, NEW b, LoopLeft(c, bs, t, b), b.own = Temp
    PROVE  /\ Leads(c, bs, Patch(c, b.breaks, End(c)), bs)
           /\ PatchedIn(c, bs, Patch(c, b.breaks, End(c)))
<1>1. t \in 1 .. Len(bs) /\ b = bs[t] /\ bs[t].kind = "loop" /\ c.scopeDepth = t - 1
  BY DEF LoopLeft
<1>2. \A L : Ready(c, bs, L) => LoopAt(c, L, t, b)
  BY <1>1, LoopAtIs
<1>3. \A j \in b.breaks : j \in 1 .. Len(c.code) /\ c.code[j].op = "jump"
  BY <1>2 DEF Sound, LoopAt
<1>4. b.breaks \in SUBSET (1 .. Len(c.code)) /\ \A j \in b.breaks : c.code[j].op \in {"jump", "branch"}
  BY <1>3
<1>5. ASSUME NEW L, Ready(c, bs, L) PROVE Waiting(c, L, b.breaks)
  <2>1. \A j \in b.breaks : L[j] = Slots(c, t - 1)
    BY <1>2, <1>5 DEF LoopAt
  <2>2. L[End(c)] = Slots(c, c.scopeDepth)
    BY <1>5 DEF Ready
  <2> QED
    BY <1>1, <1>4, <2>1, <2>2 DEF Waiting
<1>6. ASSUME NEW L, NEW O, Ready(c, bs, L) /\ Tracked(c, bs, L, O)
      PROVE  WaitingOpen(c, O, b.breaks)
  <2>1. \A j \in {b.start} \union b.breaks : O[j] \subseteq O[End(c)]
    BY <1>1, <1>6, LoopOpenIs
  <2> QED
    BY <2>1 DEF WaitingOpen
<1>7. PICK J \in SUBSET (1 .. Len(c.code)) : J = b.breaks
  BY <1>4
<1>8. Leads(c, bs, Patch(c, J, End(c)), bs)
  BY <1>4, <1>5, <1>6, <1>7, PatchLeads
<1>9. PatchedIn(c, bs, Patch(c, J, End(c)))
  BY <1>4, <1>7, PatchedIs
<1> QED
  BY <1>7, <1>8, <1>9

\* The scope of a loop is left, it jumps back, and its end is known.
RoundEnds(c, bs, b, e, bb) ==
    /\ Here(e, bb) /\ Leads(c, bs, e, bs) /\ Fits(e, bs) /\ Reuses(c, e) /\ LoopLeft(e, bs, Len(bs), b)

Ended(c, b) == Patch(Emit(EndScope(c), <<Jump(b.start)>>), {b.start},
                     End(Emit(EndScope(c), <<Jump(b.start)>>)))

LEMMA RoundIs ==
    ASSUME NEW c, NEW bs, Here(c, bs), Sound(c, bs), Len(bs) > 1,
           NEW b, b = bs[Len(bs)], b.kind = "loop",
           NEW bb \in Seq(Constructs), Shortens(bs, bb)
    PROVE  RoundEnds(c, bs, b, Ended(c, b), bb)
<1>1. /\ c \in Compilers /\ ~Inner(c) /\ Sorted(c) /\ Fits(c, bs) /\ Len(bs) \in Nat
      /\ Len(bs) = c.scopeDepth /\ c.scopeDepth > 0 /\ c.scopeDepth \in Nat
  BY HereIs
<1>2. PICK t \in Nat : t = Len(bs) /\ t > 0 /\ t \in 1 .. Len(bs) /\ t <= t
  <2>1. \A x \in Nat : x > 1 => x > 0 /\ x \in 1 .. x /\ x <= x
    OBVIOUS
  <2> QED
    BY <1>1, <2>1
<1>3. PICK d : d = EndScope(c)
  OBVIOUS
<1>4. Leads(c, bs, d, bs) /\ Fits(d, bs)
  <2>1. Len(bs) = c.scopeDepth => bs[Len(bs)].kind # "match"
    OBVIOUS
  <2>2. PICK L : Ready(c, bs, L)
    BY DEF Sound
  <2> QED
    BY <1>1, <1>2, <1>3, <2>1, <2>2, EndScopeLeads, EndScopeLaid
<1>5. Here(d, bb) /\ Reuses(c, d)
  BY <1>3, EndScopeNamed
<1>6. d.scopeDepth = t - 1 /\ ~Inner(d)
  <2>1. ScopeLeft(c, d)
    BY <1>1, <1>3, EndScopeIs
  <2> QED
    BY <1>1, <1>2, <2>1 DEF ScopeLeft
<1>7. PICK g : g = Emit(d, <<Jump(b.start)>>)
  OBVIOUS
<1>8. JumpedBack(d, bs, g)
  BY <1>2, <1>4, <1>6, <1>7, JumpBackLeads
<1>9. /\ Leads(d, bs, g, bs) /\ Fits(g, bs) /\ Reuses(d, g) /\ g \in Compilers
      /\ g.locals = d.locals /\ g.scopeDepth = d.scopeDepth /\ (Inner(g) <=> Inner(d))
  BY <1>8 DEF JumpedBack
<1>10. Leads(c, bs, g, bs) /\ Reuses(c, g) /\ Sound(g, bs)
  BY <1>4, <1>5, <1>9, LeadsOn, ReusesOn, SoundOn
<1>11. LoopLeft(g, bs, t, b)
  BY <1>2, <1>6, <1>9 DEF LoopLeft
<1>12. PICK e : e = Patch(g, {b.start}, End(g))
  OBVIOUS
<1>13. Leads(g, bs, e, bs) /\ PatchedIn(g, bs, e)
  BY <1>9, <1>10, <1>11, <1>12, ExitLeads
<1>14. /\ Fits(e, bs) /\ Reuses(g, e) /\ e \in Compilers
       /\ e.locals = g.locals /\ e.scopeDepth = g.scopeDepth
  BY <1>13 DEF PatchedIn
<1>15. Here(g, bb)
  BY <1>5, <1>9, HereSame
<1>16. Here(e, bb)
  BY <1>14, <1>15, HereSame
<1>17. Leads(c, bs, e, bs) /\ Reuses(c, e)
  BY <1>10, <1>13, <1>14, LeadsOn, ReusesOn
<1>18. LoopLeft(e, bs, Len(bs), b)
  BY <1>2, <1>11, <1>14 DEF LoopLeft
<1>19. e = Ended(c, b)
  BY <1>3, <1>7, <1>12 DEF Ended
<1> QED
  BY <1>14, <1>16, <1>17, <1>18, <1>19 DEF RoundEnds

LEMMA EndWhileBecomes ==
    ASSUME NEW c, NEW bs, Here(c, bs), Sound(c, bs), Len(bs) > 1,
           NEW b, b = bs[Len(bs)], b.kind = "loop", b.own = Temp,
           NEW bb \in Seq(Constructs), Shortens(bs, bb)
    PROVE  Becomes(c, bs, Patch(Ended(c, b), b.breaks, End(Ended(c, b))), bb)
<1>1. PICK d : d = Ended(c, b)
  OBVIOUS
<1>2. RoundEnds(c, bs, b, d, bb)
  BY <1>1, RoundIs
<1>3. Here(d, bb) /\ Leads(c, bs, d, bs) /\ Fits(d, bs) /\ Reuses(c, d) /\ LoopLeft(d, bs, Len(bs), b)
  BY <1>2 DEF RoundEnds
<1>4. Sound(d, bs)
  BY <1>3, SoundOn
<1>5. PICK e : e = Patch(d, b.breaks, End(d))
  OBVIOUS
<1>6. Leads(d, bs, e, bs) /\ PatchedIn(d, bs, e)
  BY <1>3, <1>4, <1>5, BreaksLeads
<1>7. Reuses(d, e) /\ e \in Compilers /\ e.locals = d.locals /\ e.scopeDepth = d.scopeDepth
  BY <1>6 DEF PatchedIn
<1>8. Here(e, bb)
  BY <1>3, <1>7, HereSame
<1>9. Len(bs) \in Nat /\ Len(bs) > 0
  BY <1>3 DEF LoopLeft
<1>10. Leads(e, bs, e, bb)
  BY <1>9, ShortenLeads
<1>11. Leads(c, bs, e, bb) /\ Reuses(c, e)
  <2>1. Leads(c, bs, e, bs)
    BY <1>3, <1>6, LeadsOn
  <2> QED
    BY <1>3, <1>7, <1>10, <2>1, LeadsOn, ReusesOn
<1> QED
  BY <1>1, <1>5, <1>8, <1>11 DEF Becomes

\* The loop b at t has a variable of its own, whose scope is left too.
ForLeft(c, bs, bb, t, b) ==
    /\ LoopLeft(c, bs, t, b) /\ b.own # Temp /\ ~Inner(c) /\ Fits(c, bs) /\ Fits(c, bb)
    /\ t - 2 \in Nat /\ Len(bb) = t - 2 /\ \A i \in 1 .. Len(bb) : bb[i] = bs[i]

BreaksWait(c, bs, L, e, bb, J) ==
    \E M : /\ Ready(e, bb, M) /\ Waiting(e, M, J) /\ J \in SUBSET (1 .. Len(e.code))
           /\ \A O : Tracked(c, bs, L, O) => \E P : Tracked(e, bb, M, P) /\ WaitingOpen(e, P, J)

LEMMA BreaksWaitIs ==
    ASSUME NEW c, NEW bs, NEW bb, NEW t, NEW b, ForLeft(c, bs, bb, t, b), NEW L, Ready(c, bs, L)
    PROVE  BreaksWait(c, bs, L, EndScope(c), bb, b.breaks)
<1>1. /\ t \in 1 .. Len(bs) /\ b = bs[t] /\ bs[t].kind = "loop" /\ c.scopeDepth = t - 1
      /\ ~Inner(c) /\ Fits(c, bs) /\ Fits(c, bb) /\ t - 2 \in Nat /\ Len(bb) = t - 2
      /\ \A i \in 1 .. Len(bb) : bb[i] = bs[i]
      /\ b.own # Temp /\ Len(bs) = t /\ t \in Nat
  BY DEF ForLeft, LoopLeft
<1>2. PICK s : s = t - 2 /\ s \in Nat /\ c.scopeDepth = s + 1 /\ c.scopeDepth - 1 = s /\ c.scopeDepth > 0
               /\ s <= c.scopeDepth /\ s # c.scopeDepth /\ s <= t
  <2>1. t \in Nat /\ t - 2 \in Nat
    BY <1>1
  <2>2. \A x \in Nat : x - 2 \in Nat => /\ x - 1 = (x - 2) + 1 /\ (x - 1) - 1 = x - 2 /\ x - 1 > 0
                                        /\ x - 2 <= x - 1 /\ x - 2 # x - 1 /\ x - 2 <= x
    OBVIOUS
  <2> QED
    BY <1>1, <2>1, <2>2
<1>3. c \in Compilers /\ Sorted(c) /\ Len(bs) \in Nat /\ Len(bb) \in Nat
  BY <1>1, FitsIs
<1>4. PICK e : e = EndScope(c)
  OBVIOUS
<1>5. ScopeLeft(c, e)
  BY <1>1, <1>2, <1>3, <1>4, EndScopeIs
<1>6. Ready(c, bb, L) /\ \A O : Tracked(c, bs, L, O) => Tracked(c, bb, L, O)
  <2>1. Laid(c, bs, L)
    BY DEF Ready
  <2>2. \A d \in 1 .. Len(bb) : SameWait(bs[d], bb[d])
    BY <1>1 DEF SameWait
  <2>3. Len(bb) <= Len(bs)
    BY <1>1, <1>2
  <2>4. Laid(c, bb, L) /\ \A O : OpenLaid(c, bs, L, O) => OpenLaid(c, bb, L, O)
    BY <1>3, <2>1, <2>2, <2>3, WaitLaid
  <2> QED
    BY <2>4 DEF Ready, Tracked
<1>7. LeavesScope(c, bb, L, e, s)
  <2>1. Len(bb) <= c.scopeDepth /\ (Len(bb) = c.scopeDepth => bb[Len(bb)].kind # "match")
    BY <1>1, <1>2
  <2>2. LeavesScope(c, bb, L, EndScope(c), c.scopeDepth - 1)
    BY <1>1, <1>2, <1>6, <2>1, EndScopeLaid
  <2> QED
    BY <1>2, <1>4, <2>2
<1>8. PICK M : /\ Ready(e, bb, M)
               /\ \A p \in 1 .. Len(c.code) + 1 : M[p] = L[p]
               /\ \A O : Tracked(c, bb, L, O) =>
                     \E P : /\ Tracked(e, bb, M, P)
                            /\ \A p \in 1 .. Len(c.code) + 1 : P[p] = O[p]
                            /\ P[End(e)] = O[End(c)] \cap 1 .. Base(c, s)
  BY <1>7 DEF LeavesScope
<1>9. LoopAt(c, L, t, b)
  BY <1>1, LoopAtIs
<1>10. \A j \in b.breaks : /\ j \in 1 .. Len(c.code) /\ c.code[j].op = "jump" /\ L[j] = Slots(c, s)
                           /\ j \in 1 .. Len(c.code) + 1
                           /\ j \in 1 .. Len(e.code) /\ e.code[j] = c.code[j]
  <2>1. b.breakDepth = s
    BY <1>1, <1>2, <1>9 DEF LoopAt
  <2>2. \A j \in b.breaks : j \in 1 .. Len(c.code) /\ c.code[j].op = "jump" /\ L[j] = Slots(c, s)
    BY <1>9, <2>1 DEF LoopAt
  <2>3. PICK xs \in Seq(Instructions) : Grown(c, e, xs)
    BY <1>1, <1>2, <1>3, <1>5, CleanupIs DEF ScopeLeft
  <2>4. \A p \in 1 .. Len(c.code) :
                 /\ p \in 1 .. Len(e.code) /\ e.code[p] = c.code[p]
                 /\ p \in 1 .. Len(c.code) + 1 /\ p + 1 \in 1 .. Len(c.code) + 1
    BY <1>3, <1>5, <2>3, GrownIs DEF ScopeLeft
  <2> QED
    BY <2>2, <2>4
<1>11. M[End(e)] = Slots(c, s)
  <2>1. M[End(e)] = Slots(e, e.scopeDepth) /\ e.scopeDepth = s
    BY <1>2, <1>5, <1>8 DEF Ready, ScopeLeft
  <2>2. s \in 0 .. c.scopeDepth - 1
    BY <1>2
  <2>3. Slots(e, s) = Slots(c, s)
    BY <1>5, <2>2 DEF ScopeLeft, SameUpTo
  <2> QED
    BY <2>1, <2>3
<1>12. Waiting(e, M, b.breaks)
  BY <1>8, <1>10, <1>11, Zenon DEF Waiting
<1>13. ASSUME NEW O, Tracked(c, bs, L, O) PROVE \E P : Tracked(e, bb, M, P) /\ WaitingOpen(e, P, b.breaks)
  <2>1. Tracked(c, bb, L, O)
    BY <1>6, <1>13
  <2>2. PICK P : /\ Tracked(e, bb, M, P)
                 /\ \A p \in 1 .. Len(c.code) + 1 : P[p] = O[p]
                 /\ P[End(e)] = O[End(c)] \cap 1 .. Base(c, s)
    BY <1>8, <2>1
  <2>3. \A j \in {b.start} \union b.breaks : O[j] \subseteq O[End(c)]
    BY <1>1, <1>13, LoopOpenIs
  <2>4. \A j \in b.breaks : O[j] \subseteq 1 .. Len(L[j])
    BY <1>10, <1>13 DEF Tracked, OpenLaid, OpenFlow
  <2>5. Len(Slots(c, s)) = Base(c, s)
    BY <1>2, <1>3, BaseIs
  <2>6. \A j \in b.breaks : P[j] \subseteq P[End(e)]
    BY <1>10, <2>2, <2>3, <2>4, <2>5
  <2> QED
    BY <2>2, <2>6 DEF WaitingOpen
<1> QED
  BY <1>4, <1>8, <1>10, <1>12, <1>13 DEF BreaksWait

\* Out of a loop with a variable of its own.
LEMMA EndForBecomes ==
    ASSUME NEW c, NEW bs, Here(c, bs), Sound(c, bs), Len(bs) > 1,
           NEW b, b = bs[Len(bs)], b.kind = "loop", b.own # Temp,
           NEW ba \in Seq(Constructs), Shortens(bs, ba), NEW bb \in Seq(Constructs), Shortens(ba, bb)
    PROVE  Becomes(c, bs, Patch(EndScope(Ended(c, b)), b.breaks, End(EndScope(Ended(c, b)))), bb)
<1>1. PICK d : d = Ended(c, b)
  OBVIOUS
<1>2. RoundEnds(c, bs, b, d, ba)
  BY <1>1, RoundIs
<1>3. Here(d, ba) /\ Leads(c, bs, d, bs) /\ Fits(d, bs) /\ Reuses(c, d) /\ LoopLeft(d, bs, Len(bs), b)
  BY <1>2 DEF RoundEnds
<1>4. Sound(d, bs)
  BY <1>3, SoundOn
<1>5. PICK t \in Nat : t = Len(bs) /\ t > 2 /\ t - 2 \in Nat /\ t - 1 > 1 /\ (t - 1) - 1 = t - 2
                       /\ t - 1 \in Nat /\ d.scopeDepth = t - 1 /\ t - 2 <= t - 1
  <2>1. Len(bs) \in Nat /\ Len(bs) \in 1 .. Len(bs) /\ bs[Len(bs)].kind = "loop"
        /\ d.scopeDepth = Len(bs) - 1
    BY <1>3 DEF LoopLeft
  <2>2. PICK L : Ready(d, bs, L)
    BY <1>4 DEF Sound
  <2>3. LoopAt(d, L, Len(bs), b)
    BY <2>1, <2>2, LoopAtIs
  <2>4. Len(bs) > 2
    BY <2>3 DEF LoopAt
  <2>5. \A x \in Nat : x > 2 => x - 2 \in Nat /\ x - 1 > 1 /\ (x - 1) - 1 = x - 2 /\ x - 1 \in Nat
                                /\ x - 2 <= x - 1
    OBVIOUS
  <2> QED
    BY <2>1, <2>4, <2>5
<1>6. /\ Len(ba) = t - 1 /\ Len(ba) > 1 /\ Len(bb) = t - 2
      /\ \A i \in 1 .. Len(ba) : ba[i] = bs[i]
      /\ \A i \in 1 .. Len(bb) : i \in 1 .. Len(ba) /\ bb[i] = ba[i]
  <2>1. /\ Len(ba) = t - 1 /\ Len(bb) = t - 2
        /\ \A i \in 1 .. Len(ba) : ba[i] = bs[i]
        /\ \A i \in 1 .. Len(bb) : bb[i] = ba[i]
    BY <1>5 DEF Shortens
  <2>2. \A x \in Nat : x > 2 => \A i \in 1 .. x - 2 : i \in 1 .. x - 1
    OBVIOUS
  <2> QED
    BY <1>5, <2>1, <2>2
<1>7. PICK e : e = EndScope(d)
  OBVIOUS
<1>8. Here(e, bb) /\ Reuses(d, e)
  BY <1>3, <1>6, <1>7, EndScopeNamed
<1>9. ForLeft(d, bs, bb, t, b)
  <2>1. ~Inner(d) /\ Fits(d, ba)
    BY <1>3, HereIs
  <2>2. Fits(d, bb)
    <3>1. \A i \in 1 .. Len(ba) : i - 1 <= d.scopeDepth /\ (ba[i].kind = "match" => i <= d.scopeDepth)
      BY <2>1 DEF Fits
    <3>2. d \in Compilers /\ Sorted(d)
      BY <2>1, FitsIs
    <3>3. \A i \in 1 .. Len(bb) : i - 1 <= d.scopeDepth /\ (bb[i].kind = "match" => i <= d.scopeDepth)
      BY <1>6, <3>1
    <3> QED
      BY <3>2, <3>3 DEF Fits
  <2>3. LoopLeft(d, bs, t, b)
    BY <1>3, <1>5
  <2>4. t - 2 \in Nat /\ Len(bb) = t - 2 /\ \A i \in 1 .. Len(bb) : bb[i] = bs[i]
    BY <1>5, <1>6
  <2> QED
    BY <1>3, <2>1, <2>2, <2>3, <2>4 DEF ForLeft
<1>10. \A L : Ready(d, bs, L) => BreaksWait(d, bs, L, e, bb, b.breaks)
  BY <1>7, <1>9, BreaksWaitIs
<1>11. PICK J \in SUBSET (1 .. Len(e.code)) : J = b.breaks /\ \A j \in J : e.code[j].op \in {"jump", "branch"}
  BY <1>4, <1>10 DEF Sound, BreaksWait, Waiting
<1>12. Fits(e, bb)
  BY <1>8, HereIs
<1>13. PICK f : f = Patch(e, J, End(e))
  OBVIOUS
<1>14. PatchedIn(e, bb, f)
  BY <1>11, <1>12, <1>13, PatchedIs
<1>15. Leads(d, bs, f, bb)
  <2>1. SUFFICES ASSUME NEW L, Ready(d, bs, L)
                 PROVE  \E M : /\ Ready(f, bb, M)
                               /\ \A O : Tracked(d, bs, L, O) => \E P : Tracked(f, bb, M, P)
    BY DEF Leads
  <2>2. PICK M : /\ Ready(e, bb, M) /\ Waiting(e, M, J)
                 /\ \A O : Tracked(d, bs, L, O) => \E P : Tracked(e, bb, M, P) /\ WaitingOpen(e, P, J)
    BY <1>10, <1>11, <2>1 DEF BreaksWait
  <2>3. \A j \in J : /\ e.code[j].op \in {"jump", "branch"}
                     /\ e.code[j].op = "jump" \/ e.code[j].leaves = 0 => M[j] = M[End(e)]
    BY <2>2 DEF Waiting
  <2>4. /\ Ready(f, bb, M)
        /\ \A O : /\ Tracked(e, bb, M, O)
                  /\ \A j \in J : e.code[j].op = "jump" \/ e.code[j].leaves = 0 => O[j] \subseteq O[End(e)]
                  => Tracked(f, bb, M, O)
    BY <1>12, <1>13, <2>2, <2>3, PatchReady
  <2>5. ASSUME NEW O, Tracked(d, bs, L, O) PROVE \E P : Tracked(f, bb, M, P)
    <3>1. PICK P : Tracked(e, bb, M, P) /\ WaitingOpen(e, P, J)
      BY <2>2, <2>5
    <3>2. \A j \in J : e.code[j].op = "jump" \/ e.code[j].leaves = 0 => P[j] \subseteq P[End(e)]
      BY <3>1 DEF WaitingOpen
    <3> QED
      BY <2>4, <3>1, <3>2
  <2> QED
    BY <2>4, <2>5
<1>16. Here(f, bb)
  BY <1>8, <1>14, HereSame DEF PatchedIn
<1>17. Leads(c, bs, f, bb)
  BY <1>3, <1>15, LeadsOn
<1>18. Reuses(c, f)
  BY <1>3, <1>8, <1>14, ReusesOn DEF PatchedIn
<1> QED
  BY <1>1, <1>7, <1>11, <1>13, <1>16, <1>17, <1>18 DEF Becomes

-----------------------------------------------------------------------------
(* Loops that are left                                                     *)

\* A break or continue leaves the last loop, a, at t, to the scopes up to d.
LeavesLoop(c, bs, t, a, d, to, m) ==
    /\ t \in 1 .. Len(bs) /\ a = bs[t] /\ a.kind = "loop"
    /\ \A k \in 1 .. Len(bs) : bs[k].kind = "loop" => k <= t
    /\ d = a.continueDepth \/ d = a.breakDepth
    /\ to = 0 \/ (to = a.start /\ d = a.continueDepth)
    /\ m \in Nat /\ m = Len(c.locals) - Base(c, d)
    /\ \A g \in 1 .. Len(c.locals) :
           c.locals[g].var = a.own /\ a.own # Temp /\ c.locals[g].captured = FALSE
           => d = a.continueDepth \/ a.left = TRUE

\* The places that a loop leads to.
LoopDepths(c, t, a) ==
    /\ a.continueDepth = t - 1 /\ t > 1
    /\ a.own = Temp => a.breakDepth = t - 1
    /\ a.own # Temp =>
          /\ t > 2 /\ a.breakDepth = t - 2
          /\ Base(c, t - 1) = Base(c, t - 2) + 1
          /\ c.locals[Base(c, t - 1)].var = a.own

LEMMA LoopDepthsIs ==
    ASSUME NEW c, NEW bs, NEW L, Laid(c, bs, L), NEW t \in 1 .. Len(bs), bs[t].kind = "loop"
    PROVE  LoopDepths(c, t, bs[t])
<1>1. BlockLaid(bs[t], t, c, L)
  BY DEF Laid
<1> QED
  BY <1>1 DEF BlockLaid, LoopDepths

LEMMA LeavesLoopFor ==
    ASSUME NEW c, NEW bs, Here(c, bs), NEW L, Laid(c, bs, L), NEW t, NEW a, NEW d, NEW to \in Nat,
           NEW m, LeavesLoop(c, bs, t, a, d, to, m)
    PROVE  LeavesFor(c, bs, d, to, m) /\ d \in Nat
<1>1. /\ t \in 1 .. Len(bs) /\ a = bs[t] /\ a.kind = "loop"
      /\ \A k \in 1 .. Len(bs) : bs[k].kind = "loop" => k <= t
      /\ d = a.continueDepth \/ d = a.breakDepth
      /\ to = 0 \/ (to = a.start /\ d = a.continueDepth)
      /\ m \in Nat /\ m = Len(c.locals) - Base(c, d)
      /\ \A g \in 1 .. Len(c.locals) :
             c.locals[g].var = a.own /\ a.own # Temp /\ c.locals[g].captured = FALSE
             => d = a.continueDepth \/ a.left = TRUE
  BY DEF LeavesLoop
<1>2. LoopDepths(c, t, a)
  BY <1>1, LoopDepthsIs
<1>3. /\ c \in Compilers /\ Sorted(c) /\ Len(bs) \in Nat /\ Len(bs) = c.scopeDepth
      /\ \A k \in 1 .. Len(bs) : bs[k] \in Constructs
  BY HereIs
<1>4. PICK n \in Nat : n = Len(c.locals)
  BY <1>3, CompilerIs
<1>5. PICK s \in Nat : s = t - 1 /\ s <= c.scopeDepth /\ a.continueDepth = s
          /\ \A k \in 1 .. Len(bs) : k <= t => k - 1 \in Nat /\ k - 1 <= s
  <2>1. \A y \in Nat : \A x \in 1 .. y : /\ x - 1 \in Nat /\ x - 1 <= y
                                         /\ \A k \in 1 .. y : k <= x => k - 1 \in Nat /\ k - 1 <= x - 1
    OBVIOUS
  <2> QED
    BY <1>1, <1>2, <1>3, <2>1 DEF LoopDepths
<1>6. d \in Nat /\ d <= c.scopeDepth
  <2>1. \A x \in 1 .. Len(bs) : x > 2 => x - 2 \in Nat /\ x - 2 <= c.scopeDepth
    BY <1>3
  <2> QED
    BY <1>1, <1>2, <1>5, <2>1 DEF LoopDepths
<1>7. ASSUME to # 0
      PROVE  /\ \E k \in 1 .. Len(bs) :
                    bs[k].kind = "loop" /\ bs[k].start = to /\ Base(c, k - 1) = Base(c, d)
             /\ \A k \in 1 .. Len(bs) : bs[k].kind = "loop" => bs[k].start <= to
  <2>1. to = a.start /\ d = t - 1
    BY <1>1, <1>5, <1>7
  <2>2. ASSUME NEW k \in 1 .. Len(bs), bs[k].kind = "loop" PROVE bs[k].start <= to
    <3>1. k <= t
      BY <1>1, <2>2
    <3>2. CASE k = t
      BY <1>1, <2>1, <3>2
    <3>3. CASE k < t
      <4>1. bs[k].start < bs[t].start
        BY <1>1, <2>2, <3>3 DEF Laid
      <4>2. bs[k].start \in Nat
        BY <1>3, <2>2, ConstructIs
      <4>3. \A x, y \in Nat : x < y => x <= y
        OBVIOUS
      <4> QED
        BY <1>1, <2>1, <4>1, <4>2, <4>3
    <3> QED
      BY <1>1, <1>3, <3>1, <3>2, <3>3
  <2> QED
    BY <1>1, <2>1, <2>2
<1>8. ASSUME NEW k \in 1 .. Len(bs), bs[k].kind = "loop", NEW g \in Base(c, d) + 1 .. Len(c.locals)
      PROVE  \/ Base(c, k - 1) < g
             \/ c.locals[g].captured = FALSE => bs[k].left = TRUE /\ Base(c, k - 1) = g
  <2>1. k <= t /\ k - 1 \in Nat /\ k - 1 <= s
    BY <1>1, <1>5, <1>8
  <2>2. PICK x \in Nat : x = Base(c, d) /\ g \in Nat /\ g > x /\ g \in 1 .. Len(c.locals)
    <3>1. Base(c, d) \in 0 .. Len(c.locals)
      BY <1>3, <1>6, BaseIs
    <3>2. \A x \in 0 .. n : \A y \in x + 1 .. n : x \in Nat /\ y \in Nat /\ y > x /\ y \in 1 .. n
      OBVIOUS
    <3> QED
      BY <1>4, <1>8, <3>1, <3>2
  <2>3. PICK y \in Nat : y = Base(c, k - 1)
    <3>1. Base(c, k - 1) \in 0 .. n
      BY <1>3, <1>4, <2>1, BaseIs
    <3> QED
      BY <3>1
  <2>4. CASE k - 1 <= d
    <3>1. y <= x
      BY <1>3, <1>6, <2>1, <2>2, <2>3, <2>4, BaseMono
    <3>2. y < g
      BY <2>2, <3>1
    <3> QED
      BY <2>3, <3>2
  <2>5. CASE ~(k - 1 <= d)
    <3>1. d # s
      BY <2>1, <2>5
    <3>2. d = a.breakDepth /\ a.own # Temp /\ d = t - 2
      BY <1>1, <1>2, <1>5, <3>1 DEF LoopDepths
    <3>3. k = t
      <4>1. t \in Nat /\ k \in Nat
        BY <1>1, <1>3
      <4>2. \A u, v \in Nat : v <= u /\ ~(v - 1 <= u - 2) => v = u
        OBVIOUS
      <4> QED
        BY <2>1, <2>5, <3>2, <4>1, <4>2
    <3>4. y = x + 1 /\ c.locals[y].var = a.own
      BY <1>2, <2>2, <2>3, <3>2, <3>3 DEF LoopDepths
    <3>5. CASE g = y
      <4>1. c.locals[g].captured = FALSE => a.left = TRUE
        BY <1>1, <1>5, <2>2, <3>1, <3>2, <3>4, <3>5
      <4> QED
        BY <1>1, <2>3, <3>3, <3>5, <4>1
    <3>6. CASE g # y
      <4>1. y < g
        BY <2>2, <3>4, <3>6
      <4> QED
        BY <2>3, <4>1
    <3> QED
      BY <3>5, <3>6
  <2> QED
    BY <2>4, <2>5
<1> QED
  BY <1>1, <1>6, <1>7, <1>8 DEF LeavesFor

\* The code of a break or continue is that of c and more.
LeaveEmits(c, bs, e, m) ==
    /\ e \in Compilers /\ Fits(e, bs) /\ Here(e, bs) /\ Reuses(c, e)
    /\ e.locals = c.locals /\ e.scopeDepth = c.scopeDepth
    /\ End(c) + 1 + m \in 1 .. Len(e.code) /\ e.code[End(c) + 1 + m].op = "jump"
    /\ End(c) + 1 + m \in Nat

LEMMA LeaveEmitsIs ==
    ASSUME NEW c, NEW bs, Here(c, bs), NEW d, NEW to \in Nat, NEW m \in Nat,
           NEW xs, LeaveCode(c, d, to, m, xs), m = Len(c.locals) - Base(c, d), d \in Nat
    PROVE  LeaveEmits(c, bs, Emit(c, xs), m)
<1>1. /\ c \in Compilers /\ ~Inner(c) /\ Sorted(c) /\ Fits(c, bs)
      /\ xs \in Seq(Instructions) /\ Len(xs) = m + 2 /\ xs[m + 2] = Jump(to)
      /\ xs[1] = Branch(End(c) + 1 + m + 1, 0)
      /\ \A q \in 1 .. m : xs[1 + q] = Discard(c.locals[Len(c.locals) - q + 1])
  BY HereIs DEF LeaveCode
<1>2. PICK e : e = Emit(c, xs)
  OBVIOUS
<1>3. EmittedIn(c, bs, e, xs)
  BY <1>1, <1>2, EmitNow
<1>4. /\ e \in Compilers /\ Grown(c, e, xs) /\ Fits(e, bs)
      /\ e.locals = c.locals /\ e.upvalues = c.upvalues /\ e.scopeDepth = c.scopeDepth
  BY <1>3 DEF EmittedIn
<1>5. Here(e, bs)
  BY <1>4, HereSame
<1>6. PICK n \in Nat : n = Len(c.code) /\ End(c) = n + 1 /\ Len(e.code) = n + (m + 2)
  <2>1. Len(c.code) \in Nat /\ End(c) = Len(c.code) + 1
    BY <1>1, CompilerIs
  <2> QED
    BY <1>1, <1>4, <2>1 DEF Grown
<1>7. n + 1 + 1 + m = n + (m + 2) /\ n + (m + 2) \in 1 .. n + (m + 2) /\ m + 2 \in 1 .. m + 2
      /\ n + (m + 2) \in Nat
  <2>1. \A x, y \in Nat : /\ x + 1 + 1 + y = x + (y + 2) /\ x + (y + 2) \in 1 .. x + (y + 2)
                          /\ y + 2 \in 1 .. y + 2 /\ x + (y + 2) \in Nat
    OBVIOUS
  <2> QED
    BY <2>1
<1>8. e.code[n + (m + 2)] = Jump(to)
  BY <1>1, <1>4, <1>6, <1>7 DEF Grown
<1>9. \A q \in 1 .. Len(xs) : xs[q].op # "upvalue"
  <2> TAKE q \in 1 .. Len(xs)
  <2>1. q = 1 \/ q = m + 2 \/ \E r \in 1 .. m : q = 1 + r
    <3>1. \A y \in Nat : \A x \in 1 .. y + 2 : x = 1 \/ x = y + 2 \/ (x - 1 \in 1 .. y /\ x = 1 + (x - 1))
      OBVIOUS
    <3>2. q \in 1 .. m + 2
      BY <1>1
    <3> QED
      BY <3>1, <3>2
  <2>2. CASE q = 1
    <3>1. xs[q] = Branch(End(c) + 1 + m + 1, 0)
      BY <1>1, <2>2
    <3> QED
      BY <3>1 DEF Branch
  <2>3. CASE q = m + 2
    <3>1. xs[q] = Jump(to)
      BY <1>1, <2>3
    <3> QED
      BY <3>1 DEF Jump
  <2>4. ASSUME NEW r \in 1 .. m, q = 1 + r PROVE xs[q].op # "upvalue"
    <3>1. PICK l \in Nat : l = Len(c.locals)
      BY <1>1, CompilerIs
    <3>2. PICK b \in Nat : b = Base(c, d) /\ b <= l
      <4>1. Base(c, d) \in 0 .. Len(c.locals)
        BY <1>1, BaseIs
      <4> QED
        BY <3>1, <4>1
    <3>3. l - r + 1 \in 1 .. l
      <4>1. m = l - b
        BY <3>1, <3>2
      <4>2. \A x, y \in Nat : \A z \in 1 .. x - y : x - z + 1 \in 1 .. x
        OBVIOUS
      <4> QED
        BY <4>1, <4>2
    <3>4. c.locals[l - r + 1] \in Locals
      BY <1>1, <3>1, <3>3, CompilerIs
    <3>5. Discard(c.locals[l - r + 1]).op \in {"pop", "close"}
      BY <3>4, DiscardIs
    <3>6. xs[q] = Discard(c.locals[l - r + 1])
      BY <1>1, <2>4, <3>1
    <3> QED
      BY <3>5, <3>6
  <2> QED
    BY <2>1, <2>2, <2>3, <2>4
<1>10. Reuses(c, e)
  BY <1>1, <1>4, <1>9, GrownReuses
<1>11. e.code[End(c) + 1 + m].op = "jump"
  <2>1. End(c) + 1 + m = n + (m + 2)
    BY <1>6, <1>7
  <2>2. e.code[n + (m + 2)].op = "jump"
    BY <1>8 DEF Jump
  <2> QED
    BY <2>1, <2>2, Zenon
<1> QED
  BY <1>2, <1>4, <1>5, <1>6, <1>7, <1>10, <1>11 DEF LeaveEmits

\* The breaks and the left of a loop change.
SameLoop(b, a) ==
    /\ b.kind = "loop" /\ a.kind = "loop" /\ a \in Constructs /\ a.decls = b.decls
    /\ a.start = b.start /\ a.breakDepth = b.breakDepth /\ a.continueDepth = b.continueDepth
    /\ a.own = b.own

\* a is the loop b, left or not.
MayLeave(b, a) ==
    /\ SameLoop(b, a) /\ a.breaks = b.breaks
    /\ b.left = TRUE => a.left = TRUE
    /\ b.own = Temp => a.left = b.left

\* a is the loop b with a break at j.
BreaksAt(b, a, j) ==
    /\ SameLoop(b, a) /\ a.breaks = b.breaks \union {j} /\ a.left = b.left

LEMMA MayLeaveLaid ==
    ASSUME NEW b, NEW a, MayLeave(b, a), NEW c, NEW d, NEW L, BlockLaid(b, d, c, L)
    PROVE  BlockLaid(a, d, c, L)
BY DEF MayLeave, SameLoop, BlockLaid

LEMMA BreaksAtLaid ==
    ASSUME NEW b, NEW a, NEW j, BreaksAt(b, a, j), NEW c, NEW d, NEW L, BlockLaid(b, d, c, L),
           j \in 1 .. Len(c.code), c.code[j].op = "jump", L[j] = Slots(c, b.breakDepth)
    PROVE  BlockLaid(a, d, c, L)
BY DEF BreaksAt, SameLoop, BlockLaid

LEMMA MayLeaveReady ==
    ASSUME NEW c, NEW bs, Fits(c, bs), NEW t \in 1 .. Len(bs), NEW a, MayLeave(bs[t], a),
           NEW bb, Replaces(bs, bb, t, a), NEW L, Ready(c, bs, L)
    PROVE  Ready(c, bb, L) /\ \A O : Tracked(c, bs, L, O) => Tracked(c, bb, L, O)
<1>1. Laid(c, bs, L) /\ Len(bs) \in Nat
  BY FitsIs DEF Ready
<1>2. BlockLaid(bs[t], t, c, L)
  BY <1>1 DEF Laid
<1>3. BlockLaid(a, t, c, L)
  BY <1>2, MayLeaveLaid
<1>4. WaitsOn(c, bs, L, t, a)
  BY <1>3 DEF WaitsOn, MayLeave, SameLoop
<1>5. ReplacedLaid(c, bs, bb, L, t, a)
  BY <1>1, <1>4, ReplaceLaid
<1>6. Pending(a, c) = Pending(bs[t], c)
  BY DEF Pending, MayLeave, SameLoop
<1>7. ASSUME NEW O, OpenLaid(c, bs, L, O) PROVE OpenLaid(c, bb, L, O)
  <2>1. \A j \in Pending(a, c) : j \in Pending(bs[t], c) \/ O[j] \subseteq O[End(c)]
    BY <1>6
  <2> QED
    BY <1>5, <1>7, <2>1 DEF ReplacedLaid
<1> QED
  BY <1>5, <1>7 DEF ReplacedLaid, Ready, Tracked

LEMMA BreaksAtReady ==
    ASSUME NEW c, NEW bs, Fits(c, bs), NEW t \in 1 .. Len(bs), NEW j, NEW a, BreaksAt(bs[t], a, j),
           NEW bb, Replaces(bs, bb, t, a), NEW L, Ready(c, bs, L),
           j \in 1 .. Len(c.code), c.code[j].op = "jump", L[j] = Slots(c, bs[t].breakDepth)
    PROVE  /\ Ready(c, bb, L)
           /\ \A O : Tracked(c, bs, L, O) /\ O[j] \subseteq O[End(c)] => Tracked(c, bb, L, O)
<1>1. Laid(c, bs, L) /\ Len(bs) \in Nat
  BY FitsIs DEF Ready
<1>2. BlockLaid(bs[t], t, c, L)
  BY <1>1 DEF Laid
<1>3. BlockLaid(a, t, c, L)
  BY <1>2, BreaksAtLaid
<1>4. WaitsOn(c, bs, L, t, a)
  BY <1>3 DEF WaitsOn, BreaksAt, SameLoop
<1>5. ReplacedLaid(c, bs, bb, L, t, a)
  BY <1>1, <1>4, ReplaceLaid
<1>6. Pending(a, c) = Pending(bs[t], c) \union {j}
  BY DEF Pending, BreaksAt, SameLoop
<1>7. ASSUME NEW O, OpenLaid(c, bs, L, O), O[j] \subseteq O[End(c)] PROVE OpenLaid(c, bb, L, O)
  <2>1. \A i \in Pending(a, c) : i \in Pending(bs[t], c) \/ O[i] \subseteq O[End(c)]
    BY <1>6, <1>7
  <2> QED
    BY <1>5, <1>7, <2>1 DEF ReplacedLaid
<1> QED
  BY <1>5, <1>7 DEF ReplacedLaid, Ready, Tracked

\* What the break or continue knows of the loop a at t that it leaves from c.
Leaves(c, bs, t, a, d, to, m, xs) ==
    /\ LeavesLoop(c, bs, t, a, d, to, m) /\ LeaveCode(c, d, to, m, xs)

LEMMA LeavesReady ==
    ASSUME NEW c, NEW bs, Here(c, bs), NEW L, Ready(c, bs, L), NEW t, NEW a, NEW d, NEW to \in Nat,
           NEW m, NEW xs, Leaves(c, bs, t, a, d, to, m, xs)
    PROVE  JumpsOut(c, bs, L, Emit(c, xs), d, End(c) + 1 + m)
<1>1. Laid(c, bs, L) /\ LeavesLoop(c, bs, t, a, d, to, m) /\ LeaveCode(c, d, to, m, xs)
  BY DEF Ready, Leaves
<1>2. LeavesFor(c, bs, d, to, m) /\ d \in Nat
  BY <1>1, LeavesLoopFor
<1>3. Fits(c, bs) /\ ~Inner(c)
  BY HereIs
<1> QED
  BY <1>1, <1>2, <1>3, LeaveLaid

LEMMA ContinueBecomes ==
    ASSUME NEW c, NEW bs, Here(c, bs), Sound(c, bs), NEW t, NEW a, NEW d, NEW to \in Nat, NEW m, NEW xs,
           Leaves(c, bs, t, a, d, to, m, xs)
    PROVE  Becomes(c, bs, Emit(c, xs), bs)
<1>1. LeavesLoop(c, bs, t, a, d, to, m) /\ LeaveCode(c, d, to, m, xs)
  BY DEF Leaves
<1>2. PICK L : Ready(c, bs, L)
  BY DEF Sound
<1>3. d \in Nat
  BY <1>1, <1>2, LeavesLoopFor DEF Ready
<1>4. m \in Nat /\ m = Len(c.locals) - Base(c, d)
  BY <1>1 DEF LeavesLoop
<1>5. LeaveEmits(c, bs, Emit(c, xs), m)
  BY <1>1, <1>3, <1>4, LeaveEmitsIs
<1>6. Leads(c, bs, Emit(c, xs), bs)
  <2>1. SUFFICES ASSUME NEW K, Ready(c, bs, K)
                 PROVE  \E M : /\ Ready(Emit(c, xs), bs, M)
                               /\ \A O : Tracked(c, bs, K, O) => \E P : Tracked(Emit(c, xs), bs, M, P)
    BY DEF Leads
  <2>2. JumpsOut(c, bs, K, Emit(c, xs), d, End(c) + 1 + m)
    BY <2>1, LeavesReady
  <2> QED
    BY <2>2 DEF JumpsOut
<1> QED
  BY <1>5, <1>6 DEF LeaveEmits, Becomes

\* Only a block that is not the last changes, or what it waits for.
LEMMA HereReplaced ==
    ASSUME NEW c, NEW bs, Here(c, bs), NEW t \in 1 .. Len(bs), NEW a, a.decls = bs[t].decls,
           NEW bb \in Seq(Constructs), Replaces(bs, bb, t, a)
    PROVE  Here(c, bb)
<1>1. c \in Compilers /\ ~Inner(c) /\ Named(c, bs) /\ Len(bs) \in Nat /\ Len(bs) > 0
  BY HereIs
<1>2. Len(bb) = Len(bs) /\ \A d \in 1 .. Len(bs) : bb[d].decls = bs[d].decls
  BY DEF Replaces
<1>3. SameLocals(c, c)
  BY DEF SameLocals
<1>4. Named(c, bb)
  BY <1>1, <1>2, <1>3, NamedSame
<1> QED
  BY <1>1, <1>2, <1>4 DEF Here

BreakFrom(c, bs, t, a, m, xs) ==
    /\ Leaves(c, bs, t, a, a.breakDepth, 0, m, xs)

LEMMA BreakBecomes ==
    ASSUME NEW c, NEW bs, Here(c, bs), Sound(c, bs), NEW t \in 1 .. Len(bs),
           NEW ba \in Seq(Constructs), NEW a, MayLeave(bs[t], a), Replaces(bs, ba, t, a),
           NEW m, NEW xs, BreakFrom(c, ba, t, a, m, xs),
           NEW bb \in Seq(Constructs), NEW b, BreaksAt(a, b, End(c) + 1 + m), Replaces(ba, bb, t, b)
    PROVE  Becomes(c, bs, Emit(c, xs), bb)
<1>1. Fits(c, bs) /\ Len(ba) = Len(bs) /\ t \in 1 .. Len(ba) /\ ba[t] = a
  BY HereIs DEF Replaces
<1>2. Here(c, ba)
  BY HereReplaced DEF MayLeave, SameLoop
<1>3. \A L : Ready(c, bs, L) =>
          Ready(c, ba, L) /\ \A O : Tracked(c, bs, L, O) => Tracked(c, ba, L, O)
  BY <1>1, MayLeaveReady
<1>4. PICK L : Ready(c, ba, L)
  BY <1>3 DEF Sound
<1>5. PICK d : d = a.breakDepth
  OBVIOUS
<1>6. /\ Leaves(c, ba, t, a, d, 0, m, xs)
      /\ LeavesLoop(c, ba, t, a, d, 0, m) /\ LeaveCode(c, d, 0, m, xs)
  BY <1>5 DEF BreakFrom, Leaves
<1>7. d \in Nat
  BY <1>2, <1>4, <1>6, LeavesLoopFor DEF Ready
<1>8. m \in Nat /\ m = Len(c.locals) - Base(c, d)
  BY <1>6 DEF LeavesLoop
<1>9. PICK e : e = Emit(c, xs)
  OBVIOUS
<1>10. LeaveEmits(c, ba, e, m)
  BY <1>2, <1>6, <1>7, <1>8, <1>9, LeaveEmitsIs
<1>11. PICK j \in Nat : j = End(c) + 1 + m
  BY <1>10 DEF LeaveEmits
<1>12. /\ e \in Compilers /\ Fits(e, ba) /\ Here(e, ba) /\ Reuses(c, e)
       /\ e.locals = c.locals /\ e.scopeDepth = c.scopeDepth
       /\ j \in 1 .. Len(e.code) /\ e.code[j].op = "jump"
  BY <1>10, <1>11 DEF LeaveEmits
<1>13. Leads(c, bs, e, bb)
  <2>1. SUFFICES ASSUME NEW K, Ready(c, bs, K)
                 PROVE  \E M : /\ Ready(e, bb, M)
                               /\ \A O : Tracked(c, bs, K, O) => \E P : Tracked(e, bb, M, P)
    BY DEF Leads
  <2>2. Ready(c, ba, K) /\ \A O : Tracked(c, bs, K, O) => Tracked(c, ba, K, O)
    BY <1>3, <2>1
  <2>3. JumpsOut(c, ba, K, e, d, j)
    <3>1. JumpsOut(c, ba, K, Emit(c, xs), d, End(c) + 1 + m)
      BY <1>2, <1>6, <2>2, LeavesReady
    <3> QED
      BY <1>9, <1>11, <3>1
  <2>4. PICK M : /\ Ready(e, ba, M)
                 /\ M[j] = Slots(c, d)
                 /\ \A O : Tracked(c, ba, K, O) =>
                        \E P : Tracked(e, ba, M, P) /\ P[j] \subseteq P[End(e)]
    BY <2>3 DEF JumpsOut
  <2>5. M[j] = Slots(e, ba[t].breakDepth)
    <3>1. Slots(e, d) = Slots(c, d)
      BY <1>1, <1>12, SameNow
    <3> QED
      BY <1>1, <1>5, <2>4, <3>1
  <2>6. BreaksAt(ba[t], b, j)
    BY <1>1, <1>11
  <2>7. /\ Ready(e, bb, M)
        /\ \A O : Tracked(e, ba, M, O) /\ O[j] \subseteq O[End(e)] => Tracked(e, bb, M, O)
    BY <1>1, <1>12, <2>4, <2>5, <2>6, BreaksAtReady
  <2> QED
    BY <2>2, <2>4, <2>7
<1>14. Here(e, bb)
  <2>1. b.decls = ba[t].decls
    BY <1>1 DEF BreaksAt, SameLoop
  <2> QED
    BY <1>1, <1>12, <2>1, HereReplaced
<1> QED
  BY <1>9, <1>12, <1>13, <1>14 DEF Becomes

\* The code of a break or continue.
LEMMA LeavesIs ==
    ASSUME NEW c, NEW bs, Here(c, bs), NEW L, Laid(c, bs, L), NEW t \in 1 .. Len(bs),
           NEW a, a = bs[t], a.kind = "loop",
           \A k \in 1 .. Len(bs) : bs[k].kind = "loop" => k <= t,
           NEW d, d = a.continueDepth \/ d = a.breakDepth,
           NEW to \in Nat, to = 0 \/ (to = a.start /\ d = a.continueDepth),
           \A g \in 1 .. Len(c.locals) :
               c.locals[g].var = a.own /\ a.own # Temp /\ c.locals[g].captured = FALSE
               => d = a.continueDepth \/ a.left = TRUE
    PROVE  LET m == Len(Cleanup(c, d))
           IN  Leaves(c, bs, t, a, d, to, m,
                      <<Branch(End(c) + 1 + m + 1, 0)>> \o Cleanup(c, d) \o <<Jump(to)>>)
<1>1. c \in Compilers /\ Sorted(c) /\ ~Inner(c) /\ Len(bs) = c.scopeDepth /\ c.scopeDepth \in Nat
  BY HereIs
<1>2. LoopDepths(c, t, a)
  BY LoopDepthsIs
<1>3. d \in Nat
  <2>1. t \in Nat
    BY <1>1
  <2>2. t > 1 => t - 1 \in Nat
    BY <2>1
  <2>3. t > 2 => t - 2 \in Nat
    BY <2>1
  <2> QED
    BY <1>2, <2>2, <2>3, Zenon DEF LoopDepths
<1>4. PICK m \in Nat : m = Len(Cleanup(c, d)) /\ m = Len(c.locals) - Base(c, d)
  <2>1. /\ Base(c, d) \in Nat /\ Base(c, d) <= Len(c.locals)
        /\ Len(Cleanup(c, d)) = Len(c.locals) - Base(c, d)
    BY <1>1, <1>3, CleanupIs
  <2>2. Len(c.locals) \in Nat
    BY <1>1, CompilerIs
  <2> QED
    BY <2>1, <2>2
<1>5. LeaveCode(c, d, to, m, <<Branch(End(c) + 1 + m + 1, 0)>> \o Cleanup(c, d) \o <<Jump(to)>>)
  BY <1>1, <1>3, <1>4, LeaveCodeIs
<1>6. LeavesLoop(c, bs, t, a, d, to, m)
  BY <1>4 DEF LeavesLoop
<1> QED
  BY <1>4, <1>5, <1>6 DEF Leaves

-----------------------------------------------------------------------------
(* Matches                                                                 *)

LEMMA FitsShorter ==
    ASSUME NEW c, NEW bs, Fits(c, bs), Len(bs) > 0, NEW bb \in Seq(Constructs), Shortens(bs, bb)
    PROVE  Fits(c, bb)
<1>1. c \in Compilers /\ Sorted(c) /\ Len(bs) \in Nat
  BY FitsIs
<1>2. \A d \in 1 .. Len(bb) : d \in 1 .. Len(bs) /\ bb[d] = bs[d]
  BY <1>1 DEF Shortens
<1>3. \A d \in 1 .. Len(bs) : d - 1 <= c.scopeDepth /\ (bs[d].kind = "match" => d <= c.scopeDepth)
  BY DEF Fits
<1>4. \A d \in 1 .. Len(bb) : d - 1 <= c.scopeDepth /\ (bb[d].kind = "match" => d <= c.scopeDepth)
  BY <1>2, <1>3
<1> QED
  BY <1>1, <1>4 DEF Fits

\* Where the stack is as now, what the construct b at t waits for are the jumps J.
WaitsNow(c, bs, t, J) ==
    /\ t \in 1 .. Len(bs)
    /\ (bs[t].kind = "match" /\ c.scopeDepth = t) \/ (bs[t].kind = "case" /\ c.scopeDepth = t - 1)
    /\ J = IF bs[t].kind = "match" THEN bs[t].ends ELSE bs[t].fails

LEMMA WaitsNowIs ==
    ASSUME NEW c, NEW bs, NEW t, NEW J, WaitsNow(c, bs, t, J), NEW L, Ready(c, bs, L)
    PROVE  /\ \A j \in J : j \in 1 .. Len(c.code) /\ c.code[j].op \in {"jump", "branch"}
           /\ Waiting(c, L, J)
           /\ \A O : Tracked(c, bs, L, O) => WaitingOpen(c, O, J)
<1>0. /\ t \in 1 .. Len(bs)
      /\ (bs[t].kind = "match" /\ c.scopeDepth = t) \/ (bs[t].kind = "case" /\ c.scopeDepth = t - 1)
      /\ J = IF bs[t].kind = "match" THEN bs[t].ends ELSE bs[t].fails
  BY DEF WaitsNow
<1>1. BlockLaid(bs[t], t, c, L) /\ L[End(c)] = Slots(c, c.scopeDepth)
  BY <1>0 DEF Ready, Laid
<1>2. CASE bs[t].kind = "match"
  <2>1. \A j \in J : j \in 1 .. Len(c.code) /\ c.code[j].op = "jump" /\ L[j] = Slots(c, t)
    BY <1>0, <1>1, <1>2 DEF BlockLaid
  <2>2. Waiting(c, L, J)
    BY <1>0, <1>1, <1>2, <2>1 DEF Waiting
  <2>3. Pending(bs[t], c) = J
    BY <1>0, <1>2 DEF Pending
  <2>4. \A O : Tracked(c, bs, L, O) => WaitingOpen(c, O, J)
    BY <1>0, <2>3 DEF Tracked, OpenLaid, Covers, WaitingOpen
  <2> QED
    BY <2>1, <2>2, <2>4
<1>3. CASE bs[t].kind = "case"
  <2>1. \A j \in J : /\ j \in 1 .. Len(c.code) /\ c.code[j].op = "branch"
                     /\ c.code[j].leaves = 0 => L[j] = Slots(c, t - 1)
    BY <1>0, <1>1, <1>3 DEF BlockLaid
  <2>2. c.scopeDepth = t - 1
    BY <1>0, <1>3
  <2>3. Waiting(c, L, J)
    BY <1>1, <2>1, <2>2 DEF Waiting
  <2>4. Pending(bs[t], c) = {j \in J : c.code[j].leaves = 0}
    BY <1>0, <1>3 DEF Pending
  <2>5. \A O : Tracked(c, bs, L, O) => WaitingOpen(c, O, J)
    BY <1>0, <2>1, <2>4 DEF Tracked, OpenLaid, Covers, WaitingOpen
  <2> QED
    BY <2>1, <2>3, <2>5
<1> QED
  BY <1>0, <1>2, <1>3

LEMMA PendingLeads ==
    ASSUME NEW c, NEW bs, Fits(c, bs), Sound(c, bs), NEW t, NEW J, WaitsNow(c, bs, t, J)
    PROVE  /\ Leads(c, bs, Patch(c, J, End(c)), bs)
           /\ PatchedIn(c, bs, Patch(c, J, End(c)))
<1>1. PICK L : Ready(c, bs, L)
  BY DEF Sound
<1>2. PICK K \in SUBSET (1 .. Len(c.code)) : K = J /\ \A j \in K : c.code[j].op \in {"jump", "branch"}
  <2>1. \A j \in J : j \in 1 .. Len(c.code) /\ c.code[j].op \in {"jump", "branch"}
    BY <1>1, WaitsNowIs
  <2> QED
    BY <2>1
<1>3. \A M : Ready(c, bs, M) => Waiting(c, M, K)
  BY <1>2, WaitsNowIs
<1>4. \A M, O : Ready(c, bs, M) /\ Tracked(c, bs, M, O) => WaitingOpen(c, O, K)
  BY <1>2, WaitsNowIs
<1>5. Leads(c, bs, Patch(c, K, End(c)), bs)
  BY <1>2, <1>3, <1>4, PatchLeads
<1>6. PatchedIn(c, bs, Patch(c, K, End(c)))
  BY <1>2, PatchedIs
<1> QED
  BY <1>2, <1>5, <1>6

LEMMA EndMatchBecomes ==
    ASSUME NEW c, NEW bs, Here(c, bs), Sound(c, bs), Len(bs) > 1,
           NEW b, b = bs[Len(bs)], b.kind = "match",
           NEW bb \in Seq(Constructs), Shortens(bs, bb)
    PROVE  Becomes(c, bs, EndScope(Patch(c, b.ends, End(c))), bb)
<1>1. /\ c \in Compilers /\ ~Inner(c) /\ Sorted(c) /\ Fits(c, bs) /\ Len(bs) \in Nat
      /\ Len(bs) = c.scopeDepth /\ c.scopeDepth > 0 /\ c.scopeDepth \in Nat
  BY HereIs
<1>2. PICK t \in Nat : t = Len(bs) /\ t \in 1 .. Len(bs) /\ c.scopeDepth = t /\ t > 0 /\ t - 1 <= t /\ t - 1 # t
  <2>1. \A x \in Nat : x > 1 => x \in 1 .. x /\ x > 0 /\ x - 1 <= x /\ x - 1 # x
    OBVIOUS
  <2> QED
    BY <1>1, <2>1
<1>3. PICK d : d = Patch(c, b.ends, End(c))
  OBVIOUS
<1>4. Leads(c, bs, d, bs) /\ PatchedIn(c, bs, d)
  <2>1. PICK J : J = b.ends /\ J = IF bs[t].kind = "match" THEN bs[t].ends ELSE bs[t].fails
    BY <1>2
  <2>2. WaitsNow(c, bs, t, J)
    BY <1>2, <2>1 DEF WaitsNow
  <2>3. Leads(c, bs, Patch(c, J, End(c)), bs) /\ PatchedIn(c, bs, Patch(c, J, End(c)))
    BY <1>1, <2>2, PendingLeads
  <2> QED
    BY <1>3, <2>1, <2>3
<1>5. /\ Fits(d, bs) /\ Reuses(c, d) /\ d \in Compilers /\ (Inner(d) <=> Inner(c))
      /\ d.locals = c.locals /\ d.scopeDepth = c.scopeDepth
  BY <1>4 DEF PatchedIn
<1>6. Here(d, bs)
  BY <1>5, HereSame
<1>7. Leads(d, bs, d, bb) /\ Fits(d, bb)
  BY <1>1, <1>2, <1>5, ShortenLeads, FitsShorter
<1>8. Leads(d, bb, EndScope(d), bb)
  <2>1. Len(bb) = t - 1
    BY <1>2 DEF Shortens
  <2>2. /\ ~Inner(d) /\ d.scopeDepth > 0 /\ Len(bb) <= d.scopeDepth
        /\ Len(bb) = d.scopeDepth => bb[Len(bb)].kind # "match"
    BY <1>1, <1>2, <1>5, <2>1
  <2> QED
    BY <1>7, <2>2, EndScopeLeads
<1>9. Here(EndScope(d), bb) /\ Reuses(d, EndScope(d))
  BY <1>6, EndScopeNamed
<1>10. Leads(c, bs, EndScope(d), bb)
  <2>1. Leads(c, bs, d, bb)
    BY <1>4, <1>7, LeadsOn
  <2> QED
    BY <1>8, <2>1, LeadsOn
<1>11. Reuses(c, EndScope(d))
  BY <1>5, <1>9, ReusesOn
<1> QED
  BY <1>3, <1>9, <1>10, <1>11 DEF Becomes

LEMMA PatchedOps ==
    ASSUME NEW c \in Compilers, NEW J, \A j \in J : c.code[j].op \in {"jump", "branch"}
    PROVE  LET e == Patch(c, J, End(c))
           IN  /\ Len(e.code) = Len(c.code)
               /\ \A p \in 1 .. Len(c.code) : e.code[p].op = c.code[p].op
<1>1. End(c) \in Nat
  BY CompilerIs
<1>2. \A p \in J : p \in 1 .. Len(c.code) => c.code[p].op \in {"jump", "branch"}
  OBVIOUS
<1>3. LET x == Patch(c, J, End(c))
      IN  /\ x \in Compilers
          /\ x.locals = c.locals /\ x.upvalues = c.upvalues /\ x.scopeDepth = c.scopeDepth
          /\ x.params = c.params
          /\ Len(x.code) = Len(c.code)
          /\ \A p \in 1 .. Len(c.code) :
                /\ p \notin J => x.code[p] = c.code[p]
                /\ p \in J => /\ x.code[p].op = c.code[p].op /\ x.code[p].to = End(c)
                              /\ c.code[p].op = "branch" => x.code[p].leaves = c.code[p].leaves
  BY <1>1, <1>2, PatchIs
<1> QED
  BY <1>3

LEMMA JumpEmitted ==
    ASSUME NEW c, NEW bs, Fits(c, bs), NEW L, Ready(c, bs, L)
    PROVE  JumpsOut(c, bs, L, Emit(c, <<Jump(0)>>), c.scopeDepth, End(c))
<1>1. PICK i \in Instructions : i = Jump(0) /\ i.op = "jump" /\ i.to = 0
  <2>1. PICK i : i = Jump(0)
    OBVIOUS
  <2>2. i \in Instructions
    BY <2>1 DEF Jump, JumpsTo, Instructions
  <2> QED
    BY <2>1, <2>2 DEF Jump
<1>2. PICK xs \in Seq(Instructions) : /\ xs = <<i>> /\ Len(xs) = 1
                                      /\ \A q \in 1 .. Len(xs) : q = 1 /\ xs[q] = i
  BY SingleIs
<1>3. PICK e : e = Emit(c, xs)
  OBVIOUS
<1>4. EmittedIn(c, bs, e, xs)
  BY <1>3, EmitNow
<1>5. /\ e \in Compilers /\ Grown(c, e, xs) /\ e.locals = c.locals
      /\ e.scopeDepth = c.scopeDepth /\ e.params = c.params
  BY <1>4 DEF EmittedIn
<1>6. \A q \in 1 .. Len(xs) : Balanced(c, bs, xs[q], q, {})
  <2>1. Balanced(c, bs, i, 1, {})
    BY <1>1, Zenon DEF Balanced
  <2> QED
    BY <1>2, <2>1
<1>7. {} \in SUBSET Nat /\ 0 \notin {} /\ Len(xs) \notin {}
  OBVIOUS
<1>8. PICK M : M = Stays(c, {}, L)
  OBVIOUS
<1>9. /\ Ready(e, bs, M)
      /\ \A O : Tracked(c, bs, L, O) => Tracked(e, bs, M, StaysOpen(c, O))
  BY <1>5, <1>6, <1>7, <1>8, EmitBalanced
<1>10. PICK n \in Nat : n = End(c) /\ End(e) = n + 1
  <2>1. c \in Compilers
    BY FitsIs
  <2>2. Len(c.code) \in Nat /\ End(c) = Len(c.code) + 1
    BY <2>1, CompilerIs
  <2> QED
    BY <1>2, <1>5, <2>2 DEF Grown, End
<1>11. M[n] = Slots(c, c.scopeDepth)
  <2>1. M[n] = L[n]
    BY <1>8, <1>10 DEF Stays
  <2> QED
    BY <1>10, <2>1 DEF Ready
<1>12. \A O : StaysOpen(c, O)[n] = O[n] /\ StaysOpen(c, O)[n + 1] = O[n]
  <2>1. n + 1 \in Nat /\ n <= n /\ ~(n + 1 <= n)
    OBVIOUS
  <2> QED
    BY <1>10, <2>1, Zenon DEF StaysOpen
<1>13. \A O : Tracked(c, bs, L, O) => \E P : Tracked(e, bs, M, P) /\ P[n] \subseteq P[End(e)]
  BY <1>9, <1>10, <1>12
<1>14. JumpsOut(c, bs, L, e, c.scopeDepth, n)
  BY <1>9, <1>11, <1>13 DEF JumpsOut
<1> QED
  BY <1>1, <1>2, <1>3, <1>10, <1>14

\* a is the match b, one of whose cases ends with the jump j.
EndsAt(b, a, j) ==
    /\ b.kind = "match" /\ a.kind = "match" /\ a.decls = b.decls
    /\ a.ends = b.ends \union {j}

LEMMA EndsAtReady ==
    ASSUME NEW c, NEW bs, Fits(c, bs), NEW t \in 1 .. Len(bs), NEW j, NEW a, EndsAt(bs[t], a, j),
           NEW bb, Replaces(bs, bb, t, a), NEW L, Ready(c, bs, L),
           j \in 1 .. Len(c.code), c.code[j].op = "jump", L[j] = Slots(c, t)
    PROVE  /\ Ready(c, bb, L)
           /\ \A O : Tracked(c, bs, L, O) /\ O[j] \subseteq O[End(c)] => Tracked(c, bb, L, O)
<1>1. Laid(c, bs, L) /\ Len(bs) \in Nat
  BY FitsIs DEF Ready
<1>2. BlockLaid(bs[t], t, c, L)
  BY <1>1 DEF Laid
<1>3. BlockLaid(a, t, c, L)
  BY <1>2 DEF BlockLaid, EndsAt
<1>4. WaitsOn(c, bs, L, t, a)
  BY <1>3 DEF WaitsOn, EndsAt
<1>5. ReplacedLaid(c, bs, bb, L, t, a)
  BY <1>1, <1>4, ReplaceLaid
<1>6. Pending(a, c) = Pending(bs[t], c) \union {j}
  BY DEF Pending, EndsAt
<1>7. ASSUME NEW O, OpenLaid(c, bs, L, O), O[j] \subseteq O[End(c)] PROVE OpenLaid(c, bb, L, O)
  <2>1. \A i \in Pending(a, c) : i \in Pending(bs[t], c) \/ O[i] \subseteq O[End(c)]
    BY <1>6, <1>7
  <2> QED
    BY <1>5, <1>7, <2>1 DEF ReplacedLaid
<1> QED
  BY <1>5, <1>7 DEF ReplacedLaid, Ready, Tracked

\* The case that is the last block, of the match a, ends.
CaseEnds(c, bs, b, ba, a, bb) ==
    /\ Len(bs) > 1 /\ b = bs[Len(bs)] /\ b.kind = "case"
    /\ ba \in Seq(Constructs) /\ Shortens(bs, ba)
    /\ EndsAt(ba[Len(ba)], a, End(EndScope(c)))
    /\ bb \in Seq(Constructs) /\ Replaces(ba, bb, Len(ba), a)

\* Between the scope of the case, c, and the end of its jump, d.
LEMMA CaseJumps ==
    ASSUME NEW c, NEW bs, Fits(c, bs), NEW t \in 1 .. Len(bs), t = Len(bs), bs[t].kind = "case",
           c.scopeDepth = t - 1, Sound(c, bs),
           NEW ba \in Seq(Constructs), Shortens(bs, ba), Len(ba) \in Nat, Len(ba) > 0,
           NEW a, EndsAt(ba[Len(ba)], a, End(c)),
           NEW bb, Replaces(ba, bb, Len(ba), a),
           NEW d, d = Emit(c, <<Jump(0)>>), NEW e, e = Patch(d, bs[t].fails, End(d))
    PROVE  /\ Leads(c, bs, e, bb) /\ Reuses(c, e) /\ e \in Compilers
           /\ e.locals = c.locals /\ e.scopeDepth = c.scopeDepth
<1>1. PICK i \in Instructions : i = Jump(0) /\ i.op # "upvalue"
  <2>1. PICK i : i = Jump(0)
    OBVIOUS
  <2>2. i \in Instructions
    BY <2>1 DEF Jump, JumpsTo, Instructions
  <2> QED
    BY <2>1, <2>2 DEF Jump
<1>2. PICK xs \in Seq(Instructions) : /\ xs = <<i>> /\ Len(xs) = 1
                                      /\ \A q \in 1 .. Len(xs) : q = 1 /\ xs[q] = i
  BY SingleIs
<1>3. EmittedIn(c, bs, d, xs)
  BY <1>1, <1>2, EmitNow
<1>4. /\ d \in Compilers /\ Grown(c, d, xs) /\ Fits(d, bs) /\ d.upvalues = c.upvalues
      /\ d.locals = c.locals /\ d.scopeDepth = c.scopeDepth
  BY <1>3 DEF EmittedIn
<1>5. PICK n \in Nat : n = End(c) /\ n \in 1 .. Len(d.code) /\ d.code[n] = i /\ c \in Compilers
  <2>1. c \in Compilers
    BY FitsIs
  <2>2. Len(c.code) \in Nat /\ End(c) = Len(c.code) + 1
    BY <2>1, CompilerIs
  <2>3. Len(d.code) = Len(c.code) + 1 /\ d.code[Len(c.code) + 1] = i
    <3>1. 1 \in 1 .. Len(xs)
      BY <1>2
    <3> QED
      BY <1>2, <1>4, <3>1 DEF Grown
  <2>4. \A x \in Nat : x + 1 \in Nat /\ x + 1 \in 1 .. x + 1
    OBVIOUS
  <2> QED
    BY <2>1, <2>2, <2>3, <2>4
<1>6. Reuses(c, d)
  BY <1>1, <1>2, <1>4, <1>5, GrownReuses
<1>7. \A L : Ready(c, bs, L) => JumpsOut(c, bs, L, d, c.scopeDepth, n)
  BY <1>5, JumpEmitted
<1>8. PICK J : J = bs[t].fails /\ WaitsNow(d, bs, t, J)
  BY <1>4 DEF WaitsNow
<1>9. \A M : Ready(d, bs, M) =>
          /\ \A j \in J : j \in 1 .. Len(d.code) /\ d.code[j].op \in {"jump", "branch"}
          /\ Waiting(d, M, J)
          /\ \A O : Tracked(d, bs, M, O) => WaitingOpen(d, O, J)
  BY <1>8, WaitsNowIs
<1>10. PICK K \in SUBSET (1 .. Len(d.code)) : K = J /\ \A j \in K : d.code[j].op \in {"jump", "branch"}
  <2>1. \E M : Ready(d, bs, M)
    BY <1>7 DEF Sound, JumpsOut
  <2> QED
    BY <1>9, <2>1
<1>11. PatchedIn(d, bs, e) /\ e = Patch(d, K, End(d))
  BY <1>4, <1>8, <1>10, PatchedIs
<1>12. /\ Fits(e, bs) /\ Reuses(d, e) /\ e \in Compilers /\ e.locals = d.locals
       /\ e.scopeDepth = d.scopeDepth /\ End(e) = End(d)
  BY <1>11 DEF PatchedIn
<1>13. n \in 1 .. Len(e.code) /\ e.code[n].op = "jump"
  <2>2. Len(e.code) = Len(d.code) /\ e.code[n].op = d.code[n].op
    <3>1. \A j \in K : d.code[j].op \in {"jump", "branch"}
      BY <1>10
    <3>2. LET x == Patch(d, K, End(d))
          IN  /\ Len(x.code) = Len(d.code)
              /\ \A p \in 1 .. Len(d.code) : x.code[p].op = d.code[p].op
      BY <1>4, <3>1, PatchedOps
    <3> QED
      BY <1>5, <1>11, <3>2
  <2>3. d.code[n].op = "jump"
    BY <1>1, <1>5 DEF Jump
  <2> QED
    BY <1>5, <2>2, <2>3
<1>14. Fits(e, ba) /\ Len(ba) \in 1 .. Len(ba) /\ Len(ba) <= Len(bs) /\ Len(ba) = t - 1
  <2>1. Len(bs) \in Nat /\ t \in Nat
    BY <1>4, FitsIs
  <2>2. Len(ba) = t - 1 /\ Len(bs) > 0 /\ Len(ba) <= Len(bs) /\ Len(ba) \in 1 .. Len(ba)
    BY <2>1 DEF Shortens
  <2> QED
    BY <1>12, <2>2, FitsShorter
<1>15. \A x \in 1 .. Len(ba) : SameWait(bs[x], ba[x])
  BY DEF Shortens, SameWait
<1>16. SUFFICES ASSUME NEW L, Ready(c, bs, L)
                PROVE  \E M : /\ Ready(e, bb, M)
                              /\ \A O : Tracked(c, bs, L, O) => \E P : Tracked(e, bb, M, P)
  BY <1>4, <1>6, <1>12, ReusesOn DEF Leads
<1>17. PICK M : /\ Ready(d, bs, M)
                /\ M[n] = Slots(c, c.scopeDepth)
                /\ \A O : Tracked(c, bs, L, O) =>
                      \E P : Tracked(d, bs, M, P) /\ P[n] \subseteq P[End(d)]
  <2>1. JumpsOut(c, bs, L, d, c.scopeDepth, n)
    BY <1>7, <1>16
  <2> QED
    BY <2>1 DEF JumpsOut
<1>18. /\ Ready(e, bs, M)
       /\ \A O : /\ Tracked(d, bs, M, O)
                 /\ \A j \in K : d.code[j].op = "jump" \/ d.code[j].leaves = 0 => O[j] \subseteq O[End(d)]
                 => Tracked(e, bs, M, O)
  <2>1. \A j \in K : /\ d.code[j].op \in {"jump", "branch"}
                     /\ d.code[j].op = "jump" \/ d.code[j].leaves = 0 => M[j] = M[End(d)]
    BY <1>9, <1>10, <1>17 DEF Waiting
  <2> QED
    BY <1>4, <1>11, <1>17, <2>1, PatchReady
<1>19. Ready(e, ba, M) /\ \A O : Tracked(e, bs, M, O) => Tracked(e, ba, M, O)
  <2>1. Laid(e, bs, M) /\ Len(bs) \in Nat
    BY <1>12, <1>18, FitsIs DEF Ready
  <2>2. Laid(e, ba, M) /\ \A O : OpenLaid(e, bs, M, O) => OpenLaid(e, ba, M, O)
    BY <1>14, <1>15, <2>1, WaitLaid
  <2> QED
    BY <1>18, <2>2 DEF Ready, Tracked
<1>20. M[n] = Slots(e, Len(ba))
  <2>1. Slots(e, c.scopeDepth) = Slots(c, c.scopeDepth)
    BY <1>4, <1>12, SameNow
  <2> QED
    BY <1>14, <1>17, <2>1
<1>21. /\ Ready(e, bb, M)
       /\ \A O : Tracked(e, ba, M, O) /\ O[n] \subseteq O[End(e)] => Tracked(e, bb, M, O)
  BY <1>5, <1>13, <1>14, <1>19, <1>20, EndsAtReady
<1>22. ASSUME NEW O, Tracked(c, bs, L, O) PROVE \E P : Tracked(e, bb, M, P)
  <2>1. PICK P : Tracked(d, bs, M, P) /\ P[n] \subseteq P[End(d)]
    BY <1>17, <1>22
  <2>2. \A j \in K : d.code[j].op = "jump" \/ d.code[j].leaves = 0 => P[j] \subseteq P[End(d)]
    BY <1>9, <1>10, <1>17, <2>1 DEF WaitingOpen
  <2>3. Tracked(e, bs, M, P)
    BY <1>18, <2>1, <2>2
  <2> QED
    BY <1>12, <1>19, <1>21, <2>1, <2>3
<1> QED
  BY <1>21, <1>22

LEMMA EndCaseBecomes ==
    ASSUME NEW c, NEW bs, Here(c, bs), Sound(c, bs), NEW b, NEW ba, NEW a, NEW bb,
           CaseEnds(c, bs, b, ba, a, bb), NEW d, d = Emit(EndScope(c), <<Jump(0)>>)
    PROVE  Becomes(c, bs, Patch(d, b.fails, End(d)), bb)
<1>0. /\ Len(bs) > 1 /\ b = bs[Len(bs)] /\ b.kind = "case"
      /\ ba \in Seq(Constructs) /\ Shortens(bs, ba)
      /\ EndsAt(ba[Len(ba)], a, End(EndScope(c)))
      /\ bb \in Seq(Constructs) /\ Replaces(ba, bb, Len(ba), a)
  BY DEF CaseEnds
<1>1. /\ c \in Compilers /\ ~Inner(c) /\ Sorted(c) /\ Fits(c, bs) /\ Len(bs) \in Nat
      /\ Len(bs) = c.scopeDepth /\ c.scopeDepth > 0 /\ c.scopeDepth \in Nat
  BY HereIs
<1>2. PICK t \in Nat : t = Len(bs) /\ t \in 1 .. Len(bs) /\ c.scopeDepth = t /\ t > 0 /\ t <= t
                       /\ t - 1 \in Nat /\ t - 1 > 0 /\ t - 1 \in 1 .. t - 1
  <2>1. \A x \in Nat : x > 1 => x \in 1 .. x /\ x > 0 /\ x <= x /\ x - 1 \in Nat /\ x - 1 > 0
                                /\ x - 1 \in 1 .. x - 1
    OBVIOUS
  <2> QED
    BY <1>0, <1>1, <2>1
<1>3. PICK g : g = EndScope(c)
  OBVIOUS
<1>4. Leads(c, bs, g, bs) /\ Fits(g, bs)
  <2>1. Len(bs) = c.scopeDepth => bs[Len(bs)].kind # "match"
    BY <1>0
  <2>2. PICK L : Ready(c, bs, L)
    BY DEF Sound
  <2>3. Len(bs) <= c.scopeDepth
    BY <1>2
  <2> QED
    BY <1>1, <1>2, <1>3, <2>1, <2>2, <2>3, EndScopeLeads, EndScopeLaid
<1>5. Here(g, ba) /\ Reuses(c, g)
  BY <1>0, <1>3, EndScopeNamed
<1>6. g.scopeDepth = t - 1
  <2>1. ScopeLeft(c, g)
    BY <1>1, <1>3, EndScopeIs
  <2> QED
    BY <1>2, <2>1 DEF ScopeLeft
<1>7. Sound(g, bs)
  BY <1>4, SoundOn
<1>8. Len(ba) = t - 1 /\ Len(ba) \in Nat /\ Len(ba) > 0 /\ Len(ba) \in 1 .. Len(ba)
  BY <1>0, <1>2 DEF Shortens
<1>9. PICK e : e = Patch(d, b.fails, End(d))
  OBVIOUS
<1>10. /\ Leads(g, bs, e, bb) /\ Reuses(g, e) /\ e \in Compilers
       /\ e.locals = g.locals /\ e.scopeDepth = g.scopeDepth
  <2>1. /\ ba \in Seq(Constructs) /\ Shortens(bs, ba) /\ EndsAt(ba[Len(ba)], a, End(g))
        /\ Replaces(ba, bb, Len(ba), a) /\ bs[t].kind = "case"
        /\ d = Emit(g, <<Jump(0)>>) /\ e = Patch(d, bs[t].fails, End(d))
    BY <1>0, <1>2, <1>3, <1>9
  <2> QED
    BY <1>2, <1>4, <1>6, <1>7, <1>8, <2>1, CaseJumps
<1>11. Here(e, ba)
  BY <1>5, <1>10, HereSame
<1>12. Here(e, bb)
  <2>1. a.decls = ba[Len(ba)].decls
    BY <1>0 DEF EndsAt
  <2> QED
    BY <1>0, <1>8, <1>11, <2>1, HereReplaced
<1>13. Leads(c, bs, e, bb) /\ Reuses(c, e)
  BY <1>4, <1>5, <1>10, LeadsOn, ReusesOn
<1> QED
  BY <1>9, <1>12, <1>13 DEF Becomes

(* Cases that begin.                                                       *)

\* What the instructions of a pattern do: only the first, of one that binds no name, can fail with
\* the stack as it was.
TestFits(xs, U, bound) ==
    /\ xs \in Seq(Instructions) /\ U \in SUBSET Nat /\ 0 \notin U /\ Len(xs) \notin U
    /\ \A q \in 1 .. Len(xs) :
          /\ xs[q].op \in {"push", "pop", "branch"}
          /\ xs[q].op = "push" => xs[q].var = Temp /\ q - 1 \notin U /\ q \in U
          /\ xs[q].op = "pop" => q - 1 \in U /\ q \notin U
          /\ xs[q].op = "branch" => xs[q].to = 0 /\ (q - 1 \in U <=> q \in U)
          /\ xs[q].op = "branch" /\ xs[q].leaves = 0 => q = 1 /\ ~bound

LEMMA TestInstructions ==
    /\ Branch(0, 0) \in Instructions /\ Branch(0, 0).op = "branch" /\ Branch(0, 0).to = 0
    /\ Branch(0, 0).leaves = 0
    /\ Branch(0, 1) \in Instructions /\ Branch(0, 1).op = "branch" /\ Branch(0, 1).to = 0
    /\ Branch(0, 1).leaves = 1
    /\ PushOf(Temp) \in Instructions /\ PushOf(Temp).op = "push" /\ PushOf(Temp).var = Temp
    /\ Pop \in Instructions /\ Pop.op = "pop"
<1>1. Branch(0, 0) \in Instructions /\ Branch(0, 1) \in Instructions
  BY DEF Branch, Branches, Instructions
<1>2. PushOf(Temp) \in Instructions
  BY DEF PushOf, Pushes, Instructions, Temp
<1>3. Pop \in Instructions
  BY DEF Pop, Discards, Instructions
<1> QED
  BY <1>1, <1>2, <1>3 DEF Branch, PushOf, Pop

LEMMA FewIs ==
    ASSUME NEW S, NEW i \in S, NEW j \in S, NEW k \in S, NEW l \in S
    PROVE  <<i>> \in Seq(S) /\ <<i, j, k>> \in Seq(S) /\ <<i, j, k, l>> \in Seq(S)
OBVIOUS

LEMMA TestIs ==
    ASSUME NEW array \in BOOLEAN, NEW bound \in BOOLEAN
    PROVE  \E U : TestFits(Test(array, bound), U, bound)
<1>1. PICK i : i = Branch(0, 0)
  OBVIOUS
<1>2. PICK j : j = Branch(0, 1)
  OBVIOUS
<1>3. PICK k : k = PushOf(Temp)
  OBVIOUS
<1>4. PICK l : l = Pop
  OBVIOUS
<1>5. /\ i \in Instructions /\ i.op = "branch" /\ i.to = 0 /\ i.leaves = 0
      /\ j \in Instructions /\ j.op = "branch" /\ j.to = 0 /\ j.leaves = 1
      /\ k \in Instructions /\ k.op = "push" /\ k.var = Temp
      /\ l \in Instructions /\ l.op = "pop"
  BY <1>1, <1>2, <1>3, <1>4, TestInstructions
<1>6. CASE array /\ bound
  <2>1. Test(array, bound) = <<j, k, l>>
    BY <1>2, <1>3, <1>4, <1>6 DEF Test
  <2>2. PICK xs : xs = <<j, k, l>>
    OBVIOUS
  <2>3. xs \in Seq(Instructions)
    BY <1>5, <2>2, FewIs
  <2>4. Len(xs) = 3 /\ xs[1] = j /\ xs[2] = k /\ xs[3] = l
    BY <2>2
  <2>5. xs = <<j, k, l>> /\ xs \in Seq(Instructions) /\ Len(xs) = 3 /\ xs[1] = j /\ xs[2] = k /\ xs[3] = l
    BY <2>4, <2>3, <2>2
  <2>6. PICK U : U = {2}
    OBVIOUS
  <2>7. TestFits(xs, U, bound)
    <3>1. \A q \in 1 .. Len(xs) : q = 1 \/ q = 2 \/ q = 3
      BY <2>5
    <3> QED
      BY <1>5, <1>6, <2>5, <2>6, <3>1 DEF TestFits
  <2> QED
    BY <2>1, <2>5, <2>7
<1>7. CASE array /\ ~bound
  <2>1. Test(array, bound) = <<i, k, j, l>>
    BY <1>1, <1>2, <1>3, <1>4, <1>7 DEF Test
  <2>2. PICK xs : xs = <<i, k, j, l>>
    OBVIOUS
  <2>3. xs \in Seq(Instructions)
    BY <1>5, <2>2, FewIs
  <2>4. Len(xs) = 4 /\ xs[1] = i /\ xs[2] = k /\ xs[3] = j /\ xs[4] = l
    BY <2>2
  <2>5. xs = <<i, k, j, l>> /\ xs \in Seq(Instructions) /\ Len(xs) = 4
      /\ xs[1] = i /\ xs[2] = k /\ xs[3] = j /\ xs[4] = l
    BY <2>4, <2>3, <2>2
  <2>6. PICK U : U = {2, 3}
    OBVIOUS
  <2>7. TestFits(xs, U, bound)
    <3>1. \A q \in 1 .. Len(xs) : q = 1 \/ q = 2 \/ q = 3 \/ q = 4
      BY <2>5
    <3> QED
      BY <1>5, <1>7, <2>5, <2>6, <3>1 DEF TestFits
  <2> QED
    BY <2>1, <2>5, <2>7
<1>8. CASE ~array /\ bound
  <2>1. Test(array, bound) = <<>>
    BY <1>8 DEF Test
  <2>2. TestFits(<<>>, {}, bound)
    BY DEF TestFits
  <2> QED
    BY <2>1, <2>2
<1>9. CASE ~array /\ ~bound
  <2>1. Test(array, bound) = <<i>>
    BY <1>1, <1>9 DEF Test
  <2>2. PICK xs : xs = <<i>>
    OBVIOUS
  <2>3. xs \in Seq(Instructions)
    BY <1>5, <2>2, FewIs
  <2>4. Len(xs) = 1 /\ xs[1] = i
    BY <2>2
  <2>5. xs = <<i>> /\ xs \in Seq(Instructions) /\ Len(xs) = 1 /\ xs[1] = i
    BY <2>4, <2>3, <2>2
  <2>6. TestFits(xs, {}, bound)
    <3>1. \A q \in 1 .. Len(xs) : q = 1
      BY <2>5
    <3> QED
      BY <1>5, <1>9, <2>5, <3>1 DEF TestFits
  <2> QED
    BY <2>1, <2>5, <2>6
<1> QED
  BY <1>6, <1>7, <1>8, <1>9

\* The scope of a case begins, with the variable n, or none.
CaseScope(c, bound, n, v) ==
    IF bound THEN Opened(c, n, v) ELSE BeginScope(c)

\* b is the case that begins: d is its scope, and e is d and the pattern.
CaseBegins(c, bs, bb, b, bound, n, v, d, e) ==
    /\ bs[Len(bs)].kind = "match" /\ Extends(bs, bb, b) /\ b.kind = "case"
    /\ DOMAIN b.decls = (IF bound THEN {n} ELSE {}) /\ (bound => n # NoName /\ b.decls[n] = v)
    /\ b.fails = {i \in End(d) .. End(e) - 1 : e.code[i].op = "branch"}

LEMMA CaseScopeNamed ==
    ASSUME NEW c, NEW bs, Here(c, bs), NEW bb \in Seq(Constructs), NEW bound \in BOOLEAN,
           NEW n \in Nat, NEW v \in Nat, NEW b, Extends(bs, bb, b),
           DOMAIN b.decls = (IF bound THEN {n} ELSE {}), bound => n # NoName /\ b.decls[n] = v
    PROVE  Here(CaseScope(c, bound, n, v), bb) /\ Reuses(c, CaseScope(c, bound, n, v))
<1>1. PICK d : d = CaseScope(c, bound, n, v)
  OBVIOUS
<1>2. /\ c \in Compilers /\ ~Inner(c) /\ Fits(c, bs) /\ Named(c, bs) /\ Len(bs) \in Nat
  BY HereIs
<1>3. /\ Len(bb) = Len(bs) + 1 /\ bb[Len(bs) + 1] = b
      /\ \A i \in 1 .. Len(bs) : bb[i] = bs[i]
  BY DEF Extends
<1>4. CASE ~bound
  <2>1. d = BeginScope(c)
    BY <1>1, <1>4 DEF CaseScope
  <2>2. /\ d \in Compilers /\ d.scopeDepth = c.scopeDepth + 1
        /\ d.code = c.code /\ d.upvalues = c.upvalues /\ d.locals = c.locals
    BY <1>2, <2>1, BeginScopeIs
  <2>3. /\ \A i \in 1 .. Len(bs) : bb[i].decls = bs[i].decls
        /\ DOMAIN bb[Len(bs) + 1].decls = {}
    BY <1>3, <1>4
  <2>4. Named(d, bb) /\ ~Inner(d)
    BY <1>2, <1>3, <2>2, <2>3, NamedOpen
  <2>5. Reuses(c, d)
    BY <2>2, SameCodeReuses
  <2>6. Len(bb) > 0
    BY <1>2, <1>3
  <2> QED
    BY <1>1, <2>2, <2>4, <2>5, <2>6 DEF Here
<1>5. CASE bound
  <2>1. d = Opened(c, n, v)
    BY <1>1, <1>5 DEF CaseScope
  <2>2. PICK a : a = [kind |-> "for", decls |-> b.decls]
    OBVIOUS
  <2>3. Len(bs) + 1 \in 1 .. Len(bb) /\ bb[Len(bs) + 1] \in Constructs
    BY <1>2, <1>3
  <2>4. a \in Constructs /\ a.kind = "for" /\ a.decls = b.decls
    <3>1. b.decls \in Decls
      BY <1>3, <2>3, ConstructIs
    <3> QED
      BY <2>2, <3>1 DEF Constructs
  <2>5. PICK l \in Nat : l = Len(bs) /\ l + 1 = Len(bb) /\ l + 1 \in 1 .. l + 1
                         /\ \A i \in 1 .. l + 1 : i = l + 1 \/ (i \in 1 .. l /\ i # l + 1)
    <3>1. \A x \in Nat : /\ x + 1 \in 1 .. x + 1
                         /\ \A i \in 1 .. x + 1 : i = x + 1 \/ (i \in 1 .. x /\ i # x + 1)
      OBVIOUS
    <3> QED
      BY <1>2, <1>3, <3>1
  <2>6. PICK be \in Seq(Constructs) : /\ Len(be) = l + 1 /\ be[l + 1] = a
                                      /\ \A i \in 1 .. l : be[i] = bs[i]
    <3>1. PICK be : be = Append(bs, a)
      OBVIOUS
    <3>2. bs \in Seq(Constructs)
      BY DEF Here
    <3>3. be \in Seq(Constructs) /\ Len(be) = Len(bs) + 1 /\ be[Len(bs) + 1] = a
          /\ \A i \in 1 .. Len(bs) : be[i] = bs[i]
      BY <2>4, <3>1, <3>2
    <3> QED
      BY <2>5, <3>3
  <2>7. OpensWith(bs, be, a, n, v)
    <3>1. Extends(bs, be, a)
      BY <2>5, <2>6 DEF Extends
    <3>2. DOMAIN a.decls \subseteq {n} /\ n \in DOMAIN a.decls /\ a.decls[n] = v
      BY <1>5, <2>4
    <3> QED
      BY <2>4, <3>1, <3>2 DEF OpensWith
  <2>8. Becomes(c, bs, d, be)
    BY <2>1, <2>6, <2>7, OpenedBecomes
  <2>9. Here(d, be) /\ Reuses(c, d)
    BY <2>8 DEF Becomes
  <2>10. Replaces(be, bb, l + 1, b)
    BY <1>3, <2>5, <2>6 DEF Replaces
  <2>11. b.decls = be[l + 1].decls /\ l + 1 \in 1 .. Len(be)
    BY <2>4, <2>5, <2>6
  <2>12. Here(d, bb)
    BY <2>9, <2>10, <2>11, HereReplaced
  <2> QED
    BY <1>1, <2>9, <2>12
<1> QED
  BY <1>4, <1>5

LEMMA CaseScopeLeads ==
    ASSUME NEW c, NEW bs, Here(c, bs), NEW bound \in BOOLEAN, NEW n \in Nat, NEW v \in Nat
    PROVE  LET d == CaseScope(c, bound, n, v)
           IN  /\ Leads(c, bs, d, bs) /\ Fits(d, bs) /\ d.scopeDepth = c.scopeDepth + 1
               /\ ~bound => Slots(d, d.scopeDepth) = Slots(d, d.scopeDepth - 1)
<1>1. PICK d : d = CaseScope(c, bound, n, v)
  OBVIOUS
<1>2. /\ c \in Compilers /\ ~Inner(c) /\ Sorted(c) /\ Fits(c, bs) /\ Named(c, bs) /\ Len(bs) \in Nat
      /\ Len(bs) = c.scopeDepth /\ c.scopeDepth \in Nat
  BY HereIs
<1>3. PICK g : g = BeginScope(c)
  OBVIOUS
<1>4. Leads(c, bs, g, bs) /\ Fits(g, bs) /\ ~Inner(g)
  BY <1>2, <1>3, BeginScopeLeads
<1>5. /\ g \in Compilers /\ g.scopeDepth = c.scopeDepth + 1 /\ g.locals = c.locals
  BY <1>2, <1>3, BeginScopeIs
<1>6. PICK s \in Nat : s = c.scopeDepth /\ g.scopeDepth = s + 1 /\ (s + 1) - 1 = s /\ s <= s + 1 /\ s # s + 1
                       /\ s + 1 > 0 /\ s + 1 \in Nat
  BY <1>2, <1>5
<1>7. CASE bound
  <2>1. d = MarkInitialized(Emit(AddLocal(g, n, v), <<PushOf(v)>>))
    BY <1>1, <1>3, <1>7 DEF CaseScope, Opened
  <2>2. /\ g.scopeDepth > 0 /\ Len(bs) <= g.scopeDepth
        /\ Len(bs) = g.scopeDepth => bs[Len(bs)].kind # "match"
    BY <1>2, <1>6
  <2>3. Leads(g, bs, d, bs) /\ Fits(d, bs)
    BY <1>4, <2>1, <2>2, DeclareLeads
  <2>4. DeclaredIn(g, d, n, v)
    BY <1>5, <2>1, DeclareIs
  <2>5. d.scopeDepth = g.scopeDepth
    BY <2>4 DEF DeclaredIn
  <2>6. Leads(c, bs, d, bs)
    BY <1>4, <2>3, LeadsOn
  <2> QED
    BY <1>1, <1>5, <1>7, <2>3, <2>5, <2>6
<1>8. CASE ~bound
  <2>1. d = g
    BY <1>1, <1>3, <1>8 DEF CaseScope
  <2>2. Sorted(g)
    BY <1>4, FitsIs
  <2>3. \A i \in 1 .. Len(c.locals) : c.locals[i].depth \in 1 .. s
    BY <1>2, <1>6, FullBase
  <2>4. \A i \in 1 .. Len(g.locals) : g.locals[i].depth \in 1 .. s /\ g.locals[i].depth \in 1 .. s + 1
    <3>1. \A x \in 1 .. s : x \in 1 .. s + 1
      OBVIOUS
    <3> QED
      BY <1>5, <2>3, <3>1
  <2>5. {i \in 1 .. Len(g.locals) : g.locals[i].depth \in 1 .. s + 1}
        = {i \in 1 .. Len(g.locals) : g.locals[i].depth \in 1 .. s}
    BY <2>4
  <2>6. Base(g, s + 1) = Base(g, s)
    BY <2>5 DEF Base
  <2>7. Slots(g, s + 1) = Slots(g, s)
    BY <2>6 DEF Slots
  <2> QED
    BY <1>1, <1>4, <1>5, <1>6, <2>1, <2>7
<1> QED
  BY <1>7, <1>8

LEMMA TestBalanced ==
    ASSUME NEW xs, NEW U, NEW bound, TestFits(xs, U, bound), NEW c, NEW bs
    PROVE  \A q \in 1 .. Len(xs) : Balanced(c, bs, xs[q], q, U)
<1> TAKE q \in 1 .. Len(xs)
<1>1. PICK i : i = xs[q]
  OBVIOUS
<1>2. /\ i.op \in {"push", "pop", "branch"}
      /\ i.op = "push" => i.var = Temp /\ q - 1 \notin U /\ q \in U
      /\ i.op = "pop" => q - 1 \in U /\ q \notin U
      /\ i.op = "branch" => i.to = 0 /\ (q - 1 \in U <=> q \in U)
  BY <1>1 DEF TestFits
<1>3. Balanced(c, bs, i, q, U)
  BY <1>2, Zenon DEF Balanced
<1> QED
  BY <1>1, <1>3

\* The pattern xs follows on c, and the case b of the last block, a match, begins.
CaseWaits(c, bs, b, bound, xs) ==
    /\ Len(bs) > 0 /\ bs[Len(bs)].kind = "match" /\ c.scopeDepth = Len(bs) + 1
    /\ b.kind = "case" /\ b.fails = {i \in End(c) .. End(Emit(c, xs)) - 1 : Emit(c, xs).code[i].op = "branch"}
    /\ ~bound => Slots(c, c.scopeDepth) = Slots(c, c.scopeDepth - 1)

LEMMA FailsAre ==
    ASSUME NEW c \in Compilers, NEW e \in Compilers, NEW xs \in Seq(Instructions), Grown(c, e, xs),
           NEW j \in End(c) .. End(e) - 1
    PROVE  \E q \in 1 .. Len(xs) : j = Len(c.code) + q /\ j \in 1 .. Len(e.code) /\ e.code[j] = xs[q]
<1>1. PICK n \in Nat : n = Len(c.code) /\ End(c) = n + 1
  BY CompilerIs
<1>2. PICK k \in Nat : k = Len(xs)
  OBVIOUS
<1>3. Len(e.code) = n + k /\ End(e) = n + k + 1
  BY <1>1, <1>2 DEF Grown, End
<1>4. j \in n + 1 .. (n + k + 1) - 1
  BY <1>1, <1>3
<1>5. \A x, y \in Nat : \A z \in x + 1 .. (x + y + 1) - 1 :
          z - x \in 1 .. y /\ z = x + (z - x) /\ z \in 1 .. x + y
  OBVIOUS
<1>6. PICK q \in 1 .. k : j = n + q /\ j \in 1 .. n + k
  BY <1>4, <1>5
<1>7. e.code[n + q] = xs[q]
  BY <1>1, <1>2 DEF Grown
<1> QED
  BY <1>1, <1>2, <1>3, <1>6, <1>7

LEMMA TestLeads ==
    ASSUME NEW c, NEW bs, Fits(c, bs), NEW bound, NEW xs, NEW U, TestFits(xs, U, bound),
           NEW b, CaseWaits(c, bs, b, bound, xs), NEW bb, Extends(bs, bb, b)
    PROVE  Leads(c, bs, Emit(c, xs), bb)
<1>1. xs \in Seq(Instructions) /\ U \in SUBSET Nat /\ 0 \notin U /\ Len(xs) \notin U
  BY DEF TestFits
<1>2. PICK e : e = Emit(c, xs)
  OBVIOUS
<1>3. EmittedIn(c, bs, e, xs)
  BY <1>1, <1>2, EmitNow
<1>4. /\ e \in Compilers /\ Grown(c, e, xs) /\ Sorted(e) /\ Fits(e, bs) /\ e.locals = c.locals
      /\ e.scopeDepth = c.scopeDepth /\ e.params = c.params
  BY <1>3 DEF EmittedIn
<1>5. c \in Compilers /\ Len(bs) \in Nat /\ c.scopeDepth \in Nat
  BY FitsIs
<1>6. PICK t \in Nat : t = Len(bs) /\ c.scopeDepth = t + 1 /\ (t + 1) - 1 = t /\ t + 1 > 1
  <2>1. \A x \in Nat : x > 0 => (x + 1) - 1 = x /\ x + 1 > 1
    OBVIOUS
  <2> QED
    BY <1>5, <2>1 DEF CaseWaits
<1>7. /\ bs[t].kind = "match" /\ b.kind = "case" /\ t > 0
      /\ b.fails = {i \in End(c) .. End(e) - 1 : e.code[i].op = "branch"}
      /\ ~bound => Slots(c, c.scopeDepth) = Slots(c, t)
  BY <1>2, <1>6 DEF CaseWaits
<1>8. \A j \in b.fails :
          /\ j \in 1 .. Len(e.code) /\ e.code[j].op = "branch"
          /\ e.code[j].leaves = 0 => j = End(c) /\ ~bound
  <2> TAKE j \in b.fails
  <2>1. j \in End(c) .. End(e) - 1 /\ e.code[j].op = "branch"
    BY <1>7
  <2>2. PICK q \in 1 .. Len(xs) : j = Len(c.code) + q /\ j \in 1 .. Len(e.code) /\ e.code[j] = xs[q]
    BY <1>1, <1>4, <1>5, <2>1, FailsAre
  <2>3. e.code[j].leaves = 0 => q = 1 /\ ~bound
    BY <2>1, <2>2 DEF TestFits
  <2>4. End(c) = Len(c.code) + 1
    BY DEF End
  <2> QED
    BY <2>1, <2>2, <2>3, <2>4
<1>9. Slots(e, t) = Slots(c, t)
  BY <1>4, SameNow
<1>10. SUFFICES ASSUME NEW L, Ready(c, bs, L)
                PROVE  \E M : /\ Ready(e, bb, M)
                              /\ \A O : Tracked(c, bs, L, O) => \E P : Tracked(e, bb, M, P)
  BY <1>2 DEF Leads
<1>11. PICK M : M = Stays(c, U, L)
  OBVIOUS
<1>12. /\ Ready(e, bs, M)
       /\ \A O : Tracked(c, bs, L, O) => Tracked(e, bs, M, StaysOpen(c, O))
  <2>1. \A q \in 1 .. Len(xs) : Balanced(c, bs, xs[q], q, U)
    BY TestBalanced
  <2> QED
    BY <1>1, <1>4, <1>10, <1>11, <2>1, EmitBalanced
<1>13. PICK n \in Nat : n = End(c) /\ n <= n
  <2>1. \A x \in Nat : x <= x
    OBVIOUS
  <2> QED
    BY <1>5, <2>1, CompilerIs
<1>14. M[n] = Slots(c, c.scopeDepth)
  <2>1. M[n] = L[n]
    BY <1>11, <1>13 DEF Stays
  <2> QED
    BY <1>10, <1>13, <2>1 DEF Ready
<1>15. BlockLaid(b, t + 1, e, M)
  <2>1. \A j \in b.fails :
           /\ j \in 1 .. Len(e.code) /\ e.code[j].op = "branch"
           /\ e.code[j].leaves = 0 => M[j] = Slots(e, t)
    BY <1>7, <1>8, <1>9, <1>13, <1>14
  <2> QED
    BY <1>6, <1>7, <2>1 DEF BlockLaid
<1>16. Follows(e, bs, M, b)
  BY <1>6, <1>7, <1>15 DEF Follows
<1>17. LaidMore(e, bs, bb, M, b)
  BY <1>5, <1>12, <1>16, AppendLaid DEF Ready
<1>18. ASSUME NEW O, Tracked(c, bs, L, O) PROVE Tracked(e, bb, M, StaysOpen(c, O))
  <2>1. PICK P : P = StaysOpen(c, O)
    OBVIOUS
  <2>2. Tracked(e, bs, M, P)
    BY <1>12, <1>18, <2>1
  <2>3. P[n] = O[n] /\ P[End(e)] = O[n]
    <3>1. P[n] = O[n]
      BY <1>13, <2>1, Zenon DEF StaysOpen
    <3>2. End(e) \in Nat /\ (End(e) <= n => End(e) = n)
      <4>1. PICK l \in Nat : l = Len(c.code)
        BY <1>5, CompilerIs
      <4>2. PICK k \in Nat : k = Len(xs)
        BY <1>1
      <4>3. End(e) = l + k + 1 /\ n = l + 1
        BY <1>4, <1>13, <4>1, <4>2 DEF Grown, End
      <4>4. \A x, y \in Nat : x + y + 1 \in Nat /\ (x + y + 1 <= x + 1 => x + y + 1 = x + 1)
        OBVIOUS
      <4> QED
        BY <4>3, <4>4
    <3>3. P[End(e)] = O[n]
      BY <1>13, <2>1, <3>2, Zenon DEF StaysOpen
    <3> QED
      BY <3>1, <3>3
  <2>4. Covered(e, M, b, P)
    <3>1. Pending(b, e) = {j \in b.fails : e.code[j].leaves = 0}
      BY <1>7 DEF Pending
    <3>2. \A j \in Pending(b, e) : j = n
      BY <1>8, <1>13, <3>1
    <3> QED
      BY <1>7, <2>3, <3>2 DEF Covered
  <2> QED
    BY <1>17, <2>1, <2>2, <2>4 DEF LaidMore, Tracked
<1>19. Ready(e, bb, M)
  BY <1>12, <1>17 DEF LaidMore, Ready
<1> QED
  BY <1>18, <1>19

LEMMA BeginCaseBecomes ==
    ASSUME NEW c, NEW bs, Here(c, bs), NEW bb \in Seq(Constructs), NEW array \in BOOLEAN,
           NEW bound \in BOOLEAN, NEW n \in Nat, NEW v \in Nat, NEW b, NEW d, NEW e,
           d = CaseScope(c, bound, n, v), e = Emit(d, Test(array, bound)),
           CaseBegins(c, bs, bb, b, bound, n, v, d, e)
    PROVE  Becomes(c, bs, e, bb)
<1>0. /\ bs[Len(bs)].kind = "match" /\ Extends(bs, bb, b) /\ b.kind = "case"
      /\ DOMAIN b.decls = (IF bound THEN {n} ELSE {}) /\ (bound => n # NoName /\ b.decls[n] = v)
      /\ b.fails = {i \in End(d) .. End(e) - 1 : e.code[i].op = "branch"}
  BY DEF CaseBegins
<1>1. c \in Compilers /\ Len(bs) = c.scopeDepth /\ Len(bs) > 0 /\ Len(bs) \in Nat
  BY HereIs
<1>2. Here(d, bb) /\ Reuses(c, d)
  BY <1>0, CaseScopeNamed
<1>3. /\ Leads(c, bs, d, bs) /\ Fits(d, bs) /\ d.scopeDepth = c.scopeDepth + 1
      /\ ~bound => Slots(d, d.scopeDepth) = Slots(d, d.scopeDepth - 1)
  <2>1. LET x == CaseScope(c, bound, n, v)
        IN  /\ Leads(c, bs, x, bs) /\ Fits(x, bs) /\ x.scopeDepth = c.scopeDepth + 1
            /\ ~bound => Slots(x, x.scopeDepth) = Slots(x, x.scopeDepth - 1)
    BY CaseScopeLeads
  <2> QED
    BY <2>1
<1>4. PICK xs : xs = Test(array, bound)
  OBVIOUS
<1>5. PICK U : TestFits(xs, U, bound)
  BY <1>4, TestIs
<1>6. CaseWaits(d, bs, b, bound, xs)
  BY <1>0, <1>1, <1>3, <1>4 DEF CaseWaits
<1>7. Leads(d, bs, e, bb)
  BY <1>0, <1>3, <1>4, <1>5, <1>6, TestLeads
<1>8. xs \in Seq(Instructions) /\ \A q \in 1 .. Len(xs) : xs[q].op # "upvalue"
  BY <1>5 DEF TestFits
<1>9. EmittedIn(d, bs, e, xs)
  BY <1>3, <1>4, <1>8, EmitNow
<1>10. /\ e \in Compilers /\ Grown(d, e, xs) /\ e.locals = d.locals /\ e.upvalues = d.upvalues
       /\ e.scopeDepth = d.scopeDepth
  BY <1>9 DEF EmittedIn
<1>11. d \in Compilers
  BY <1>3, FitsIs
<1>12. Reuses(d, e)
  BY <1>8, <1>10, <1>11, GrownReuses
<1>13. Here(e, bb)
  BY <1>2, <1>10, HereSame
<1>14. Leads(c, bs, e, bb) /\ Reuses(c, e)
  BY <1>2, <1>3, <1>7, <1>12, LeadsOn, ReusesOn
<1> QED
  BY <1>13, <1>14 DEF Becomes
=============================================================================
