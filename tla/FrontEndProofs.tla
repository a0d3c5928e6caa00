--------------------------- MODULE FrontEndProofs ---------------------------
(* Theorems about three parts of the front end.  About the source loader,  *)
(* for every set of files and every program: what it accepts has no import *)
(* cycle, what it writes is all that the entry reaches, each module once   *)
(* and after its imports, and the names that modules take from each other  *)
(* have one definition.  About exits, at every depth of nesting: the plain *)
(* ones (PlainExit) are compiled right.  About the optimizer, for every    *)
(* chunk: what its safe rewritings leave does what the compiler emitted.   *)
EXTENDS SourceLoader, CompilerPasses, FiniteSetTheorems, SequenceTheorems, TLAPS

-----------------------------------------------------------------------------
(* Sequences as stacks and lists                                           *)

List(s) == s \in Seq(ToSet(s))

LEMMA SeqIsList ==
    ASSUME NEW S, NEW s \in Seq(S)
    PROVE  List(s) /\ ToSet(s) \subseteq S
<1>1. Len(s) \in Nat /\ s \in [1 .. Len(s) -> S] /\ DOMAIN s = 1 .. Len(s)
  BY LenProperties
<1>2. s \in [1 .. Len(s) -> ToSet(s)]
  BY <1>1 DEF ToSet
<1>3. s \in Seq(ToSet(s))
  BY <1>1, <1>2, IsASeq
<1> QED
  BY <1>1, <1>3 DEF List, ToSet

LEMMA ListFacts ==
    ASSUME NEW s, List(s)
    PROVE  /\ Len(s) \in Nat /\ DOMAIN s = 1 .. Len(s)
           /\ s = <<>> <=> Len(s) = 0
           /\ s # <<>> => Head(s) = s[1]
           /\ \A x : x \in ToSet(s) <=> \E i \in 1 .. Len(s) : s[i] = x
           /\ \A x : Contains(s, x) <=> x \in ToSet(s)
<1>1. Len(s) \in Nat /\ DOMAIN s = 1 .. Len(s)
  BY LenProperties DEF List
<1>2. s = <<>> <=> Len(s) = 0
  BY EmptySeq DEF List
<1>3. s # <<>> => Head(s) = s[1]
  BY HeadTailProperties DEF List
<1>4. \A x : x \in ToSet(s) <=> \E i \in 1 .. Len(s) : s[i] = x
  BY <1>1 DEF ToSet
<1> QED
  BY <1>1, <1>2, <1>3, <1>4 DEF Contains

LEMMA Pushing ==
    ASSUME NEW s, List(s), NEW x
    PROVE  LET t == <<x>> \o s
           IN  /\ List(t) /\ Len(t) = Len(s) + 1 /\ t[1] = x
               /\ \A i \in 1 .. Len(s) : t[i + 1] = s[i]
               /\ \A i \in 2 .. Len(t) : t[i] = s[i - 1] /\ i - 1 \in 1 .. Len(s)
               /\ t # <<>>
<1> DEFINE S == ToSet(s) \union {x}
           t == <<x>> \o s
<1>1. s \in Seq(S) /\ <<x>> \in Seq(S)
  <2>1. s \in Seq(ToSet(s)) /\ \A i \in 1 .. Len(s) : s[i] \in ToSet(s)
    BY ListFacts DEF List, ToSet
  <2>2. s \in Seq(S)
    BY <2>1, SeqMonotonic, Zenon
  <2> QED
    BY <2>2
<1>2. Len(<<x>>) = 1 /\ <<x>>[1] = x /\ Len(s) \in Nat
  BY ListFacts
<1> HIDE DEF S
<1>3. /\ t \in Seq(S) /\ Len(t) = 1 + Len(s)
      /\ \A i \in 1 .. Len(t) : t[i] = IF i <= 1 THEN <<x>>[i] ELSE s[i - 1]
  BY <1>1, <1>2, ConcatProperties
<1>4. List(t)
  BY <1>3, SeqIsList
<1>5. t # <<>>
  BY <1>2, <1>3, <1>4, ListFacts
<1> HIDE DEF t
<1>6. /\ Len(t) = Len(s) + 1 /\ t[1] = x
      /\ \A i \in 1 .. Len(s) : t[i + 1] = s[i]
      /\ \A i \in 2 .. Len(t) : t[i] = s[i - 1] /\ i - 1 \in 1 .. Len(s)
  BY <1>2, <1>3
<1> QED
  BY <1>4, <1>5, <1>6 DEF t

LEMMA Popping ==
    ASSUME NEW s, List(s), s # <<>>
    PROVE  LET t == Tail(s)
           IN  /\ List(t) /\ Len(t) = Len(s) - 1 /\ Len(s) \in Nat \ {0}
               /\ \A i \in 1 .. Len(t) : t[i] = s[i + 1] /\ i + 1 \in 1 .. Len(s)
               /\ \A i \in 2 .. Len(s) : s[i] = t[i - 1] /\ i - 1 \in 1 .. Len(t)
<1> DEFINE t == Tail(s)
<1>1. /\ t \in Seq(ToSet(s)) /\ Len(t) = Len(s) - 1
      /\ \A i \in 1 .. Len(t) : t[i] = s[i + 1]
  BY HeadTailProperties DEF List
<1>2. List(t)
  BY <1>1, SeqIsList
<1>3. Len(s) \in Nat \ {0}
  BY ListFacts
<1> HIDE DEF t
<1>4. /\ \A i \in 1 .. Len(t) : t[i] = s[i + 1] /\ i + 1 \in 1 .. Len(s)
      /\ \A i \in 2 .. Len(s) : s[i] = t[i - 1] /\ i - 1 \in 1 .. Len(t)
  BY <1>1, <1>3
<1> QED
  BY <1>1, <1>2, <1>3, <1>4 DEF t

LEMMA Appending ==
    ASSUME NEW s, List(s), NEW x
    PROVE  LET t == Append(s, x)
           IN  /\ List(t) /\ Len(t) = Len(s) + 1 /\ t[Len(t)] = x
               /\ \A i \in 1 .. Len(s) : t[i] = s[i]
               /\ ToSet(t) = ToSet(s) \union {x}
<1> DEFINE S == ToSet(s) \union {x}
           t == Append(s, x)
<1>1. s \in Seq(S) /\ Len(s) \in Nat
  BY ListFacts, SeqMonotonic DEF List
<1> HIDE DEF S
<1>2. /\ t \in Seq(S) /\ Len(t) = Len(s) + 1
      /\ \A i \in 1 .. Len(s) : t[i] = s[i]
      /\ t[Len(s) + 1] = x
  BY <1>1, AppendProperties DEF S
<1>3. List(t)
  BY <1>2, SeqIsList
<1> HIDE DEF t
<1>4. ToSet(t) = ToSet(s) \union {x}
  <2>1. /\ \A y : y \in ToSet(t) <=> \E i \in 1 .. Len(t) : t[i] = y
        /\ \A y : y \in ToSet(s) <=> \E i \in 1 .. Len(s) : s[i] = y
    BY <1>3, ListFacts, Zenon
  <2>2. ASSUME NEW i \in 1 .. Len(t) PROVE t[i] \in ToSet(s) \union {x}
    <3>1. i \in 1 .. Len(s) \/ i = Len(s) + 1
      BY <1>1, <1>2
    <3> QED
      BY <1>2, <2>1, <3>1
  <2>3. Len(s) + 1 \in 1 .. Len(t) /\ \A i \in 1 .. Len(s) : i \in 1 .. Len(t)
    BY <1>1, <1>2
  <2>4. ToSet(s) \union {x} \subseteq ToSet(t)
    BY <1>2, <2>1, <2>3
  <2> QED
    BY <2>1, <2>2, <2>4
<1> QED
  BY <1>1, <1>2, <1>3, <1>4 DEF t

-----------------------------------------------------------------------------
(* What a program imports                                                  *)

LEMMA SameProgram ==
    ASSUME program' = program
    PROVE  /\ \A m : Imports(m)' = Imports(m) /\ ImportsOf(m)' = ImportsOf(m) /\ Below(m)' = Below(m)
           /\ \A S : Closed(S)' <=> Closed(S)
           /\ Reachable' = Reachable
           /\ \A m : Decls(m)' = Decls(m) /\ Exported(m)' = Exported(m)
           /\ \A m, id : Exports(m, id)' = Exports(m, id)
<1>1. \A m : Imports(m)' = Imports(m)
  BY Zenon DEF Imports
<1>2. \A m : ImportsOf(m)' = ImportsOf(m)
  BY <1>1 DEF ImportsOf
<1>3. \A S : Closed(S)' <=> Closed(S)
  BY <1>2 DEF Closed
<1>4. \A m : Below(m)' = Below(m)
  BY <1>2, <1>3 DEF Below
<1>5. Reachable' = Reachable
  BY <1>4 DEF Reachable
<1>6. \A m : Decls(m)' = Decls(m) /\ (UsesVisibility(m)' <=> UsesVisibility(m))
  BY DEF Decls, UsesVisibility
<1>7. \A m : Exported(m)' = Exported(m)
  BY <1>6 DEF Exported
<1>8. \A m, id : Exports(m, id)' = Exports(m, id)
  BY <1>7 DEF Exports
<1> QED
  BY <1>1, <1>2, <1>3, <1>4, <1>5, <1>6, <1>7, <1>8, Zenon

LEMMA ImportsAre ==
    ASSUME program \in Programs, NEW m \in Modules
    PROVE  /\ Len(Imports(m)) \in Nat /\ DOMAIN Imports(m) = 1 .. Len(Imports(m))
           /\ \A i \in DOMAIN Imports(m) :
                 /\ Imports(m)[i].target \in Modules \union {Missing}
                 /\ Imports(m)[i].target # Missing => Imports(m)[i].target \in ImportsOf(m)
                 /\ Imports(m)[i].kind \in {"plain", "wild", "item", "space"}
           /\ ImportsOf(m) \subseteq Modules
BY LoaderAssumption DEF Imports, ImportsOf

LEMMA BelowIs ==
    ASSUME program \in Programs, NEW m \in Modules
    PROVE  /\ ImportsOf(m) \subseteq Below(m) /\ Below(m) \subseteq Modules
           /\ \A k \in Below(m) : ImportsOf(k) \subseteq Below(m)
           /\ \A S \in SUBSET Modules : ImportsOf(m) \subseteq S /\ Closed(S) => Below(m) \subseteq S
<1>1. \A k \in Modules : ImportsOf(k) \subseteq Modules
  BY ImportsAre
<1>2. ASSUME NEW k \in Below(m), NEW x \in ImportsOf(k) PROVE x \in Below(m)
  <2>1. k \in Modules /\ x \in Modules
    BY <1>1 DEF Below
  <2>2. ASSUME NEW S \in SUBSET Modules, ImportsOf(m) \subseteq S, Closed(S) PROVE x \in S
    BY <2>2 DEF Below, Closed
  <2> QED
    BY <2>1, <2>2 DEF Below
<1> QED
  BY <1>1, <1>2 DEF Below

LEMMA ReachableIs ==
    ASSUME program \in Programs
    PROVE  /\ Reachable \subseteq Modules /\ Entry \in Reachable
           /\ \A k \in Reachable : ImportsOf(k) \subseteq Reachable
           /\ \A S \in SUBSET Modules : Entry \in S /\ Closed(S) => Reachable \subseteq S
<1>1. Entry \in Modules
  BY LoaderAssumption
<1> QED
  BY <1>1, BelowIs DEF Reachable, Closed

-----------------------------------------------------------------------------
(* The invariant of processModule: the modules being processed are a path  *)
(* of imports from the entry, what a module depends on is the imports it   *)
(* has got over, and what is loaded is closed under imports and has no     *)
(* cycle; the numbers that were given out are different.                   *)

DoneImports(f) == {Imports(f.module)[i].target : i \in 1 .. f.next - 1}

FromExports(names, deps) ==
    \A n \in DOMAIN names : \E k \in ToSet(deps) : \E d \in DOMAIN loaded[k].exports :
        names[n] = loaded[k].exports[d]

FrameInv(f) ==
    /\ DOMAIN f = {"module", "id", "next", "deps", "names", "spaces"}
    /\ f.module \in Reachable /\ f.module \notin DOMAIN loaded
    /\ f.id \in Nat /\ f.id < nextId
    /\ f.next \in 1 .. Len(Imports(f.module)) + 1
    /\ List(f.deps) /\ ToSet(f.deps) = DoneImports(f) /\ ToSet(f.deps) \subseteq DOMAIN loaded
    /\ FromExports(f.names, f.deps)

StackInv ==
    /\ List(stack)
    /\ \A i \in DOMAIN stack : FrameInv(stack[i])
    /\ \A i, j \in DOMAIN stack : i < j =>
           /\ stack[i].module \in Below(stack[j].module)
           /\ stack[i].module # stack[j].module /\ stack[i].id # stack[j].id
    /\ stack # <<>> => stack[Len(stack)].module = Entry
    /\ stack = <<>> => Entry \in DOMAIN loaded

ModuleInv(m, r) ==
    /\ m \in Reachable /\ m \notin Below(m) /\ ImportsOf(m) \subseteq DOMAIN loaded
    /\ List(r.deps) /\ ToSet(r.deps) = ImportsOf(m)
    /\ r.id \in Nat /\ r.id < nextId
    /\ r.exports = Exports(m, r.id)
    /\ FromExports(r.names, r.deps)

LoadedInv ==
    /\ \A m \in DOMAIN loaded : ModuleInv(m, loaded[m])
    /\ \A m, k \in DOMAIN loaded : loaded[m].id = loaded[k].id => m = k
    /\ \A m \in DOMAIN loaded, i \in DOMAIN stack : loaded[m].id # stack[i].id

NumberInv == nextId \in Nat /\ nextId = Cardinality(DOMAIN loaded \union Active) + 1

LoadInv == program \in Programs /\ StackInv /\ LoadedInv /\ NumberInv

LEMMA LoadStart == Init => LoadInv
<1> SUFFICES ASSUME Init PROVE LoadInv
  OBVIOUS
<1> DEFINE f == Frame(Entry, 1)
<1>1. program \in Programs /\ loaded = <<>> /\ nextId = 2 /\ stack = <<f>>
  BY DEF Init
<1>2. DOMAIN loaded = {}
  BY <1>1
<1>3. List(stack) /\ Len(stack) = 1 /\ DOMAIN stack = {1} /\ stack[1] = f /\ stack # <<>>
  <2>1. <<f>> \in Seq({f}) /\ Len(<<f>>) = 1 /\ <<f>>[1] = f
    OBVIOUS
  <2>2. List(stack)
    BY <1>1, <2>1, SeqIsList
  <2> HIDE DEF f
  <2>3. Len(stack) = 1 /\ stack[1] = f
    BY <1>1, <2>1
  <2> QED
    BY <2>2, <2>3, ListFacts
<1>4. /\ DOMAIN f = {"module", "id", "next", "deps", "names", "spaces"}
      /\ f.module = Entry /\ f.id = 1 /\ f.next = 1 /\ f.deps = <<>> /\ f.names = <<>>
  BY DEF Frame
<1> HIDE DEF f
<1>5. FrameInv(f)
  <2>1. Entry \in Modules /\ Len(Imports(Entry)) \in Nat /\ Entry \in Reachable
    BY <1>1, LoaderAssumption, ImportsAre, ReachableIs
  <2>2. List(f.deps) /\ ToSet(f.deps) = {} /\ DOMAIN f.names = {}
    BY <1>4 DEF List, ToSet
  <2>3. DoneImports(f) = {}
    BY <1>4 DEF DoneImports
  <2> QED
    BY <1>1, <1>2, <1>4, <2>1, <2>2, <2>3 DEF FrameInv, FromExports
<1>6. StackInv
  BY <1>3, <1>4, <1>5 DEF StackInv
<1>7. LoadedInv
  BY <1>2 DEF LoadedInv
<1>8. NumberInv
  <2>1. DOMAIN loaded \union Active = {Entry}
    BY <1>2, <1>3, <1>4 DEF Active
  <2>2. Cardinality({Entry}) = 1
    BY FS_Singleton, Zenon
  <2>3. Cardinality(DOMAIN loaded \union Active) = 1
    BY <2>1, <2>2, Zenon
  <2> QED
    BY <1>1, <2>3 DEF NumberInv
<1> QED
  BY <1>1, <1>6, <1>7, <1>8 DEF LoadInv

LEMMA LoadSame ==
    ASSUME LoadInv, UNCHANGED <<program, stack, loaded, nextId>>
    PROVE  LoadInv'
<1>1. \A names, deps : FromExports(names, deps)' <=> FromExports(names, deps)
  BY Zenon DEF FromExports
<1>2. \A f : DoneImports(f)' = DoneImports(f)
  BY SameProgram DEF DoneImports
<1>3. \A f : FrameInv(f)' <=> FrameInv(f)
  BY <1>1, <1>2, SameProgram, Zenon DEF FrameInv
<1>4. \A m, r : ModuleInv(m, r)' <=> ModuleInv(m, r)
  BY <1>1, SameProgram, Zenon DEF ModuleInv
<1>5. StackInv'
  BY <1>3, SameProgram DEF LoadInv, StackInv
<1>6. LoadedInv'
  BY <1>4, Zenon DEF LoadInv, LoadedInv
<1>7. NumberInv'
  BY DEF LoadInv, NumberInv, Active
<1> QED
  BY <1>5, <1>6, <1>7 DEF LoadInv

LEMMA SameFrames ==
    ASSUME program' = program, loaded' = loaded, nextId \in Nat, nextId' \in Nat, nextId <= nextId',
           NEW f, FrameInv(f)
    PROVE  FrameInv(f)'
<1>1. \A names, deps : FromExports(names, deps)' <=> FromExports(names, deps)
  BY Zenon DEF FromExports
<1>2. DoneImports(f)' = DoneImports(f)
  BY SameProgram DEF DoneImports
<1>3. f.id \in Nat /\ f.id < nextId'
  BY DEF FrameInv
<1> QED
  BY <1>1, <1>2, <1>3, SameProgram, Zenon DEF FrameInv

LEMMA SameModules ==
    ASSUME program' = program, loaded' = loaded, nextId \in Nat, nextId' \in Nat, nextId <= nextId',
           NEW m, NEW r, ModuleInv(m, r)
    PROVE  ModuleInv(m, r)'
<1>1. \A names, deps : FromExports(names, deps)' <=> FromExports(names, deps)
  BY Zenon DEF FromExports
<1>2. r.id \in Nat /\ r.id < nextId'
  BY DEF ModuleInv
<1> QED
  BY <1>1, <1>2, SameProgram, Zenon DEF ModuleInv

LEMMA TopIs ==
    ASSUME LoadInv, stack # <<>>
    PROVE  /\ Len(stack) \in Nat \ {0} /\ 1 \in DOMAIN stack /\ DOMAIN stack = 1 .. Len(stack)
           /\ Top = stack[1] /\ FrameInv(Top) /\ Top.module \in Modules
           /\ \A j \in 2 .. Len(stack) : j \in DOMAIN stack
<1>1. /\ List(stack) /\ Len(stack) \in Nat /\ DOMAIN stack = 1 .. Len(stack)
      /\ Len(stack) # 0 /\ Head(stack) = stack[1]
  BY ListFacts DEF LoadInv, StackInv
<1>2. 1 \in DOMAIN stack /\ \A j \in 2 .. Len(stack) : j \in DOMAIN stack
  BY <1>1
<1>3. FrameInv(Top)
  BY <1>1, <1>2 DEF LoadInv, StackInv, Top
<1> QED
  BY <1>1, <1>2, <1>3, ReachableIs DEF Top, FrameInv, LoadInv

LEMMA ImportIs ==
    ASSUME LoadInv, AtImport
    PROVE  /\ Import.target \in Modules \union {Missing}
           /\ Import.kind \in {"plain", "wild", "item", "space"}
           /\ Import.target # Missing => Import.target \in ImportsOf(Top.module)
           /\ Top.next \in DOMAIN Imports(Top.module)
<1>1. stack # <<>> /\ Top.next <= Len(Imports(Top.module))
  BY DEF AtImport
<1>2. /\ Top.module \in Modules /\ Top.next \in 1 .. Len(Imports(Top.module)) + 1
      /\ program \in Programs
  BY <1>1, TopIs DEF FrameInv, LoadInv
<1>3. Len(Imports(Top.module)) \in Nat /\ DOMAIN Imports(Top.module) = 1 .. Len(Imports(Top.module))
  BY <1>2, ImportsAre
<1>4. Top.next \in DOMAIN Imports(Top.module)
  BY <1>1, <1>2, <1>3
<1> QED
  BY <1>2, <1>4, ImportsAre, Zenon DEF Import

LEMMA EnterStep == LoadInv /\ Enter => LoadInv'
<1> SUFFICES ASSUME LoadInv, Enter PROVE LoadInv'
  OBVIOUS
<1>0. PICK m, f, n : m = Import.target /\ f = Frame(m, nextId) /\ n = Len(stack)
  OBVIOUS
<1>1. /\ AtImport /\ m \in Modules /\ m \notin Active /\ m \notin DOMAIN loaded
      /\ stack' = <<f>> \o stack /\ nextId' = nextId + 1 /\ program' = program /\ loaded' = loaded
  BY <1>0 DEF Enter
<1>2. /\ stack # <<>> /\ List(stack) /\ nextId \in Nat /\ nextId' \in Nat /\ nextId <= nextId'
      /\ program \in Programs
  BY <1>1 DEF AtImport, LoadInv, StackInv, NumberInv
<1>3. /\ n \in Nat \ {0} /\ DOMAIN stack = 1 .. n /\ 1 \in DOMAIN stack
      /\ m \in ImportsOf(stack[1].module) /\ stack[1].module \in Reachable
  BY <1>0, <1>1, <1>2, TopIs, ImportIs, LoaderAssumption DEF FrameInv
<1>4. /\ List(stack') /\ Len(stack') = n + 1 /\ DOMAIN stack' = 1 .. n + 1 /\ stack' # <<>>
      /\ stack'[1] = f /\ \A i \in 2 .. n + 1 : stack'[i] = stack[i - 1] /\ i - 1 \in DOMAIN stack
      /\ \A i \in 1 .. n : stack'[i + 1] = stack[i]
  <2>1. List(stack') /\ Len(stack') = n + 1
    BY <1>0, <1>1, <1>2, Pushing
  <2>2. DOMAIN stack' = 1 .. n + 1
    BY <2>1, ListFacts
  <2>3. /\ stack'[1] = f /\ stack' # <<>>
        /\ \A i \in 1 .. Len(stack) : stack'[i + 1] = stack[i]
        /\ \A i \in 2 .. Len(stack') : stack'[i] = stack[i - 1] /\ i - 1 \in 1 .. Len(stack)
    BY <1>1, <1>2, Pushing
  <2> QED
    BY <1>0, <1>3, <2>1, <2>2, <2>3
<1>5. /\ DOMAIN f = {"module", "id", "next", "deps", "names", "spaces"}
      /\ f.module = m /\ f.id = nextId /\ f.next = 1 /\ f.deps = <<>> /\ f.names = <<>>
  BY <1>0 DEF Frame
<1>6. \A k : FrameInv(k) => FrameInv(k)'
  BY <1>1, <1>2, SameFrames
<1>7. FrameInv(f)'
  <2>1. Len(Imports(m)) \in Nat /\ m \in Reachable
    BY <1>1, <1>2, <1>3, ImportsAre, ReachableIs
  <2>2. List(f.deps) /\ ToSet(f.deps) = {} /\ DOMAIN f.names = {}
    BY <1>5 DEF List, ToSet
  <2>3. DoneImports(f)' = {}
    BY <1>5 DEF DoneImports
  <2>4. Len(Imports(m))' \in Nat /\ m \in Reachable'
    BY <1>1, <2>1, SameProgram
  <2> QED
    BY <1>1, <1>2, <1>5, <2>2, <2>3, <2>4 DEF FrameInv, FromExports
<1>8. \A i \in DOMAIN stack : /\ FrameInv(stack[i]) /\ stack[i].id < nextId /\ stack[i].id \in Nat
                              /\ stack[i].module # m /\ m \in Below(stack[i].module)
  <2> SUFFICES ASSUME NEW i \in DOMAIN stack
               PROVE  /\ FrameInv(stack[i]) /\ stack[i].id < nextId /\ stack[i].id \in Nat
                      /\ stack[i].module # m /\ m \in Below(stack[i].module)
    OBVIOUS
  <2>1. FrameInv(stack[i])
    BY DEF LoadInv, StackInv
  <2>2. stack[i].module # m
    BY <1>1 DEF Active
  <2>3. stack[i].module \in Modules
    BY <1>2, <2>1, ReachableIs DEF FrameInv
  <2>4. i = 1 \/ stack[1].module \in Below(stack[i].module)
    <3>1. i = 1 \/ 1 < i
      BY <1>3
    <3> QED
      BY <1>3, <3>1 DEF LoadInv, StackInv
  <2>5. m \in Below(stack[i].module)
    BY <1>2, <1>3, <2>3, <2>4, BelowIs
  <2> QED
    BY <2>1, <2>2, <2>5 DEF FrameInv
<1>9. \A i \in DOMAIN stack' : FrameInv(stack[i])'
  <2> SUFFICES ASSUME NEW i \in DOMAIN stack' PROVE FrameInv(stack[i])'
    OBVIOUS
  <2>1. i = 1 \/ i \in 2 .. n + 1
    BY <1>3, <1>4
  <2> QED
    BY <1>4, <1>6, <1>7, <1>8, <2>1, Zenon
<1>10. \A i, j \in DOMAIN stack' : i < j =>
           /\ stack'[i].module \in Below(stack'[j].module)
           /\ stack'[i].module # stack'[j].module /\ stack'[i].id # stack'[j].id
  <2> SUFFICES ASSUME NEW i \in DOMAIN stack', NEW j \in DOMAIN stack', i < j
               PROVE  /\ stack'[i].module \in Below(stack'[j].module)
                      /\ stack'[i].module # stack'[j].module /\ stack'[i].id # stack'[j].id
    OBVIOUS
  <2>1. j \in 2 .. n + 1 /\ (i = 1 \/ (i \in 2 .. n + 1 /\ i - 1 < j - 1))
    BY <1>3, <1>4
  <2>2. CASE i = 1
    <3>1. stack'[i] = f /\ stack'[j] = stack[j - 1] /\ j - 1 \in DOMAIN stack
      BY <1>4, <2>1, <2>2
    <3>2. nextId # stack[j - 1].id
      BY <1>2, <1>8, <3>1
    <3> QED
      BY <1>5, <1>8, <3>1, <3>2
  <2>3. CASE i # 1
    <3>1. /\ stack'[i] = stack[i - 1] /\ stack'[j] = stack[j - 1] /\ i - 1 < j - 1
          /\ i - 1 \in DOMAIN stack /\ j - 1 \in DOMAIN stack
      BY <1>4, <2>1, <2>3
    <3> QED
      BY <3>1, Zenon DEF LoadInv, StackInv
  <2> QED
    BY <2>2, <2>3
<1>11. stack'[Len(stack')].module = Entry
  <2>1. stack'[n + 1] = stack[n]
    BY <1>3, <1>4
  <2> QED
    BY <1>0, <1>2, <1>4, <2>1 DEF LoadInv, StackInv
<1>12. StackInv'
  BY <1>1, <1>4, <1>9, <1>10, <1>11, SameProgram DEF StackInv
<1>13. LoadedInv'
  <2>1. \A k \in DOMAIN loaded : /\ ModuleInv(k, loaded[k])' /\ loaded[k].id \in Nat /\ loaded[k].id < nextId
    BY <1>1, <1>2, SameModules DEF LoadInv, LoadedInv, ModuleInv
  <2>2. ASSUME NEW k \in DOMAIN loaded, NEW i \in DOMAIN stack' PROVE loaded[k].id # stack'[i].id
    <3>1. i = 1 \/ i \in 2 .. n + 1
      BY <1>3, <1>4
    <3>2. loaded[k].id # nextId
      BY <1>2, <2>1
    <3> QED
      BY <1>4, <1>5, <3>1, <3>2 DEF LoadInv, LoadedInv
  <2> QED
    BY <1>1, <2>1, <2>2 DEF LoadInv, LoadedInv
<1>14. NumberInv'
  <2>1. Active' = Active \union {m}
    <3>1. \A i \in DOMAIN stack' : stack'[i].module \in Active \union {m}
      <4> SUFFICES ASSUME NEW i \in DOMAIN stack' PROVE stack'[i].module \in Active \union {m}
        OBVIOUS
      <4>1. i = 1 \/ i \in 2 .. n + 1
        BY <1>3, <1>4
      <4> QED
        BY <1>4, <1>5, <4>1 DEF Active
    <3>2. \A i \in DOMAIN stack : stack[i].module \in Active'
      <4>1. \A i \in 1 .. n : i + 1 \in DOMAIN stack' /\ stack'[i + 1] = stack[i]
        BY <1>3, <1>4
      <4> QED
        BY <1>3, <4>1 DEF Active
    <3>3. m \in Active'
      <4>1. 1 \in DOMAIN stack'
        BY <1>3, <1>4
      <4> QED
        BY <1>4, <1>5, <4>1 DEF Active
    <3> QED
      BY <3>1, <3>2, <3>3 DEF Active
  <2> DEFINE S == DOMAIN loaded \union Active
  <2>2. S \subseteq Modules
    BY <1>2, <1>8, ReachableIs DEF Active, LoadInv, LoadedInv, ModuleInv, FrameInv
  <2>3. IsFiniteSet(S)
    BY <2>2, FS_Subset, LoaderAssumption
  <2>4. m \notin S /\ (DOMAIN loaded \union Active)' = S \union {m}
    BY <1>1, <2>1
  <2>5. nextId = Cardinality(S) + 1
    BY DEF LoadInv, NumberInv
  <2> HIDE DEF S
  <2>6. Cardinality(S \union {m}) = Cardinality(S) + 1 /\ Cardinality(S) \in Nat
    BY <2>3, <2>4, FS_AddElement, FS_CardinalityType
  <2>7. nextId' = Cardinality(S \union {m}) + 1
    BY <1>1, <2>5, <2>6
  <2> QED
    BY <1>2, <2>4, <2>7 DEF NumberInv
<1> QED
  BY <1>1, <1>2, <1>12, <1>13, <1>14 DEF LoadInv

(* What an import binds are exports of the module it names. *)
LEMMA BoundAreExports ==
    ASSUME NEW i, i.kind \in {"plain", "wild", "item", "space"}, NEW exports,
           i.kind = "item" => i.item \in DOMAIN exports,
           NEW n \in DOMAIN BoundNames(i, exports)
    PROVE  \E d \in DOMAIN exports : BoundNames(i, exports)[n] = exports[d]
<1>1. CASE i.kind \in {"plain", "wild"}
  BY <1>1 DEF BoundNames
<1>2. CASE i.kind = "item"
  <2>1. BoundNames(i, exports) = [k \in {i.alias} |-> exports[i.item]]
    BY <1>2 DEF BoundNames
  <2> QED
    BY <1>2, <2>1
<1>3. CASE i.kind = "space"
  <2>1. BoundNames(i, exports) = <<>>
    BY <1>3 DEF BoundNames
  <2> QED
    BY <2>1
<1> QED
  BY <1>1, <1>2, <1>3

(* The frame of a module when it is past an import. *)
Bound(f, i, exports) ==
    [f EXCEPT !.next = @ + 1,
              !.deps = IF Contains(@, i.target) THEN @ ELSE Append(@, i.target),
              !.names = Extend(@, BoundNames(i, exports)),
              !.spaces = Extend(@, BoundSpaces(i, exports))]

LEMMA BoundFrame ==
    ASSUME program \in Programs, NEW f, FrameInv(f), f.next \in DOMAIN Imports(f.module),
           NEW i, i = Imports(f.module)[f.next], i.target \in DOMAIN loaded,
           i.kind = "item" => i.item \in DOMAIN loaded[i.target].exports
    PROVE  LET g == Bound(f, i, loaded[i.target].exports)
           IN  FrameInv(g) /\ g.module = f.module /\ g.id = f.id
<1> DEFINE exports == loaded[i.target].exports
           g == Bound(f, i, exports)
           names == BoundNames(i, exports)
<1>1. f.module \in Modules
  BY ReachableIs DEF FrameInv
<1>2. /\ Len(Imports(f.module)) \in Nat /\ f.next \in 1 .. Len(Imports(f.module))
      /\ i.kind \in {"plain", "wild", "item", "space"}
  BY <1>1, ImportsAre
<1>3. /\ DOMAIN g = {"module", "id", "next", "deps", "names", "spaces"}
      /\ g.module = f.module /\ g.id = f.id /\ g.next = f.next + 1
      /\ g.deps = IF Contains(f.deps, i.target) THEN f.deps ELSE Append(f.deps, i.target)
      /\ g.names = Extend(f.names, names)
  BY DEF Bound, FrameInv
<1> HIDE DEF g, names
<1>4. List(g.deps) /\ ToSet(g.deps) = ToSet(f.deps) \union {i.target}
  <2>1. List(f.deps)
    BY DEF FrameInv
  <2>2. CASE Contains(f.deps, i.target)
    BY <1>3, <2>1, <2>2, ListFacts
  <2>3. CASE ~Contains(f.deps, i.target)
    BY <1>3, <2>1, <2>3, Appending
  <2> QED
    BY <2>2, <2>3
<1>5. DoneImports(g) = DoneImports(f) \union {i.target}
  <2>1. g.next - 1 = f.next /\ f.next \in Nat \ {0}
    BY <1>2, <1>3
  <2>2. \A k : k \in 1 .. f.next <=> k \in 1 .. f.next - 1 \/ k = f.next
    BY <2>1
  <2>3. DoneImports(g) = {Imports(f.module)[k].target : k \in 1 .. f.next}
    BY <1>3, <2>1 DEF DoneImports
  <2> QED
    BY <2>2, <2>3 DEF DoneImports
<1>6. FromExports(g.names, g.deps)
  <2>0. /\ DOMAIN g.names = DOMAIN f.names \union DOMAIN names
        /\ \A x \in DOMAIN f.names : g.names[x] = f.names[x]
        /\ \A x \in DOMAIN names \ DOMAIN f.names : g.names[x] = names[x]
    BY <1>3 DEF Extend
  <2> SUFFICES ASSUME NEW n \in DOMAIN g.names
               PROVE  \E k \in ToSet(g.deps) : \E d \in DOMAIN loaded[k].exports :
                          g.names[n] = loaded[k].exports[d]
    BY DEF FromExports
  <2>1. CASE n \in DOMAIN f.names
    <3>1. g.names[n] = f.names[n]
      BY <2>0, <2>1
    <3> QED
      BY <1>4, <2>1, <3>1 DEF FrameInv, FromExports
  <2>2. CASE n \notin DOMAIN f.names
    <3>1. n \in DOMAIN names /\ g.names[n] = names[n]
      BY <2>0, <2>2
    <3>2. \E d \in DOMAIN exports : names[n] = exports[d]
      BY <1>2, <3>1, BoundAreExports DEF names
    <3> QED
      BY <1>4, <3>1, <3>2
  <2> QED
    BY <2>1, <2>2
<1>7. f.next + 1 \in 1 .. Len(Imports(f.module)) + 1
  BY <1>2
<1>8. FrameInv(g)
  BY <1>3, <1>4, <1>5, <1>6, <1>7 DEF FrameInv
<1> QED
  BY <1>3, <1>8 DEF g

LEMMA BindStep ==
    ASSUME LoadInv, Bind
    PROVE  LoadInv' /\ (UNCHANGED <<writing, emitted>>) /\ phase' \in {phase, "collision"}
<1>1. CASE UNCHANGED <<program, stack, loaded, nextId, writing, emitted>>
  BY <1>1, LoadSame DEF Bind, Fail
<1>2. CASE ~UNCHANGED <<program, stack, loaded, nextId, writing, emitted>>
  <2>0. PICK i, f : i = Import /\ f = Bound(Top, i, loaded[i.target].exports)
    OBVIOUS
  <2>1. /\ AtImport /\ i.target \in DOMAIN loaded
        /\ i.kind = "item" => i.item \in DOMAIN loaded[i.target].exports
        /\ stack' = <<f>> \o Tail(stack)
        /\ UNCHANGED <<program, loaded, nextId, writing, emitted, phase>>
    BY <1>2, <2>0, Zenon DEF Bind, Fail, Bound
  <2>2. /\ stack # <<>> /\ List(stack) /\ nextId \in Nat /\ program \in Programs
        /\ Len(stack) \in Nat \ {0} /\ DOMAIN stack = 1 .. Len(stack) /\ 1 \in DOMAIN stack
        /\ Top = stack[1] /\ FrameInv(Top)
    BY <2>1, TopIs DEF AtImport, LoadInv, StackInv, NumberInv
  <2>3. FrameInv(f) /\ f.module = stack[1].module /\ f.id = stack[1].id
    <3>1. Top.next \in DOMAIN Imports(Top.module) /\ i = Imports(Top.module)[Top.next]
      BY <2>0, <2>1, ImportIs DEF Import
    <3> QED
      BY <2>0, <2>1, <2>2, <3>1, BoundFrame
  <2>4. /\ List(stack') /\ Len(stack') = Len(stack) /\ DOMAIN stack' = DOMAIN stack /\ stack' # <<>>
        /\ stack'[1] = f /\ \A k \in 2 .. Len(stack) : stack'[k] = stack[k]
    <3> DEFINE t == Tail(stack)
    <3>1. /\ List(t) /\ Len(t) = Len(stack) - 1
          /\ \A k \in 2 .. Len(stack) : stack[k] = t[k - 1]
      BY <2>2, Popping
    <3> HIDE DEF t
    <3>2. /\ List(stack') /\ Len(stack') = Len(t) + 1 /\ stack'[1] = f /\ stack' # <<>>
          /\ \A k \in 2 .. Len(stack') : stack'[k] = t[k - 1]
      BY <2>1, <3>1, Pushing DEF t
    <3>3. Len(stack') = Len(stack)
      BY <2>2, <3>1, <3>2
    <3> QED
      BY <2>2, <3>1, <3>2, <3>3, ListFacts
  <2>5. \A k \in DOMAIN stack : k = 1 \/ k \in 2 .. Len(stack)
    BY <2>2
  <2>6. \A k \in DOMAIN stack' : /\ stack'[k].module = stack[k].module /\ stack'[k].id = stack[k].id
                                 /\ FrameInv(stack'[k])
    BY <2>3, <2>4, <2>5 DEF LoadInv, StackInv
  <2>7. \A k : FrameInv(k) => FrameInv(k)'
    BY <2>1, <2>2, SameFrames
  <2>8. \A k \in DOMAIN stack' : FrameInv(stack[k])'
    BY <2>6, <2>7, Zenon
  <2>9. \A k, l \in DOMAIN stack' : k < l =>
            /\ stack'[k].module \in Below(stack'[l].module)
            /\ stack'[k].module # stack'[l].module /\ stack'[k].id # stack'[l].id
    BY <2>4, <2>6 DEF LoadInv, StackInv
  <2>10. stack'[Len(stack')].module = Entry
    <3>1. Len(stack') \in DOMAIN stack'
      BY <2>2, <2>4
    <3> QED
      BY <2>2, <2>4, <2>6, <3>1 DEF LoadInv, StackInv
  <2>11. StackInv'
    BY <2>1, <2>4, <2>8, <2>9, <2>10, SameProgram DEF StackInv
  <2>12. LoadedInv'
    <3>1. \A k \in DOMAIN loaded : ModuleInv(k, loaded[k])'
      BY <2>1, <2>2, SameModules DEF LoadInv, LoadedInv
    <3> QED
      BY <2>1, <2>4, <2>6, <3>1 DEF LoadInv, LoadedInv
  <2>13. NumberInv'
    <3>1. Active' = Active
      BY <2>4, <2>6 DEF Active
    <3> QED
      BY <2>1, <3>1 DEF LoadInv, NumberInv
  <2> QED
    BY <2>1, <2>2, <2>11, <2>12, <2>13 DEF LoadInv
<1> QED
  BY <1>1, <1>2


LEMMA FinishedStep ==
    ASSUME LoadInv, stack # <<>>, Top.next > Len(Imports(Top.module)),
           NEW r, r.id = Top.id, r.deps = Top.deps, r.names = Top.names,
           r.exports = Exports(Top.module, Top.id),
           loaded' = Extend(loaded, [k \in {Top.module} |-> r]), stack' = Tail(stack),
           program' = program, nextId' = nextId
    PROVE  LoadInv' /\ (Len(stack) = 1 <=> stack' = <<>>)
<1>0. PICK m, n : m = Top.module /\ n = Len(stack)
  OBVIOUS
<1>1. /\ List(stack) /\ nextId \in Nat /\ program \in Programs
      /\ n \in Nat \ {0} /\ DOMAIN stack = 1 .. n /\ 1 \in DOMAIN stack
      /\ Top = stack[1] /\ FrameInv(Top) /\ m \in Modules
  BY <1>0, TopIs DEF LoadInv, StackInv, NumberInv
<1>2. /\ List(stack') /\ Len(stack') = n - 1 /\ DOMAIN stack' = 1 .. n - 1
      /\ \A i \in 1 .. n - 1 : stack'[i] = stack[i + 1] /\ i + 1 \in 1 .. n
      /\ \A i \in 2 .. n : stack[i] = stack'[i - 1] /\ i - 1 \in 1 .. n - 1
  <2>1. /\ List(stack') /\ Len(stack') = n - 1
        /\ \A i \in 1 .. Len(stack') : stack'[i] = stack[i + 1] /\ i + 1 \in 1 .. n
        /\ \A i \in 2 .. n : stack[i] = stack'[i - 1] /\ i - 1 \in 1 .. Len(stack')
    BY <1>0, <1>1, Popping
  <2> QED
    BY <2>1, ListFacts
<1>3. /\ DOMAIN loaded' = DOMAIN loaded \union {m} /\ loaded'[m] = r /\ m \notin DOMAIN loaded
      /\ \A k \in DOMAIN loaded : loaded'[k] = loaded[k]
  <2> DEFINE g == [k \in {m} |-> r]
  <2>1. DOMAIN g = {m} /\ g[m] = r
    OBVIOUS
  <2>2. m \notin DOMAIN loaded
    BY <1>0, <1>1 DEF FrameInv
  <2>3. loaded' = Extend(loaded, g)
    BY <1>0
  <2> HIDE DEF g
  <2>4. /\ DOMAIN loaded' = DOMAIN loaded \union DOMAIN g
        /\ \A x \in DOMAIN loaded : loaded'[x] = loaded[x]
        /\ \A x \in DOMAIN g \ DOMAIN loaded : loaded'[x] = g[x]
    BY <2>3 DEF Extend
  <2> QED
    BY <2>1, <2>2, <2>4
<1>4. /\ m \in Reachable /\ List(r.deps) /\ ToSet(r.deps) = ImportsOf(m) /\ ImportsOf(m) \subseteq DOMAIN loaded
      /\ r.id \in Nat /\ r.id < nextId /\ r.exports = Exports(m, r.id) /\ FromExports(r.names, r.deps)
  <2>1. /\ m \in Reachable /\ List(r.deps) /\ ToSet(r.deps) = DoneImports(Top)
        /\ ToSet(r.deps) \subseteq DOMAIN loaded
        /\ r.id \in Nat /\ r.id < nextId /\ FromExports(r.names, r.deps)
        /\ Top.next \in 1 .. Len(Imports(m)) + 1
    BY <1>0, <1>1 DEF FrameInv
  <2>2. Len(Imports(m)) \in Nat /\ DOMAIN Imports(m) = 1 .. Len(Imports(m))
    BY <1>1, ImportsAre
  <2>3. Top.next - 1 = Len(Imports(m))
    BY <1>0, <2>1, <2>2
  <2>4. DoneImports(Top) = {Imports(m)[k].target : k \in DOMAIN Imports(m)}
    BY <1>0, <2>2, <2>3 DEF DoneImports
  <2>5. Missing \notin DOMAIN loaded
    BY <1>1, ReachableIs, LoaderAssumption DEF LoadInv, LoadedInv, ModuleInv
  <2>6. DoneImports(Top) = ImportsOf(m)
    BY <2>1, <2>4, <2>5 DEF ImportsOf
  <2> QED
    BY <1>0, <2>1, <2>6
<1>5. m \notin Below(m)
  <2>1. Closed(DOMAIN loaded)
    BY DEF LoadInv, LoadedInv, ModuleInv, Closed
  <2>2. DOMAIN loaded \in SUBSET Modules
    BY <1>1, ReachableIs DEF LoadInv, LoadedInv, ModuleInv
  <2> QED
    BY <1>1, <1>3, <1>4, <2>1, <2>2, BelowIs
<1>6. \A names, deps : ToSet(deps) \subseteq DOMAIN loaded /\ FromExports(names, deps)
                           => FromExports(names, deps)'
  <2> SUFFICES ASSUME NEW names, NEW deps, ToSet(deps) \subseteq DOMAIN loaded,
                      FromExports(names, deps)
               PROVE  FromExports(names, deps)'
    OBVIOUS
  <2>1. ASSUME NEW x \in DOMAIN names
        PROVE  \E k \in ToSet(deps) : \E d \in DOMAIN loaded'[k].exports :
                   names[x] = loaded'[k].exports[d]
    <3>1. PICK k \in ToSet(deps) : \E d \in DOMAIN loaded[k].exports : names[x] = loaded[k].exports[d]
      BY DEF FromExports
    <3> QED
      BY <1>3, <3>1
  <2> QED
    BY <2>1 DEF FromExports
<1>7. ASSUME NEW f, FrameInv(f), f.module # m PROVE FrameInv(f)'
  <2>1. FromExports(f.names, f.deps)'
    BY <1>6, <1>7 DEF FrameInv
  <2>2. DoneImports(f)' = DoneImports(f)
    BY SameProgram DEF DoneImports
  <2>3. f.module \notin DOMAIN loaded' /\ ToSet(f.deps) \subseteq DOMAIN loaded'
    BY <1>3, <1>7 DEF FrameInv
  <2> QED
    BY <1>7, <2>1, <2>2, <2>3, SameProgram, Zenon DEF FrameInv
<1>8. \A i \in DOMAIN stack' : /\ i + 1 \in DOMAIN stack /\ stack'[i] = stack[i + 1]
                               /\ FrameInv(stack'[i]) /\ stack'[i].module # m /\ stack'[i].id # r.id
  <2>1. \A i \in DOMAIN stack' : i + 1 \in DOMAIN stack /\ 1 < i + 1 /\ stack'[i] = stack[i + 1]
    BY <1>1, <1>2
  <2> QED
    BY <1>0, <1>1, <2>1 DEF LoadInv, StackInv
<1>9. \A i \in DOMAIN stack' : FrameInv(stack[i])'
  BY <1>7, <1>8, Zenon
<1>10. \A i, j \in DOMAIN stack' : i < j =>
            /\ stack'[i].module \in Below(stack'[j].module)
            /\ stack'[i].module # stack'[j].module /\ stack'[i].id # stack'[j].id
  <2>1. \A i, j \in DOMAIN stack' : i < j => i + 1 < j + 1
    BY <1>2
  <2> QED
    BY <1>8, <2>1 DEF LoadInv, StackInv
<1>11. stack' = <<>> <=> n = 1
  <2>1. stack' = <<>> <=> Len(stack') = 0
    BY <1>2, ListFacts, Zenon
  <2> QED
    BY <1>1, <1>2, <2>1
<1>12. stack' # <<>> => stack'[Len(stack')].module = Entry
  <2>1. n # 1 => n - 1 \in 1 .. n - 1 /\ (n - 1) + 1 = n
    BY <1>1
  <2> QED
    BY <1>0, <1>1, <1>2, <1>11, <2>1 DEF LoadInv, StackInv
<1>13. stack' = <<>> => Entry \in DOMAIN loaded'
  BY <1>0, <1>1, <1>3, <1>11 DEF LoadInv, StackInv
<1>14. StackInv'
  <2>1. (\A i, j \in DOMAIN stack : i < j =>
             /\ stack[i].module \in Below(stack[j].module)
             /\ stack[i].module # stack[j].module /\ stack[i].id # stack[j].id)'
    BY <1>10, SameProgram
  <2> QED
    BY <1>2, <1>9, <1>12, <1>13, <2>1, Zenon DEF StackInv
<1>15. \A k \in DOMAIN loaded' : ModuleInv(k, loaded[k])'
  <2>1. ASSUME NEW k \in DOMAIN loaded PROVE ModuleInv(k, loaded[k])'
    <3>1. /\ k \in Reachable /\ k \notin Below(k) /\ ImportsOf(k) \subseteq DOMAIN loaded
          /\ List(loaded[k].deps) /\ ToSet(loaded[k].deps) = ImportsOf(k)
          /\ loaded[k].id \in Nat /\ loaded[k].id < nextId
          /\ loaded[k].exports = Exports(k, loaded[k].id) /\ FromExports(loaded[k].names, loaded[k].deps)
      BY DEF LoadInv, LoadedInv, ModuleInv
    <3>2. FromExports(loaded[k].names, loaded[k].deps)'
      BY <1>3, <1>6, <3>1
    <3> QED
      BY <1>3, <3>1, <3>2, SameProgram DEF ModuleInv
  <2>2. ModuleInv(m, loaded[m])'
    <3>1. FromExports(loaded[m].names, loaded[m].deps)'
      BY <1>3, <1>4, <1>6
    <3> QED
      BY <1>3, <1>4, <1>5, <3>1, SameProgram DEF ModuleInv
  <2> QED
    BY <1>3, <2>1, <2>2
<1>16. LoadedInv'
  <2>1. \A k \in DOMAIN loaded : loaded[k].id # r.id
    BY <1>0, <1>1 DEF LoadInv, LoadedInv
  <2>2. \A k, l \in DOMAIN loaded' : loaded'[k].id = loaded'[l].id => k = l
    BY <1>3, <2>1 DEF LoadInv, LoadedInv
  <2>3. \A k \in DOMAIN loaded', i \in DOMAIN stack' : loaded'[k].id # stack'[i].id
    BY <1>3, <1>8 DEF LoadInv, LoadedInv
  <2> QED
    BY <1>15, <2>2, <2>3 DEF LoadedInv
<1>17. NumberInv'
  <2>1. Active = Active' \union {m}
    <3>1. \A i \in DOMAIN stack : stack[i].module \in Active' \union {m}
      <4>1. \A i \in DOMAIN stack : i = 1 \/ (i \in 2 .. n /\ i - 1 \in DOMAIN stack' /\ stack[i] = stack'[i - 1])
        BY <1>1, <1>2
      <4> QED
        BY <1>0, <1>1, <4>1 DEF Active
    <3> QED
      BY <1>0, <1>1, <1>8, <3>1 DEF Active
  <2>2. (DOMAIN loaded \union Active)' = DOMAIN loaded \union Active
    BY <1>3, <2>1
  <2> QED
    BY <2>2 DEF LoadInv, NumberInv
<1> QED
  BY <1>0, <1>1, <1>11, <1>14, <1>16, <1>17 DEF LoadInv

-----------------------------------------------------------------------------
(* The invariant of emitModule: what is written is written after its       *)
(* imports, and the modules being written are a path of imports, each of   *)
(* which has written those it is past.                                     *)

WrittenInv ==
    /\ List(emitted) /\ ToSet(emitted) \subseteq DOMAIN loaded
    /\ \A i, j \in DOMAIN emitted : emitted[i] = emitted[j] => i = j
    /\ \A i \in DOMAIN emitted : \A k \in ImportsOf(emitted[i]) :
           \E j \in DOMAIN emitted : j < i /\ emitted[j] = k

WritingInv ==
    /\ List(writing)
    /\ \A i \in DOMAIN writing :
           /\ writing[i].module \in DOMAIN loaded /\ writing[i].next \in Nat \ {0}
           /\ \A q \in DOMAIN Deps(writing[i].module) : q < writing[i].next =>
                  \/ Deps(writing[i].module)[q] \in ToSet(emitted)
                  \/ i > 1 /\ Deps(writing[i].module)[q] = writing[i - 1].module
    /\ writing # <<>> => writing[Len(writing)].module = Entry

Phases == {"load", "emit", "done", "unresolved", "cycle", "no export", "collision", "conflict"}

PhaseInv ==
    /\ phase \in Phases
    /\ phase \notin {"emit", "done"} => writing = <<>> /\ emitted = <<>>
    /\ phase \in {"emit", "done"} => stack = <<>>
    /\ phase = "cycle" => \E m \in Reachable : m \in Below(m)
    /\ phase = "done" => Entry \in ToSet(emitted)

LoaderInv == LoadInv /\ WrittenInv /\ WritingInv /\ PhaseInv

NothingIsWritten ==
    /\ emitted = <<>>
    /\ writing = <<>> \/ (Entry \in DOMAIN loaded /\ writing = <<[module |-> Entry, next |-> 1]>>)

LEMMA NothingWritten == NothingIsWritten => WrittenInv /\ WritingInv
<1> SUFFICES ASSUME NothingIsWritten PROVE WrittenInv /\ WritingInv
  OBVIOUS
<1> USE DEF NothingIsWritten
<1>1. List(emitted) /\ DOMAIN emitted = {} /\ ToSet(emitted) = {}
  BY DEF List, ToSet
<1>2. WrittenInv
  BY <1>1 DEF WrittenInv
<1>3. CASE writing = <<>>
  <2>1. List(writing) /\ DOMAIN writing = {}
    BY <1>3 DEF List, ToSet
  <2> QED
    BY <1>2, <1>3, <2>1 DEF WritingInv
<1>4. CASE Entry \in DOMAIN loaded /\ writing = <<[module |-> Entry, next |-> 1]>>
  <2> DEFINE f == [module |-> Entry, next |-> 1]
  <2>1. <<f>> \in Seq({f}) /\ Len(<<f>>) = 1 /\ <<f>>[1] = f
    OBVIOUS
  <2>2. f.module = Entry /\ f.next = 1
    OBVIOUS
  <2> HIDE DEF f
  <2>3. List(writing) /\ Len(writing) = 1 /\ writing[1] = f
    BY <1>4, <2>1, SeqIsList DEF f
  <2>4. DOMAIN writing = {1}
    BY <2>3, ListFacts
  <2>5. \A q \in DOMAIN Deps(Entry) : q \in 1 .. Len(Deps(Entry)) => ~(q < 1)
    OBVIOUS
  <2> QED
    BY <1>2, <1>4, <2>2, <2>3, <2>4, <2>5 DEF WritingInv
<1> QED
  BY <1>3, <1>4

LEMMA LoaderStart == Init => LoaderInv
<1> SUFFICES ASSUME Init PROVE LoaderInv
  OBVIOUS
<1>1. /\ phase = "load" /\ writing = <<>> /\ emitted = <<>>
  BY DEF Init
<1> QED
  BY <1>1, LoadStart, NothingWritten DEF LoaderInv, PhaseInv, Phases, NothingIsWritten

LEMMA EmitSame ==
    ASSUME LoadInv, WrittenInv, WritingInv, UNCHANGED <<program, loaded, writing, emitted>>
    PROVE  WrittenInv' /\ WritingInv'
<1>1. \A m : Deps(m)' = Deps(m)
  BY DEF Deps
<1>2. WrittenInv'
  BY SameProgram DEF WrittenInv
<1>3. WritingInv'
  BY <1>1 DEF WritingInv
<1> QED
  BY <1>2, <1>3

LEMMA CycleIsReal ==
    ASSUME LoadInv, AtImport, Import.target \in Active
    PROVE  \E m \in Reachable : m \in Below(m)
<1>1. /\ stack # <<>> /\ program \in Programs
      /\ DOMAIN stack = 1 .. Len(stack) /\ 1 \in DOMAIN stack /\ Top = stack[1]
  BY TopIs DEF AtImport, LoadInv
<1>2. PICK j \in DOMAIN stack : stack[j].module = Import.target
  BY DEF Active
<1>3. /\ FrameInv(stack[j]) /\ stack[j].module \in Reachable /\ stack[j].module \in Modules
      /\ Missing \notin Modules
  BY <1>1, ReachableIs, LoaderAssumption DEF LoadInv, StackInv, FrameInv
<1>4. stack[j].module \in ImportsOf(stack[1].module)
  BY <1>1, <1>2, <1>3, ImportIs
<1>5. CASE j = 1
  BY <1>1, <1>3, <1>4, <1>5, BelowIs
<1>6. CASE j # 1
  <2>1. 1 < j
    BY <1>1, <1>6
  <2>2. stack[1].module \in Below(stack[j].module)
    BY <1>1, <2>1 DEF LoadInv, StackInv
  <2>3. stack[j].module \in Below(stack[j].module)
    BY <1>1, <1>3, <1>4, <2>2, BelowIs
  <2> QED
    BY <1>3, <2>3
<1> QED
  BY <1>5, <1>6

LEMMA FailStep ==
    ASSUME LoaderInv, phase = "load", NEW why \in Phases \ {"emit", "done"}, Fail(why),
           why = "cycle" => \E m \in Reachable : m \in Below(m)
    PROVE  LoaderInv'
<1>1. UNCHANGED <<program, stack, loaded, nextId, writing, emitted>> /\ phase' = why
  BY DEF Fail
<1>2. LoadInv' /\ WrittenInv' /\ WritingInv'
  BY <1>1, LoadSame, EmitSame DEF LoaderInv
<1>3. PhaseInv'
  <2>1. writing' = <<>> /\ emitted' = <<>>
    BY <1>1 DEF LoaderInv, PhaseInv
  <2> QED
    BY <1>1, <2>1, SameProgram DEF PhaseInv
<1> QED
  BY <1>2, <1>3 DEF LoaderInv

LEMMA FinishStep == LoaderInv /\ Finish => LoaderInv'
<1> SUFFICES ASSUME LoaderInv, Finish PROVE LoaderInv'
  OBVIOUS
<1> DEFINE m == Top.module
           r == [id |-> Top.id, deps |-> Top.deps, names |-> Top.names, exports |-> Exports(m, Top.id)]
<1>1. /\ phase = "load" /\ stack # <<>> /\ Top.next > Len(Imports(m))
      /\ writing = <<>> /\ emitted = <<>> /\ LoadInv
  BY DEF Finish, LoaderInv, PhaseInv
<1>2. CASE Decls(m) \intersect DOMAIN Top.names # {}
  <2>1. Fail("conflict")
    BY <1>2 DEF Finish
  <2> QED
    BY <1>1, <2>1, FailStep DEF Phases
<1>3. CASE ~(Decls(m) \intersect DOMAIN Top.names # {})
  <2>1. /\ loaded' = Extend(loaded, [k \in {m} |-> r]) /\ stack' = Tail(stack)
        /\ IF Len(stack) = 1 THEN phase' = "emit" /\ writing' = <<[module |-> m, next |-> 1]>>
                             ELSE phase' = phase /\ writing' = writing
        /\ program' = program /\ nextId' = nextId /\ emitted' = emitted
    BY <1>3, Zenon DEF Finish
  <2>2. /\ r.id = Top.id /\ r.deps = Top.deps /\ r.names = Top.names
        /\ r.exports = Exports(Top.module, Top.id)
    OBVIOUS
  <2>3. PICK s : s = r
    OBVIOUS
  <2>4. LoadInv' /\ (Len(stack) = 1 <=> stack' = <<>>)
    <3>1. /\ s.id = Top.id /\ s.deps = Top.deps /\ s.names = Top.names
          /\ s.exports = Exports(Top.module, Top.id) /\ loaded' = Extend(loaded, [k \in {Top.module} |-> s])
      BY <2>1, <2>2, <2>3
    <3> HIDE DEF r
    <3> QED
      BY <1>1, <2>1, <3>1, FinishedStep
  <2>5. Len(stack) = 1 => m = Entry /\ Entry \in DOMAIN loaded'
    <3>1. Len(stack) = 1 => stack[Len(stack)] = Top
      BY <1>1, TopIs
    <3> QED
      BY <1>1, <2>4, <3>1 DEF LoadInv, StackInv
  <2>6. WrittenInv' /\ WritingInv'
    <3>1. emitted' = <<>>
      BY <1>1, <2>1
    <3>2. writing' = <<>> \/ (Entry \in DOMAIN loaded' /\ writing' = <<[module |-> Entry, next |-> 1]>>)
      BY <1>1, <2>1, <2>5
    <3>3. NothingIsWritten'
      BY <3>1, <3>2 DEF NothingIsWritten
    <3> QED
      BY <3>3, NothingWritten, PTL
  <2>7. PhaseInv'
    BY <1>1, <2>1, <2>4 DEF PhaseInv, Phases
  <2> QED
    BY <2>4, <2>6, <2>7 DEF LoaderInv
<1> QED
  BY <1>2, <1>3


LEMMA WritingIs ==
    ASSUME LoaderInv, AtModule
    PROVE  /\ Len(writing) \in Nat \ {0} /\ DOMAIN writing = 1 .. Len(writing) /\ 1 \in DOMAIN writing
           /\ Head(writing) = writing[1] /\ Writing = writing[1].module /\ Writing \in DOMAIN loaded
           /\ List(Deps(Writing)) /\ ToSet(Deps(Writing)) = ImportsOf(Writing)
           /\ ImportsOf(Writing) \subseteq DOMAIN loaded
           /\ Written <=> Writing \in ToSet(emitted)
           /\ phase = "emit" /\ writing # <<>> /\ List(writing)
<1>1. writing # <<>> /\ List(writing) /\ phase = "emit" /\ List(emitted)
  BY DEF AtModule, LoaderInv, WritingInv, WrittenInv
<1>2. /\ Len(writing) \in Nat \ {0} /\ DOMAIN writing = 1 .. Len(writing)
      /\ Head(writing) = writing[1]
  BY <1>1, ListFacts
<1>3. 1 \in DOMAIN writing /\ Writing = writing[1].module
  BY <1>2 DEF Writing
<1>4. Writing \in DOMAIN loaded
  BY <1>3 DEF LoaderInv, WritingInv
<1>5. ModuleInv(Writing, loaded[Writing])
  BY <1>4 DEF LoaderInv, LoadInv, LoadedInv
<1>6. Written <=> Writing \in ToSet(emitted)
  BY <1>1, ListFacts DEF Written
<1> QED
  BY <1>1, <1>2, <1>3, <1>4, <1>5, <1>6 DEF ModuleInv, Deps

LEMMA SkipStep == LoaderInv /\ Skip => LoaderInv'
<1> SUFFICES ASSUME LoaderInv, Skip PROVE LoaderInv'
  OBVIOUS
<1>1. /\ AtModule /\ Written /\ writing' = Tail(writing)
      /\ UNCHANGED <<program, stack, loaded, nextId, emitted, phase>>
  BY DEF Skip
<1>2. LoadInv' /\ \A m : Deps(m)' = Deps(m)
  BY <1>1, LoadSame DEF LoaderInv, Deps
<1>3. /\ Len(writing) \in Nat \ {0} /\ DOMAIN writing = 1 .. Len(writing) /\ 1 \in DOMAIN writing
      /\ writing[1].module \in ToSet(emitted) /\ phase = "emit" /\ List(writing) /\ writing # <<>>
  BY <1>1, WritingIs
<1>4. /\ List(writing') /\ Len(writing') = Len(writing) - 1 /\ DOMAIN writing' = 1 .. Len(writing')
      /\ \A i \in DOMAIN writing' : writing'[i] = writing[i + 1] /\ i + 1 \in DOMAIN writing
      /\ writing' # <<>> => Len(writing') \in DOMAIN writing'
  <2>1. /\ List(writing') /\ Len(writing') = Len(writing) - 1
        /\ \A i \in 1 .. Len(writing') : writing'[i] = writing[i + 1] /\ i + 1 \in 1 .. Len(writing)
    BY <1>1, <1>3, Popping
  <2>2. /\ DOMAIN writing' = 1 .. Len(writing') /\ Len(writing') \in Nat
        /\ writing' = <<>> <=> Len(writing') = 0
    BY <2>1, ListFacts
  <2> QED
    BY <1>3, <2>1, <2>2
<1>5. WrittenInv'
  BY <1>1, SameProgram DEF LoaderInv, WrittenInv
<1>6. \A i \in DOMAIN writing' :
          /\ writing'[i].module \in DOMAIN loaded /\ writing'[i].next \in Nat \ {0}
          /\ \A q \in DOMAIN Deps(writing'[i].module) : q < writing'[i].next =>
                 \/ Deps(writing'[i].module)[q] \in ToSet(emitted)
                 \/ i > 1 /\ Deps(writing'[i].module)[q] = writing'[i - 1].module
  <2> SUFFICES ASSUME NEW i \in DOMAIN writing'
               PROVE  /\ writing'[i].module \in DOMAIN loaded /\ writing'[i].next \in Nat \ {0}
                      /\ \A q \in DOMAIN Deps(writing'[i].module) : q < writing'[i].next =>
                             \/ Deps(writing'[i].module)[q] \in ToSet(emitted)
                             \/ i > 1 /\ Deps(writing'[i].module)[q] = writing'[i - 1].module
    OBVIOUS
  <2>1. i + 1 \in DOMAIN writing /\ writing'[i] = writing[i + 1]
    BY <1>4
  <2>2. (i = 1 /\ (i + 1) - 1 = 1) \/ (i > 1 /\ i - 1 \in DOMAIN writing' /\ (i + 1) - 1 = (i - 1) + 1)
    BY <1>3, <1>4
  <2>3. (i = 1 /\ writing[(i + 1) - 1] = writing[1]) \/ (i > 1 /\ writing'[i - 1] = writing[(i + 1) - 1])
    BY <1>4, <2>2
  <2> QED
    BY <1>3, <2>1, <2>3 DEF LoaderInv, WritingInv
<1>7. writing' # <<>> => writing'[Len(writing')].module = Entry
  <2> SUFFICES ASSUME writing' # <<>> PROVE writing'[Len(writing')].module = Entry
    OBVIOUS
  <2>1. writing'[Len(writing')] = writing[Len(writing') + 1] /\ Len(writing') + 1 = Len(writing)
    BY <1>3, <1>4
  <2> QED
    BY <1>3, <2>1 DEF LoaderInv, WritingInv
<1>8. WritingInv'
  BY <1>1, <1>2, <1>4, <1>6, <1>7 DEF WritingInv
<1>9. PhaseInv'
  BY <1>1, <1>3, SameProgram DEF LoaderInv, PhaseInv
<1> QED
  BY <1>2, <1>5, <1>8, <1>9 DEF LoaderInv

LEMMA DescendStep == LoaderInv /\ Descend => LoaderInv'
<1> SUFFICES ASSUME LoaderInv, Descend PROVE LoaderInv'
  OBVIOUS
<1>0. PICK k, m, n, f, g, t :
        /\ k = Head(writing).next /\ m = Writing /\ n = Len(writing) /\ t = Tail(writing)
        /\ f = [module |-> Deps(m)[k], next |-> 1] /\ g = [module |-> m, next |-> k + 1]
  OBVIOUS
<1>1. /\ AtModule /\ ~Written /\ k <= Len(Deps(m)) /\ writing' = <<f, g>> \o t
      /\ UNCHANGED <<program, stack, loaded, nextId, emitted, phase>>
  BY <1>0, Zenon DEF Descend
<1>2. LoadInv' /\ \A x : Deps(x)' = Deps(x)
  BY <1>1, LoadSame DEF LoaderInv, Deps
<1>3. /\ n \in Nat \ {0} /\ DOMAIN writing = 1 .. n /\ 1 \in DOMAIN writing
      /\ m = writing[1].module /\ k = writing[1].next /\ m \in DOMAIN loaded
      /\ phase = "emit" /\ List(writing) /\ writing # <<>>
      /\ List(Deps(m)) /\ ToSet(Deps(m)) \subseteq DOMAIN loaded /\ k \in Nat \ {0}
  BY <1>0, <1>1, WritingIs DEF LoaderInv, WritingInv
<1>4. Deps(m)[k] \in DOMAIN loaded
  <2>1. k \in 1 .. Len(Deps(m)) /\ DOMAIN Deps(m) = 1 .. Len(Deps(m))
    BY <1>1, <1>3, ListFacts
  <2> QED
    BY <1>3, <2>1 DEF ToSet
<1>5. f.module = Deps(m)[k] /\ f.next = 1 /\ g.module = m /\ g.next = k + 1
  BY <1>0
<1>6. List(t) /\ Len(t) = n - 1 /\ \A i \in 2 .. n : writing[i] = t[i - 1] /\ i - 1 \in 1 .. Len(t)
  BY <1>0, <1>3, Popping
<1>7. /\ List(writing') /\ DOMAIN writing' = 1 .. n + 1 /\ Len(writing') = n + 1
      /\ writing'[1] = f /\ writing'[2] = g
      /\ \A i \in 3 .. n + 1 : writing'[i] = writing[i - 1]
  <2> DEFINE S == ToSet(t) \union {f, g}
             p == <<f, g>>
  <2>1. t \in Seq(S)
    BY <1>6, SeqMonotonic, Zenon DEF List
  <2>2. p \in Seq(S) /\ Len(p) = 2 /\ p[1] = f /\ p[2] = g
    OBVIOUS
  <2> HIDE DEF S, p
  <2>3. /\ writing' \in Seq(S) /\ Len(writing') = 2 + Len(t)
        /\ \A i \in 1 .. 2 + Len(t) : writing'[i] = IF i <= 2 THEN p[i] ELSE t[i - 2]
    BY <1>1, <2>1, <2>2, ConcatProperties DEF p
  <2>4. List(writing')
    BY <2>3, SeqIsList
  <2>5. DOMAIN writing' = 1 .. Len(writing')
    BY <2>4, ListFacts
  <2>6. /\ 2 + Len(t) = n + 1 /\ 1 \in 1 .. n + 1 /\ 2 \in 1 .. n + 1
        /\ \A i \in 3 .. n + 1 : i - 1 \in 2 .. n /\ i \in 1 .. n + 1 /\ ~(i <= 2) /\ (i - 1) - 1 = i - 2
    BY <1>3, <1>6
  <2>7. DOMAIN writing' = 1 .. n + 1 /\ Len(writing') = n + 1
    BY <2>3, <2>5, <2>6
  <2>8. writing'[1] = f /\ writing'[2] = g
    BY <2>2, <2>3, <2>6
  <2>9. ASSUME NEW i \in 3 .. n + 1 PROVE writing'[i] = writing[i - 1]
    <3>1. writing'[i] = t[i - 2]
      BY <2>3, <2>6
    <3>2. writing[i - 1] = t[(i - 1) - 1]
      BY <1>6, <2>6
    <3> QED
      BY <2>6, <3>1, <3>2
  <2> QED
    BY <2>4, <2>7, <2>8, <2>9
<1>8. WrittenInv'
  BY <1>1, SameProgram DEF LoaderInv, WrittenInv
<1>9. \A i \in DOMAIN writing' :
          /\ writing'[i].module \in DOMAIN loaded /\ writing'[i].next \in Nat \ {0}
          /\ \A q \in DOMAIN Deps(writing'[i].module) : q < writing'[i].next =>
                 \/ Deps(writing'[i].module)[q] \in ToSet(emitted)
                 \/ i > 1 /\ Deps(writing'[i].module)[q] = writing'[i - 1].module
  <2> SUFFICES ASSUME NEW i \in DOMAIN writing'
               PROVE  /\ writing'[i].module \in DOMAIN loaded /\ writing'[i].next \in Nat \ {0}
                      /\ \A q \in DOMAIN Deps(writing'[i].module) : q < writing'[i].next =>
                             \/ Deps(writing'[i].module)[q] \in ToSet(emitted)
                             \/ i > 1 /\ Deps(writing'[i].module)[q] = writing'[i - 1].module
    OBVIOUS
  <2>1. CASE i = 1
    <3>1. DOMAIN Deps(Deps(m)[k]) = 1 .. Len(Deps(Deps(m)[k]))
      <4>1. List(Deps(Deps(m)[k]))
        BY <1>4 DEF LoaderInv, LoadInv, LoadedInv, ModuleInv, Deps
      <4> QED
        BY <4>1, ListFacts
    <3>2. \A q \in 1 .. Len(Deps(Deps(m)[k])) : ~(q < 1)
      OBVIOUS
    <3> QED
      BY <1>4, <1>5, <1>7, <2>1, <3>1, <3>2
  <2>2. CASE i = 2
    <3>1. \A q \in DOMAIN Deps(m) : q < k => Deps(m)[q] \in ToSet(emitted)
      BY <1>3 DEF LoaderInv, WritingInv
    <3>2. \A q \in DOMAIN Deps(m) : q < k + 1 => q < k \/ q = k
      <4>1. DOMAIN Deps(m) = 1 .. Len(Deps(m))
        BY <1>3, ListFacts
      <4>2. \A q \in 1 .. Len(Deps(m)) : q < k + 1 => q < k \/ q = k
        BY <1>3
      <4> QED
        BY <4>1, <4>2, Zenon
    <3>3. writing'[2 - 1] = f /\ k + 1 \in Nat \ {0} /\ 2 > 1
      BY <1>3, <1>7
    <3>4. writing'[i].module = m /\ writing'[i].next = k + 1 /\ writing'[i - 1].module = Deps(m)[k] /\ i > 1
      BY <1>5, <1>7, <2>2, <3>3
    <3> QED
      BY <1>3, <3>1, <3>2, <3>3, <3>4
  <2>3. CASE i # 1 /\ i # 2
    <3>1. /\ i \in 3 .. n + 1 /\ i - 1 \in DOMAIN writing /\ i > 1 /\ i - 1 > 1
          /\ (i - 1 = 2 \/ i - 1 \in 3 .. n + 1) /\ (i - 1 = 2 => (i - 1) - 1 = 1)
      BY <1>3, <1>7, <2>3
    <3>2. writing'[i] = writing[i - 1]
      BY <1>7, <3>1
    <3>3. writing'[i - 1].module = writing[(i - 1) - 1].module
      BY <1>3, <1>5, <1>7, <3>1
    <3> QED
      BY <3>1, <3>2, <3>3 DEF LoaderInv, WritingInv
  <2> QED
    BY <2>1, <2>2, <2>3
<1>10. writing'[Len(writing')].module = Entry
  <2>1. n = 1 => Len(writing') = 2 /\ m = Entry
    BY <1>0, <1>3, <1>7 DEF LoaderInv, WritingInv
  <2>2. n # 1 => Len(writing') \in 3 .. n + 1 /\ Len(writing') - 1 = n
    BY <1>3, <1>7
  <2> QED
    BY <1>0, <1>3, <1>5, <1>7, <2>1, <2>2 DEF LoaderInv, WritingInv
<1>11. WritingInv'
  BY <1>1, <1>2, <1>7, <1>9, <1>10 DEF WritingInv
<1>12. PhaseInv'
  BY <1>1, <1>3, SameProgram DEF LoaderInv, PhaseInv
<1> QED
  BY <1>2, <1>8, <1>11, <1>12 DEF LoaderInv

LEMMA WriteStep == LoaderInv /\ Write => LoaderInv'
<1> SUFFICES ASSUME LoaderInv, Write PROVE LoaderInv'
  OBVIOUS
<1>0. PICK m, n, l : m = Writing /\ n = Len(writing) /\ l = Len(emitted)
  OBVIOUS
<1>1. /\ AtModule /\ ~Written /\ Head(writing).next > Len(Deps(m))
      /\ emitted' = Append(emitted, m) /\ writing' = Tail(writing)
      /\ phase' = IF n = 1 THEN "done" ELSE phase
      /\ UNCHANGED <<program, stack, loaded, nextId>>
  BY <1>0 DEF Write
<1>2. LoadInv' /\ \A x : Deps(x)' = Deps(x)
  BY <1>1, LoadSame DEF LoaderInv, Deps
<1>3. /\ n \in Nat \ {0} /\ DOMAIN writing = 1 .. n /\ 1 \in DOMAIN writing
      /\ m = writing[1].module /\ writing[1].next > Len(Deps(m)) /\ writing[1].next \in Nat
      /\ m \in DOMAIN loaded /\ m \notin ToSet(emitted)
      /\ phase = "emit" /\ List(writing) /\ writing # <<>>
      /\ List(Deps(m)) /\ ToSet(Deps(m)) = ImportsOf(m)
  BY <1>0, <1>1, WritingIs DEF LoaderInv, WritingInv
<1>4. List(emitted) /\ l \in Nat /\ DOMAIN emitted = 1 .. l
  BY <1>0, ListFacts DEF LoaderInv, WrittenInv
<1>5. /\ List(emitted') /\ DOMAIN emitted' = 1 .. l + 1 /\ emitted'[l + 1] = m
      /\ \A i \in 1 .. l : emitted'[i] = emitted[i]
      /\ ToSet(emitted') = ToSet(emitted) \union {m}
  <2>1. /\ List(emitted') /\ Len(emitted') = l + 1 /\ emitted'[Len(emitted')] = m
        /\ \A i \in 1 .. l : emitted'[i] = emitted[i]
        /\ ToSet(emitted') = ToSet(emitted) \union {m}
    BY <1>0, <1>1, <1>4, Appending
  <2> QED
    BY <2>1, ListFacts
<1>6. \A k \in ImportsOf(m) : \E j \in 1 .. l : emitted[j] = k
  <2> SUFFICES ASSUME NEW k \in ImportsOf(m) PROVE k \in ToSet(emitted)
    BY <1>4 DEF ToSet
  <2>1. PICK q \in 1 .. Len(Deps(m)) : Deps(m)[q] = k
    BY <1>3, ListFacts
  <2>2. q \in DOMAIN Deps(m) /\ q < writing[1].next
    <3>1. DOMAIN Deps(m) = 1 .. Len(Deps(m)) /\ Len(Deps(m)) \in Nat
      BY <1>3, ListFacts
    <3> QED
      BY <1>3, <3>1
  <2> QED
    BY <1>3, <2>1, <2>2 DEF LoaderInv, WritingInv
<1>7. WrittenInv'
  <2>1. ToSet(emitted') \subseteq DOMAIN loaded
    BY <1>3, <1>5 DEF LoaderInv, WrittenInv
  <2>2. \A i \in DOMAIN emitted' : i \in 1 .. l \/ i = l + 1
    BY <1>4, <1>5
  <2>3. \A i \in 1 .. l : emitted[i] # m /\ i < l + 1 /\ i \in DOMAIN emitted'
    BY <1>3, <1>4, <1>5 DEF ToSet
  <2>4. \A i, j \in DOMAIN emitted' : emitted'[i] = emitted'[j] => i = j
    BY <1>4, <1>5, <2>2, <2>3 DEF LoaderInv, WrittenInv
  <2>5. \A i \in DOMAIN emitted' : \A k \in ImportsOf(emitted'[i]) :
            \E j \in DOMAIN emitted' : j < i /\ emitted'[j] = k
    <3> SUFFICES ASSUME NEW i \in DOMAIN emitted', NEW k \in ImportsOf(emitted'[i])
                 PROVE  \E j \in DOMAIN emitted' : j < i /\ emitted'[j] = k
      OBVIOUS
    <3>1. CASE i = l + 1
      <4>1. PICK j \in 1 .. l : emitted[j] = k
        BY <1>5, <1>6, <3>1
      <4> QED
        BY <1>5, <2>3, <3>1, <4>1
    <3>2. CASE i \in 1 .. l
      <4>1. PICK j \in DOMAIN emitted : j < i /\ emitted[j] = k
        BY <1>4, <1>5, <3>2 DEF LoaderInv, WrittenInv
      <4> QED
        BY <1>4, <1>5, <2>3, <4>1
    <3> QED
      BY <2>2, <3>1, <3>2
  <2>6. \A k : ImportsOf(k)' = ImportsOf(k)
    BY <1>1, SameProgram
  <2>7. (\A i \in DOMAIN emitted : \A k \in ImportsOf(emitted[i]) :
             \E j \in DOMAIN emitted : j < i /\ emitted[j] = k)'
    BY <2>5, <2>6
  <2>8. ToSet(emitted') \subseteq DOMAIN loaded'
    BY <1>1, <2>1
  <2> QED
    BY <1>5, <2>4, <2>7, <2>8, Zenon DEF WrittenInv
<1>8. /\ List(writing') /\ Len(writing') = n - 1 /\ DOMAIN writing' = 1 .. n - 1
      /\ \A i \in DOMAIN writing' : writing'[i] = writing[i + 1] /\ i + 1 \in DOMAIN writing
      /\ writing' # <<>> => n - 1 \in DOMAIN writing'
  <2>1. /\ List(writing') /\ Len(writing') = n - 1
        /\ \A i \in 1 .. Len(writing') : writing'[i] = writing[i + 1] /\ i + 1 \in 1 .. n
    BY <1>0, <1>1, <1>3, Popping
  <2>2. /\ DOMAIN writing' = 1 .. Len(writing') /\ Len(writing') \in Nat
        /\ writing' = <<>> <=> Len(writing') = 0
    BY <2>1, ListFacts
  <2> QED
    BY <1>3, <2>1, <2>2
<1>9. \A i \in DOMAIN writing' :
          /\ writing'[i].module \in DOMAIN loaded /\ writing'[i].next \in Nat \ {0}
          /\ \A q \in DOMAIN Deps(writing'[i].module) : q < writing'[i].next =>
                 \/ Deps(writing'[i].module)[q] \in ToSet(emitted')
                 \/ i > 1 /\ Deps(writing'[i].module)[q] = writing'[i - 1].module
  <2> SUFFICES ASSUME NEW i \in DOMAIN writing'
               PROVE  /\ writing'[i].module \in DOMAIN loaded /\ writing'[i].next \in Nat \ {0}
                      /\ \A q \in DOMAIN Deps(writing'[i].module) : q < writing'[i].next =>
                             \/ Deps(writing'[i].module)[q] \in ToSet(emitted')
                             \/ i > 1 /\ Deps(writing'[i].module)[q] = writing'[i - 1].module
    OBVIOUS
  <2>1. i + 1 \in DOMAIN writing /\ writing'[i] = writing[i + 1]
    BY <1>8
  <2>2. (i = 1 /\ (i + 1) - 1 = 1) \/ (i > 1 /\ i - 1 \in DOMAIN writing' /\ (i + 1) - 1 = (i - 1) + 1)
    BY <1>3, <1>8
  <2>3. (i = 1 /\ writing[(i + 1) - 1] = writing[1]) \/ (i > 1 /\ writing'[i - 1] = writing[(i + 1) - 1])
    BY <1>8, <2>2
  <2>4. m \in ToSet(emitted') /\ ToSet(emitted) \subseteq ToSet(emitted')
    BY <1>5
  <2> QED
    BY <1>3, <2>1, <2>3, <2>4 DEF LoaderInv, WritingInv
<1>10. writing' # <<>> => writing'[Len(writing')].module = Entry
  <2> SUFFICES ASSUME writing' # <<>> PROVE writing'[Len(writing')].module = Entry
    OBVIOUS
  <2>1. writing'[n - 1] = writing[(n - 1) + 1] /\ (n - 1) + 1 = n
    BY <1>3, <1>8
  <2> QED
    BY <1>0, <1>3, <1>8, <2>1 DEF LoaderInv, WritingInv
<1>11. WritingInv'
  BY <1>1, <1>2, <1>8, <1>9, <1>10 DEF WritingInv
<1>12. PhaseInv'
  <2>1. n = 1 => Entry \in ToSet(emitted')
    BY <1>0, <1>3, <1>5 DEF LoaderInv, WritingInv
  <2>2. phase' \in {"emit", "done"} /\ (phase' = "done" => Entry \in ToSet(emitted'))
    BY <1>1, <1>3, <2>1
  <2> QED
    BY <1>1, <1>3, <2>2 DEF LoaderInv, PhaseInv, Phases
<1> QED
  BY <1>2, <1>7, <1>11, <1>12 DEF LoaderInv

LEMMA LoaderStep == LoaderInv /\ [Next]_vars => LoaderInv'
<1> SUFFICES ASSUME LoaderInv, [Next]_vars PROVE LoaderInv'
  OBVIOUS
<1>1. CASE Unresolved
  BY <1>1, FailStep DEF Unresolved, AtImport, Phases
<1>2. CASE Cycle
  BY <1>2, FailStep, CycleIsReal DEF Cycle, AtImport, Phases, LoaderInv
<1>3. CASE ItemMissing
  BY <1>3, FailStep DEF ItemMissing, AtImport, Phases
<1>4. CASE Enter
  <2>1. phase = "load" /\ UNCHANGED <<program, loaded, writing, emitted, phase>>
    BY <1>4 DEF Enter, AtImport
  <2>2. LoadInv' /\ WrittenInv' /\ WritingInv'
    BY <1>4, <2>1, EnterStep, EmitSame DEF LoaderInv
  <2>3. PhaseInv'
    BY <2>1 DEF LoaderInv, PhaseInv, Phases
  <2> QED
    BY <2>2, <2>3 DEF LoaderInv
<1>5. CASE Bind
  <2>1. phase = "load" /\ UNCHANGED <<program, loaded>>
    BY <1>5 DEF Bind, AtImport, Fail
  <2>2. LoadInv' /\ UNCHANGED <<writing, emitted>> /\ phase' \in {phase, "collision"}
    BY <1>5, BindStep DEF LoaderInv
  <2>3. WrittenInv' /\ WritingInv'
    BY <2>1, <2>2, EmitSame DEF LoaderInv
  <2>4. PhaseInv'
    BY <2>1, <2>2 DEF LoaderInv, PhaseInv, Phases
  <2> QED
    BY <2>2, <2>3, <2>4 DEF LoaderInv
<1>6. CASE UNCHANGED vars
  <2>1. UNCHANGED <<program, stack, loaded, nextId, writing, emitted, phase>>
    BY <1>6 DEF vars
  <2>2. LoadInv' /\ WrittenInv' /\ WritingInv'
    BY <2>1, LoadSame, EmitSame DEF LoaderInv
  <2>3. PhaseInv'
    BY <2>1, SameProgram DEF LoaderInv, PhaseInv
  <2> QED
    BY <2>2, <2>3 DEF LoaderInv
<1> QED
  BY <1>1, <1>2, <1>3, <1>4, <1>5, <1>6, FinishStep, SkipStep, DescendStep, WriteStep DEF Next

LEMMA LoaderInvariance == Spec => []LoaderInv
BY LoaderStart, LoaderStep, PTL DEF Spec

-----------------------------------------------------------------------------
(* What follows                                                            *)

(* What is loaded when loading has succeeded is what the entry reaches. *)
LEMMA AllLoaded ==
    ASSUME LoaderInv, phase \in {"emit", "done"}
    PROVE  DOMAIN loaded = Reachable
<1>1. Entry \in DOMAIN loaded /\ program \in Programs
  BY DEF LoaderInv, PhaseInv, LoadInv, StackInv
<1>2. DOMAIN loaded \subseteq Reachable /\ Closed(DOMAIN loaded)
  BY DEF LoaderInv, LoadInv, LoadedInv, ModuleInv, Closed
<1>3. DOMAIN loaded \in SUBSET Modules
  BY <1>1, <1>2, ReachableIs
<1> QED
  BY <1>1, <1>2, <1>3, ReachableIs

LEMMA CyclesFound == LoaderInv => CyclesAreFound
<1> SUFFICES ASSUME LoaderInv PROVE CyclesAreFound
  OBVIOUS
<1>1. phase = "cycle" => \E m \in Reachable : m \in Below(m)
  BY DEF LoaderInv, PhaseInv
<1>2. phase \in {"emit", "done"} => \A m \in Reachable : m \notin Below(m)
  BY AllLoaded DEF LoaderInv, LoadInv, LoadedInv, ModuleInv
<1> QED
  BY <1>1, <1>2 DEF CyclesAreFound

LEMMA EmittedRight == LoaderInv => EmittedInOrder
<1> SUFFICES ASSUME LoaderInv, phase = "done" PROVE EmittedInOrder
  BY DEF EmittedInOrder
<1>1. /\ DOMAIN loaded = Reachable /\ program \in Programs /\ Entry \in ToSet(emitted)
      /\ ToSet(emitted) \subseteq DOMAIN loaded
  BY AllLoaded DEF LoaderInv, LoadInv, PhaseInv, WrittenInv
<1>2. ToSet(emitted) = Reachable
  <2>1. Closed(ToSet(emitted))
    BY DEF LoaderInv, WrittenInv, Closed, ToSet
  <2>2. ToSet(emitted) \in SUBSET Modules
    BY <1>1, ReachableIs
  <2> QED
    BY <1>1, <2>1, <2>2, ReachableIs
<1>3. \A i, j \in DOMAIN emitted : emitted[i] = emitted[j] => i = j
  BY DEF LoaderInv, WrittenInv
<1>4. IsInjective(emitted)
  BY <1>3 DEF IsInjective
<1>5. \A i, j \in DOMAIN emitted : emitted[j] \in ImportsOf(emitted[i]) => j < i
  <2> SUFFICES ASSUME NEW i \in DOMAIN emitted, NEW j \in DOMAIN emitted,
                      emitted[j] \in ImportsOf(emitted[i])
               PROVE  j < i
    OBVIOUS
  <2>1. PICK k \in DOMAIN emitted : k < i /\ emitted[k] = emitted[j]
    BY DEF LoaderInv, WrittenInv
  <2> QED
    BY <1>3, <2>1
<1> QED
  BY <1>2, <1>4, <1>5 DEF EmittedInOrder

LEMMA NamesBound == LoaderInv => NamesAreBound
<1> SUFFICES ASSUME LoaderInv, phase = "done",
                    NEW i \in DOMAIN emitted, NEW n \in DOMAIN loaded[emitted[i]].names,
                    NEW s, s = loaded[emitted[i]].names[n]
             PROVE  /\ \E k \in DOMAIN emitted : DefinesBefore(k, i, s)
                    /\ \A k, l \in DOMAIN emitted :
                           loaded[emitted[k]].id = s.id /\ loaded[emitted[l]].id = s.id => k = l
  BY DEF NamesAreBound
<1>1. \A k \in DOMAIN emitted : emitted[k] \in DOMAIN loaded
  BY DEF LoaderInv, WrittenInv, ToSet
<1>2. \E k \in DOMAIN emitted : DefinesBefore(k, i, s)
  <2>1. /\ ToSet(loaded[emitted[i]].deps) = ImportsOf(emitted[i])
        /\ FromExports(loaded[emitted[i]].names, loaded[emitted[i]].deps)
    BY <1>1 DEF LoaderInv, LoadInv, LoadedInv, ModuleInv
  <2>2. PICK m \in ImportsOf(emitted[i]) : \E d \in DOMAIN loaded[m].exports : s = loaded[m].exports[d]
    BY <2>1, Zenon DEF FromExports
  <2>3. PICK k \in DOMAIN emitted : k < i /\ emitted[k] = m
    BY <2>2 DEF LoaderInv, WrittenInv
  <2>4. loaded[m].exports = Exports(m, loaded[m].id)
    BY <1>1, <2>3 DEF LoaderInv, LoadInv, LoadedInv, ModuleInv
  <2>5. PICK d \in Exported(m) : s.id = loaded[m].id /\ s.name = d
    BY <2>2, <2>4 DEF Exports, Symbol
  <2>6. d \in Decls(m) /\ (UsesVisibility(m) => program[m].decls[d] = "export")
    BY <2>5 DEF Exported
  <2> QED
    BY <2>3, <2>5, <2>6 DEF DefinesBefore
<1>3. \A k, l \in DOMAIN emitted :
          loaded[emitted[k]].id = s.id /\ loaded[emitted[l]].id = s.id => k = l
  BY <1>1 DEF LoaderInv, LoadInv, LoadedInv, WrittenInv
<1> QED
  BY <1>2, <1>3

LEMMA LoaderTypes == LoaderInv => TypeOK
<1> SUFFICES ASSUME LoaderInv PROVE TypeOK
  OBVIOUS
<1>1. Reachable \subseteq Modules
  BY ReachableIs DEF LoaderInv, LoadInv
<1>2. \A i \in DOMAIN stack : stack[i].module \in Modules /\ stack[i].id < nextId
  BY <1>1 DEF LoaderInv, LoadInv, StackInv, FrameInv
<1>3. DOMAIN loaded \subseteq Modules
  BY <1>1 DEF LoaderInv, LoadInv, LoadedInv, ModuleInv
<1>4. nextId <= Cardinality(Modules) + 1
  <2> DEFINE S == DOMAIN loaded \union Active
  <2>1. S \subseteq Modules
    BY <1>2, <1>3 DEF Active
  <2>2. nextId = Cardinality(S) + 1
    BY DEF LoaderInv, LoadInv, NumberInv
  <2> HIDE DEF S
  <2>3. Cardinality(S) <= Cardinality(Modules) /\ Cardinality(S) \in Nat /\ Cardinality(Modules) \in Nat
    BY <2>1, LoaderAssumption, FS_Subset, FS_CardinalityType
  <2> QED
    BY <2>2, <2>3
<1>5. \A i \in DOMAIN emitted : emitted[i] \in DOMAIN loaded
  BY DEF LoaderInv, WrittenInv, ToSet
<1> QED
  BY <1>2, <1>3, <1>4, <1>5 DEF TypeOK, LoaderInv, PhaseInv, Phases

(* Modules and their numbers are what the loader takes them for, and no    *)
(* more numbers are given out than there are files (processModule).        *)
THEOREM LoaderTypeCorrect == Spec => []TypeOK
BY LoaderInvariance, LoaderTypes, PTL

(* For every program: it is refused for a cycle only when there is one     *)
(* among what the entry reaches, accepted only when there is none, and     *)
(* then all that the entry reaches is written, each module once and after  *)
(* all it imports (processModule, emitModule).                             *)
THEOREM ProgramsLoadInOrder == Spec => []LoadedInOrder
<1>1. LoaderInv => LoadedInOrder
  BY CyclesFound, EmittedRight DEF LoadedInOrder
<1> QED
  BY <1>1, LoaderInvariance, PTL

(* For every program that is accepted: the names that one module takes     *)
(* from another mean symbols that one module defines, exports, and has     *)
(* defined by then (processModule, makeInternalSymbol).                    *)
THEOREM ImportedNamesAreDefined == Spec => []NamesAreBound
BY LoaderInvariance, NamesBound, PTL

-----------------------------------------------------------------------------
(* Exits: the deepest of a set of constructs                               *)

LEMMA LeastNatural ==
    ASSUME NEW S \in SUBSET Nat, S # {}
    PROVE  \E x \in S : \A y \in S : x <= y
<1> DEFINE R == StrictSubsetOrdering(Nat)
           F == FiniteSubsetsOf(Nat)
           T == {1 .. n : n \in S}
<1>1. IsWellFoundedOn(R, F)
  BY FS_StrictSubsetOrderingWellFounded
<1>2. T \subseteq F /\ T # {}
  <2>1. \A n \in Nat : IsFiniteSet(1 .. n) /\ 1 .. n \in SUBSET Nat
    BY FS_Interval
  <2> QED
    BY <2>1 DEF FiniteSubsetsOf
<1>3. \E x \in T : \A y \in T : ~(<<y, x>> \in R)
  <2> HIDE DEF R, F, T
  <2> QED
    BY <1>1, <1>2, WFMin
<1>4. PICK x \in S : \A y \in S : ~(<<1 .. y, 1 .. x>> \in R)
  BY <1>3
<1>5. ASSUME NEW y \in S, y < x PROVE FALSE
  <2>1. 1 .. y \subseteq 1 .. x /\ x \in 1 .. x /\ x \notin 1 .. y
    BY <1>5
  <2>2. <<1 .. y, 1 .. x>> \in (SUBSET Nat) \X (SUBSET Nat)
    OBVIOUS
  <2>3. <<1 .. y, 1 .. x>> \in R
    BY <2>1, <2>2 DEF StrictSubsetOrdering
  <2> QED
    BY <2>3, <1>4
<1> QED
  BY <1>5

LEMMA DeepestIs ==
    ASSUME NEW n \in Nat, NEW S \in SUBSET (1 .. n)
    PROVE  /\ S = {} => Deepest(S) = 0
           /\ S # {} => Deepest(S) \in S
           /\ \A k \in S : k <= Deepest(S)
           /\ Deepest(S) \in Nat
           /\ \A x \in S : (\A k \in S : k <= x) => Deepest(S) = x
<1>0. \A k \in S : k \in Nat /\ k >= 1
  <2>1. \A k \in 1 .. n : k \in Nat /\ k >= 1
    OBVIOUS
  <2> QED
    BY <2>1, Zenon
<1>1. CASE S = {}
  BY <1>1 DEF Deepest, Outside
<1>2. CASE S # {}
  <2> DEFINE U == {x \in Nat : \A y \in S : y <= x}
  <2>1. PICK x \in U : \A z \in U : x <= z
    <3>1. n \in U /\ U \in SUBSET Nat
      OBVIOUS
    <3> HIDE DEF U
    <3> QED
      BY <3>1, LeastNatural
  <2>2. x \in S
    <3>1. CASE x \notin S
      <4>1. x # 0
        <5>1. PICK y \in S : y \in Nat /\ y >= 1 /\ y <= x
          BY <1>0, <1>2, <2>1, Zenon
        <5> QED
          BY <2>1, <5>1
      <4>2. x - 1 \in U
        BY <2>1, <3>1, <4>1
      <4> QED
        BY <2>1, <4>2
    <3> QED
      BY <3>1
  <2>3. Deepest(S) = CHOOSE d \in S : \A k \in S : k <= d
    BY <1>2 DEF Deepest
  <2>4. Deepest(S) \in S /\ \A k \in S : k <= Deepest(S)
    BY <2>1, <2>2, <2>3
  <2> DEFINE d == Deepest(S)
  <2>5. d \in Nat
    BY <1>0, <2>4, Zenon
  <2> HIDE DEF d
  <2>6. ASSUME NEW y \in S, \A k \in S : k <= y PROVE d = y
    <3>1. y \in Nat /\ y <= d /\ d <= y
      BY <1>0, <2>4, <2>6, Zenon DEF d
    <3> QED
      BY <2>5, <3>1
  <2> QED
    BY <1>2, <2>4, <2>5, <2>6 DEF d
<1> QED
  BY <1>1, <1>2

-----------------------------------------------------------------------------
(* Exits: the constructs that are open.  A loop knows the deepest loop     *)
(* around it, a try statement the deepest that is not in its finally       *)
(* block; so does the compiler.                                            *)

FnsOf(n) == {d \in 1 .. Len(n) : n[d].kind = "fn"}

LoopsOf(n) == {d \in 1 .. Len(n) : n[d].kind = "loop"}

GuardsOf(n) == {d \in 1 .. Len(n) : n[d].kind = "try" /\ n[d].clause # "finally"}

BelowIn(S, d) == {e \in S : e < d}

IsTry(c) ==
    /\ c.kind = "try"
    /\ DOMAIN c = {"kind", "clause", "catch", "finally", "enclosing"}
    /\ c.clause \in {"body", "catch", "finally"}
    /\ c.catch \in BOOLEAN /\ c.finally \in BOOLEAN
    /\ c.catch = TRUE \/ c.finally = TRUE
    /\ c.clause = "finally" => c.finally = TRUE

ConstructOK(n, d) ==
    \/ n[d].kind = "fn"
    \/ n[d].kind = "loop" /\ n[d].enclosing = Deepest(BelowIn(LoopsOf(n), d))
    \/ IsTry(n[d]) /\ n[d].enclosing = Deepest(BelowIn(GuardsOf(n), d))

NestInv ==
    /\ List(nest)
    /\ \A d \in 1 .. Len(nest) : ConstructOK(nest, d)
    /\ currentLoop = Deepest(LoopsOf(nest))
    /\ currentTry = Deepest(GuardsOf(nest))

(* A construct stays what it is while nothing below it changes. *)
LEMMA SameConstruct ==
    ASSUME NEW n, NEW m, NEW d \in Nat, d >= 1, Len(n) \in Nat, Len(m) \in Nat, d <= Len(n), d <= Len(m),
           \A e \in 1 .. d : m[e] = n[e]
    PROVE  /\ BelowIn(LoopsOf(m), d) = BelowIn(LoopsOf(n), d)
           /\ BelowIn(GuardsOf(m), d) = BelowIn(GuardsOf(n), d)
           /\ ConstructOK(n, d) => ConstructOK(m, d)
<1>1. \A e : e \in 1 .. Len(m) /\ e < d <=> e \in 1 .. Len(n) /\ e < d
  OBVIOUS
<1>2. \A e \in 1 .. Len(n) : e < d => e \in 1 .. d
  OBVIOUS
<1>3. /\ BelowIn(LoopsOf(m), d) = BelowIn(LoopsOf(n), d)
      /\ BelowIn(GuardsOf(m), d) = BelowIn(GuardsOf(n), d)
  BY <1>1, <1>2 DEF BelowIn, LoopsOf, GuardsOf
<1>4. m[d] = n[d]
  OBVIOUS
<1> QED
  BY <1>3, <1>4 DEF ConstructOK

LEMMA NestFacts ==
    ASSUME NestInv
    PROVE  /\ Len(nest) \in Nat /\ DOMAIN nest = 1 .. Len(nest) /\ Depths = 1 .. Len(nest)
           /\ \A d : d \in FnsOf(nest) <=> d \in Depths /\ Is(d, "fn")
           /\ \A d : d \in LoopsOf(nest) <=> d \in Depths /\ Is(d, "loop")
           /\ \A d : d \in GuardsOf(nest) <=> d \in Depths /\ Guards(d)
           /\ InnermostFn = Deepest(FnsOf(nest))
           /\ \A d \in GuardsOf(nest) : IsTry(nest[d]) /\ nest[d].clause # "finally"
           /\ FnsOf(nest) \in SUBSET (1 .. Len(nest)) /\ LoopsOf(nest) \in SUBSET (1 .. Len(nest))
           /\ GuardsOf(nest) \in SUBSET (1 .. Len(nest))
<1>1. Len(nest) \in Nat /\ DOMAIN nest = 1 .. Len(nest) /\ Depths = 1 .. Len(nest)
  BY ListFacts DEF NestInv, Depths
<1>2. FnsOf(nest) = {d \in Depths : Is(d, "fn")}
  BY <1>1 DEF FnsOf, Is
<1>3. LoopsOf(nest) = {d \in Depths : Is(d, "loop")}
  BY <1>1 DEF LoopsOf, Is
<1>4. GuardsOf(nest) = {d \in Depths : Guards(d)}
  BY <1>1 DEF GuardsOf, Guards, Is
<1>5. \A d \in GuardsOf(nest) : IsTry(nest[d]) /\ nest[d].clause # "finally"
  BY DEF NestInv, ConstructOK, GuardsOf
<1> QED
  BY <1>1, <1>2, <1>3, <1>4, <1>5, Zenon DEF InnermostFn, FnsOf, LoopsOf, GuardsOf

(* What the compiler's steps do to the constructs: one is opened, the last *)
(* one is closed, or goes on to another of its clauses.                    *)

LEMMA Opened ==
    ASSUME NestInv, NEW c, nest' = Append(nest, c)
    PROVE  LET n == Len(nest) + 1
           IN  /\ List(nest') /\ Len(nest') = n /\ nest'[n] = c
               /\ \A d \in 1 .. Len(nest) : nest'[d] = nest[d]
               /\ LoopsOf(nest') = LoopsOf(nest) \union {d \in {n} : c.kind = "loop"}
               /\ GuardsOf(nest') =
                      GuardsOf(nest) \union {d \in {n} : c.kind = "try" /\ c.clause # "finally"}
               /\ BelowIn(LoopsOf(nest'), n) = LoopsOf(nest) /\ BelowIn(GuardsOf(nest'), n) = GuardsOf(nest)
               /\ \A d \in 1 .. Len(nest) : ConstructOK(nest', d)
<1> DEFINE n == Len(nest) + 1
<1>1. List(nest) /\ Len(nest) \in Nat
  BY ListFacts DEF NestInv
<1>2. /\ List(nest') /\ Len(nest') = n /\ nest'[n] = c
      /\ \A d \in 1 .. Len(nest) : nest'[d] = nest[d]
  BY <1>1, Appending
<1>3. \A d : d \in 1 .. n <=> d \in 1 .. Len(nest) \/ d = n
  BY <1>1
<1>4. \A d \in 1 .. Len(nest) : d < n /\ d # n
  BY <1>1
<1>5. ~(n < n)
  BY <1>1
<1>6. \A d \in 1 .. Len(nest) : ConstructOK(nest', d)
  <2> SUFFICES ASSUME NEW d \in 1 .. Len(nest) PROVE ConstructOK(nest', d)
    OBVIOUS
  <2>1. d \in Nat /\ d >= 1 /\ d <= Len(nest) /\ d <= Len(nest') /\ Len(nest') \in Nat
    BY <1>1, <1>2
  <2>2. \A e \in 1 .. d : nest'[e] = nest[e]
    BY <1>1, <1>2, <2>1
  <2>3. ConstructOK(nest, d)
    BY DEF NestInv
  <2> QED
    BY <1>1, <2>1, <2>2, <2>3, SameConstruct
<1> HIDE DEF n
<1>7. LoopsOf(nest') = LoopsOf(nest) \union {d \in {n} : c.kind = "loop"}
  BY <1>2, <1>3, <1>4 DEF LoopsOf
<1>8. GuardsOf(nest') = GuardsOf(nest) \union {d \in {n} : c.kind = "try" /\ c.clause # "finally"}
  BY <1>2, <1>3, <1>4 DEF GuardsOf
<1>9. BelowIn(LoopsOf(nest'), n) = LoopsOf(nest) /\ BelowIn(GuardsOf(nest'), n) = GuardsOf(nest)
  BY <1>4, <1>5, <1>7, <1>8 DEF BelowIn, LoopsOf, GuardsOf
<1> QED
  BY <1>2, <1>6, <1>7, <1>8, <1>9 DEF n

LEMMA FrontIs ==
    ASSUME NEW S, NEW s \in Seq(S), Len(s) # 0
    PROVE  /\ Front(s) \in Seq(S) /\ Len(Front(s)) = Len(s) - 1
           /\ \A i \in 1 .. Len(s) - 1 : Front(s)[i] = s[i]
<1> DEFINE k == Len(s) - 1
<1>1. Len(s) \in Nat /\ k \in Nat /\ k \in 1 - 1 .. Len(s) /\ 1 \in 1 .. Len(s) + 1
  BY LenProperties
<1>2. \A i \in 1 .. k : i \in 1 .. Len(s)
  BY <1>1
<1>3. Front(s) = SubSeq(s, 1, k)
  BY DEF Front
<1>4. k - 1 + 1 = k /\ (1 <= k + 1)
  BY <1>1
<1>5. \A i \in 1 .. k : 1 + i - 1 = i
  BY <1>1
<1> HIDE DEF k
<1> QED
  BY <1>1, <1>2, <1>3, <1>4, <1>5, SubSeqProperties DEF k

LEMMA Closing ==
    ASSUME NestInv, nest # <<>>, nest' = Front(nest)
    PROVE  LET n == Len(nest)
           IN  /\ List(nest') /\ Len(nest') = n - 1 /\ n \in Nat \ {0}
               /\ \A d \in 1 .. n - 1 : nest'[d] = nest[d] /\ ConstructOK(nest', d)
               /\ FnsOf(nest') = BelowIn(FnsOf(nest), n) /\ LoopsOf(nest') = BelowIn(LoopsOf(nest), n)
               /\ GuardsOf(nest') = BelowIn(GuardsOf(nest), n)
<1> DEFINE n == Len(nest)
<1>1. List(nest) /\ n \in Nat \ {0}
  BY ListFacts DEF NestInv
<1>2. /\ List(nest') /\ Len(nest') = n - 1
      /\ \A d \in 1 .. n - 1 : nest'[d] = nest[d]
  <2>1. nest \in Seq(ToSet(nest)) /\ nest' = Front(nest)
    BY <1>1 DEF List
  <2>2. /\ nest' \in Seq(ToSet(nest)) /\ Len(nest') = n - 1
        /\ \A d \in 1 .. n - 1 : nest'[d] = nest[d]
    BY <1>1, <2>1, FrontIs
  <2> QED
    BY <2>2, SeqIsList
<1> HIDE DEF n
<1>3. \A d : d \in 1 .. n - 1 <=> d \in 1 .. n /\ d < n
  BY <1>1
<1>4. \A d \in 1 .. n - 1 : ConstructOK(nest', d)
  <2> SUFFICES ASSUME NEW d \in 1 .. n - 1 PROVE ConstructOK(nest', d)
    OBVIOUS
  <2>1. /\ d \in Nat /\ d >= 1 /\ d <= n /\ d <= n - 1 /\ n - 1 \in Nat
        /\ \A e \in 1 .. d : e \in 1 .. n - 1
    BY <1>1
  <2>2. \A e \in 1 .. d : nest'[e] = nest[e]
    BY <1>2, <2>1
  <2>3. ConstructOK(nest, d)
    BY <1>3 DEF NestInv, n
  <2> QED
    BY <1>1, <1>2, <2>1, <2>2, <2>3, SameConstruct DEF n
<1>5. /\ FnsOf(nest') = BelowIn(FnsOf(nest), n) /\ LoopsOf(nest') = BelowIn(LoopsOf(nest), n)
      /\ GuardsOf(nest') = BelowIn(GuardsOf(nest), n)
  BY <1>2, <1>3 DEF FnsOf, LoopsOf, GuardsOf, BelowIn, n
<1> QED
  BY <1>1, <1>2, <1>4, <1>5 DEF n

LEMMA FunctionIsSeq ==
    ASSUME NEW n, n \in Nat, NEW S, NEW f, f \in [1 .. n -> S]
    PROVE  f \in Seq(S)
<1>1. [1 .. n -> S] \in {[1 .. k -> S] : k \in Nat}
  OBVIOUS
<1>2. Seq(S) = UNION {[1 .. k -> S] : k \in Nat}
  BY SeqDef
<1> QED
  BY <1>1, <1>2, Zenon

LEMMA GoingOn ==
    ASSUME NestInv, nest # <<>>, NEW clause \in {"catch", "finally"},
           IsTry(nest[Len(nest)]), nest[Len(nest)].clause # "finally",
           clause = "finally" => nest[Len(nest)].finally = TRUE,
           nest' = [nest EXCEPT ![Len(nest)].clause = clause]
    PROVE  LET n == Len(nest)
           IN  /\ List(nest') /\ Len(nest') = n /\ n \in Nat \ {0}
               /\ \A d \in 1 .. n : /\ ConstructOK(nest', d) /\ nest'[d].kind = nest[d].kind
                                    /\ nest[d].kind = "try" => nest'[d].finally = nest[d].finally
               /\ FnsOf(nest') = FnsOf(nest) /\ LoopsOf(nest') = LoopsOf(nest)
               /\ n \in GuardsOf(nest)
               /\ BelowIn(GuardsOf(nest'), n) = BelowIn(GuardsOf(nest), n)
               /\ GuardsOf(nest') = IF clause = "finally" THEN BelowIn(GuardsOf(nest), n) ELSE GuardsOf(nest)
<1> DEFINE n == Len(nest)
           c == [nest[n] EXCEPT !.clause = clause]
<1>1. List(nest) /\ n \in Nat \ {0} /\ DOMAIN nest = 1 .. n /\ n \in 1 .. n
  BY ListFacts DEF NestInv
<1>2. /\ nest' = [d \in 1 .. n |-> IF d = n THEN c ELSE nest[d]]
      /\ c.kind = "try" /\ IsTry(c) /\ c.clause = clause /\ c.finally = nest[n].finally
      /\ c.enclosing = nest[n].enclosing
  <2>1. nest' = [nest EXCEPT ![n] = c]
    OBVIOUS
  <2>2. nest = [d \in 1 .. n |-> nest[d]]
    <3>1. nest \in Seq(ToSet(nest))
      BY <1>1 DEF List
    <3>2. nest \in [1 .. n -> ToSet(nest)]
      BY <3>1, LenProperties
    <3> QED
      BY <3>2
  <2>3. /\ c.kind = "try" /\ IsTry(c) /\ c.clause = clause /\ c.finally = nest[n].finally
        /\ c.enclosing = nest[n].enclosing
    BY DEF IsTry
  <2> HIDE DEF c, n
  <2>4. nest' = [d \in 1 .. n |-> IF d = n THEN c ELSE nest[d]]
    BY <1>1, <2>1, <2>2
  <2> QED
    BY <2>3, <2>4
<1> HIDE DEF c
<1>3. List(nest') /\ Len(nest') = n
  <2> DEFINE S == ToSet(nest) \union {c}
  <2>1. nest' \in [1 .. n -> S]
    BY <1>1, <1>2 DEF ToSet
  <2> HIDE DEF S, n
  <2>2. nest' \in Seq(S)
    BY <1>1, <2>1, FunctionIsSeq
  <2>3. Len(nest') = n
    <3>1. Len(nest') \in Nat /\ DOMAIN nest' = 1 .. Len(nest')
      BY <2>2, LenProperties
    <3> QED
      BY <1>1, <2>1, <3>1
  <2> QED
    BY <2>2, <2>3, SeqIsList
<1>4. nest'[n] = c /\ \A d \in 1 .. n : d # n => nest'[d] = nest[d]
  BY <1>1, <1>2
<1>5. \A d \in 1 .. n : /\ nest'[d].kind = nest[d].kind
                        /\ nest[d].kind = "try" => nest'[d].finally = nest[d].finally
  BY <1>2, <1>4 DEF IsTry
<1> HIDE DEF n
<1>6. FnsOf(nest') = FnsOf(nest) /\ LoopsOf(nest') = LoopsOf(nest)
  BY <1>3, <1>5 DEF FnsOf, LoopsOf, n
<1>7. \A d : d \in 1 .. n /\ d # n <=> d \in 1 .. n /\ d < n
  BY <1>1
<1>8. /\ n \in GuardsOf(nest) /\ BelowIn(GuardsOf(nest'), n) = BelowIn(GuardsOf(nest), n)
      /\ n \in GuardsOf(nest') <=> clause # "finally"
  BY <1>1, <1>2, <1>3, <1>4, <1>7 DEF GuardsOf, BelowIn, IsTry, n
<1>9. GuardsOf(nest') = IF clause = "finally" THEN BelowIn(GuardsOf(nest), n) ELSE GuardsOf(nest)
  <2>1. \A d : d \in GuardsOf(nest') <=> d \in BelowIn(GuardsOf(nest'), n) \/ (d = n /\ n \in GuardsOf(nest'))
    BY <1>1, <1>3, <1>7 DEF GuardsOf, BelowIn, n
  <2>2. \A d : d \in GuardsOf(nest) <=> d \in BelowIn(GuardsOf(nest), n) \/ (d = n /\ n \in GuardsOf(nest))
    BY <1>1, <1>7 DEF GuardsOf, BelowIn, n
  <2> QED
    BY <1>8, <2>1, <2>2
<1>10. \A d \in 1 .. n : ConstructOK(nest', d)
  <2> SUFFICES ASSUME NEW d \in 1 .. n PROVE ConstructOK(nest', d)
    OBVIOUS
  <2>1. ConstructOK(nest, d)
    BY DEF NestInv, n
  <2>2. CASE d # n
    <3>1. d \in Nat /\ d >= 1 /\ d <= n /\ \A e \in 1 .. d : e \in 1 .. n /\ e # n
      BY <1>1, <2>2
    <3>2. \A e \in 1 .. d : nest'[e] = nest[e]
      BY <1>4, <3>1
    <3> QED
      BY <1>1, <1>3, <2>1, <3>1, <3>2, SameConstruct DEF n
  <2>3. CASE d = n
    BY <1>2, <1>4, <1>8, <2>1, <2>3 DEF ConstructOK, IsTry
  <2> QED
    BY <2>2, <2>3
<1> QED
  BY <1>1, <1>3, <1>5, <1>6, <1>8, <1>9, <1>10 DEF n
-----------------------------------------------------------------------------
(* Exits: the inductive invariant.  A plain exit that is pending in the    *)
(* try statement at has its target outside of every guarded statement that *)
(* is still open, the functions too are outside of these, and the finally  *)
(* blocks it is owed are those it has run, its own, and those of the try   *)
(* statements around it.                                                   *)

ExitFields ==
    [kind : {"return", "break", "continue", "throw"}, want : Nat, owed : SUBSET Nat, plain : BOOLEAN,
     loop : Nat, state : {"read", "pending", "done"}, at : Nat, run : Seq(Nat), got : Int]

IsExit(x) == x \in ExitFields /\ x.state # "read"

Descending(s) == \A i, j \in 1 .. Len(s) : i < j => s[i] > s[j]

ToRun(n, d) == {e \in BelowIn(GuardsOf(n), d) \union {d} : n[e].finally = TRUE}

PendingOK(x) ==
    /\ \A f \in FnsOf(nest) : f < x.at /\ \A e \in GuardsOf(nest) : f < e
    /\ \A e \in GuardsOf(nest) : x.want < e
    /\ x.want < x.at
    /\ x.owed = ToSet(x.run) \union ToRun(nest, x.at)
    /\ Descending(x.run) /\ \A i \in 1 .. Len(x.run) : x.run[i] > x.at
    /\ x.kind = "return" => x.want = Deepest(FnsOf(nest))
    /\ x.kind \in {"break", "continue"} => /\ x.want \in LoopsOf(nest) /\ x.want = Deepest(LoopsOf(nest))
                                           /\ \A f \in FnsOf(nest) : f < x.want
    /\ x.kind = "continue" => x.loop = x.want
    /\ x.kind = "throw" => x.want = 0

ExitOK(x) ==
    /\ IsExit(x)
    /\ x.state = "pending" => x.at \in 1 .. Len(nest) /\ nest[x.at].kind = "try"
    /\ x.state = "pending" /\ x.plain = TRUE => PendingOK(x)
    /\ x.state = "done" /\ x.plain = TRUE => Right(x)

ExitInv == exit = NoExit \/ ExitOK(exit)

-----------------------------------------------------------------------------
(* Exits: the innermost loop and try statement, step by step               *)

LEMMA DeepestOf ==
    ASSUME NestInv
    PROVE  /\ \A x : x = Deepest(FnsOf(nest)) =>
                     x \in Nat /\ (FnsOf(nest) # {} => x \in FnsOf(nest)) /\ \A k \in FnsOf(nest) : k <= x
           /\ \A x : x = currentLoop =>
                     x \in Nat /\ (LoopsOf(nest) # {} => x \in LoopsOf(nest)) /\ \A k \in LoopsOf(nest) : k <= x
           /\ \A x : x = currentTry =>
                     x \in Nat /\ (GuardsOf(nest) # {} => x \in GuardsOf(nest)) /\ \A k \in GuardsOf(nest) : k <= x
<1>1. Len(nest) \in Nat /\ FnsOf(nest) \in SUBSET (1 .. Len(nest))
  BY NestFacts
<1>2. LoopsOf(nest) \in SUBSET (1 .. Len(nest)) /\ GuardsOf(nest) \in SUBSET (1 .. Len(nest))
  BY NestFacts
<1>3. currentLoop = Deepest(LoopsOf(nest)) /\ currentTry = Deepest(GuardsOf(nest))
  BY DEF NestInv
<1>4. LET x == Deepest(FnsOf(nest))
      IN  x \in Nat /\ (FnsOf(nest) # {} => x \in FnsOf(nest)) /\ \A k \in FnsOf(nest) : k <= x
  <2> DEFINE S == FnsOf(nest)
             n == Len(nest)
  <2>1. n \in Nat /\ S \in SUBSET (1 .. n)
    BY <1>1, <1>2
  <2> HIDE DEF S, n
  <2>2. /\ Deepest(S) \in Nat /\ (S # {} => Deepest(S) \in S)
        /\ \A k \in S : k <= Deepest(S)
    BY <2>1, DeepestIs
  <2> QED
    BY <2>2 DEF S
<1>5. LET x == Deepest(LoopsOf(nest))
      IN  x \in Nat /\ (LoopsOf(nest) # {} => x \in LoopsOf(nest)) /\ \A k \in LoopsOf(nest) : k <= x
  <2> DEFINE S == LoopsOf(nest)
             n == Len(nest)
  <2>1. n \in Nat /\ S \in SUBSET (1 .. n)
    BY <1>1, <1>2
  <2> HIDE DEF S, n
  <2>2. /\ Deepest(S) \in Nat /\ (S # {} => Deepest(S) \in S)
        /\ \A k \in S : k <= Deepest(S)
    BY <2>1, DeepestIs
  <2> QED
    BY <2>2 DEF S
<1>6. LET x == Deepest(GuardsOf(nest))
      IN  x \in Nat /\ (GuardsOf(nest) # {} => x \in GuardsOf(nest)) /\ \A k \in GuardsOf(nest) : k <= x
  <2> DEFINE S == GuardsOf(nest)
             n == Len(nest)
  <2>1. n \in Nat /\ S \in SUBSET (1 .. n)
    BY <1>1, <1>2
  <2> HIDE DEF S, n
  <2>2. /\ Deepest(S) \in Nat /\ (S # {} => Deepest(S) \in S)
        /\ \A k \in S : k <= Deepest(S)
    BY <2>1, DeepestIs
  <2> QED
    BY <2>2 DEF S
<1> QED
  BY <1>3, <1>4, <1>5, <1>6

LEMMA NestInit == ExitsInit => NestInv
<1> SUFFICES ASSUME ExitsInit PROVE NestInv
  OBVIOUS
<1>1. nest = <<>> /\ List(nest) /\ Len(nest) = 0
  <2>1. <<>> \in Seq({}) /\ Len(<<>>) = 0
    OBVIOUS
  <2> QED
    BY <2>1, SeqIsList DEF ExitsInit
<1>2. LoopsOf(nest) = {} /\ GuardsOf(nest) = {} /\ \A d : d \notin 1 .. Len(nest)
  BY <1>1 DEF LoopsOf, GuardsOf
<1>3. Deepest({}) = Outside
  BY DEF Deepest
<1> QED
  BY <1>1, <1>2, <1>3 DEF NestInv, ExitsInit

LEMMA NestPush ==
    ASSUME NestInv, NEW c, nest' = Append(nest, c),
           ConstructOK(nest', Len(nest) + 1),
           \/ c.kind = "fn" /\ UNCHANGED <<currentLoop, currentTry>>
           \/ c.kind = "loop" /\ currentLoop' = Len(nest) + 1 /\ UNCHANGED currentTry
           \/ c.kind = "try" /\ c.clause # "finally" /\ currentTry' = Len(nest) + 1 /\ UNCHANGED currentLoop
    PROVE  NestInv'
<1> DEFINE n == Len(nest) + 1
<1>1. /\ List(nest') /\ Len(nest') = n /\ n \in Nat
      /\ LoopsOf(nest') = LoopsOf(nest) \union {d \in {n} : c.kind = "loop"}
      /\ GuardsOf(nest') = GuardsOf(nest) \union {d \in {n} : c.kind = "try" /\ c.clause # "finally"}
      /\ \A d \in 1 .. Len(nest) : ConstructOK(nest', d)
  BY Opened, NestFacts
<1>2. \A d \in 1 .. n : d \in 1 .. Len(nest) \/ d = n
  BY NestFacts
<1>3. \A d \in 1 .. Len(nest') : ConstructOK(nest', d)
  BY <1>1, <1>2
<1>4. \A k \in 1 .. Len(nest) : k <= n
  BY NestFacts
<1>5. /\ LoopsOf(nest') \in SUBSET (1 .. n) /\ GuardsOf(nest') \in SUBSET (1 .. n)
      /\ LoopsOf(nest) \in SUBSET (1 .. Len(nest)) /\ GuardsOf(nest) \in SUBSET (1 .. Len(nest))
      /\ n <= n
  BY <1>1 DEF LoopsOf, GuardsOf
<1> HIDE DEF n
<1>6. c.kind = "loop" => Deepest(LoopsOf(nest')) = n
  <2> DEFINE S == LoopsOf(nest')
  <2> SUFFICES ASSUME c.kind = "loop" PROVE Deepest(S) = n
    OBVIOUS
  <2>1. S \in SUBSET (1 .. n) /\ n \in S /\ \A k \in S : k <= n
    BY <1>1, <1>4, <1>5
  <2> HIDE DEF S
  <2> QED
    BY <1>1, <2>1, DeepestIs
<1>7. c.kind = "try" /\ c.clause # "finally" => Deepest(GuardsOf(nest')) = n
  <2> DEFINE S == GuardsOf(nest')
  <2> SUFFICES ASSUME c.kind = "try" /\ c.clause # "finally" PROVE Deepest(S) = n
    OBVIOUS
  <2>1. S \in SUBSET (1 .. n) /\ n \in S /\ \A k \in S : k <= n
    BY <1>1, <1>4, <1>5
  <2> HIDE DEF S
  <2> QED
    BY <1>1, <2>1, DeepestIs
<1>8. currentLoop' = Deepest(LoopsOf(nest')) /\ currentTry' = Deepest(GuardsOf(nest'))
  BY <1>1, <1>6, <1>7 DEF NestInv, n
<1> QED
  BY <1>1, <1>3, <1>8 DEF NestInv

LEMMA NestPop ==
    ASSUME NestInv, nest # <<>>, nest' = Front(nest),
           \/ nest[Len(nest)].kind = "fn" /\ UNCHANGED <<currentLoop, currentTry>>
           \/ /\ nest[Len(nest)].kind = "loop"
              /\ currentLoop' = nest[Len(nest)].enclosing /\ UNCHANGED currentTry
           \/ /\ nest[Len(nest)].kind = "try"
              /\ currentTry' = nest[Len(nest)].enclosing /\ UNCHANGED currentLoop
    PROVE  NestInv'
<1> DEFINE n == Len(nest)
<1>1. /\ List(nest') /\ Len(nest') = n - 1 /\ n \in Nat \ {0}
      /\ \A d \in 1 .. n - 1 : nest'[d] = nest[d] /\ ConstructOK(nest', d)
      /\ LoopsOf(nest') = BelowIn(LoopsOf(nest), n) /\ GuardsOf(nest') = BelowIn(GuardsOf(nest), n)
  BY Closing
<1>2. n \in 1 .. n /\ \A d \in 1 .. n : d < n \/ d = n
  BY <1>1
<1>3. ConstructOK(nest, n)
  BY <1>2 DEF NestInv
<1>4. n \notin LoopsOf(nest) => BelowIn(LoopsOf(nest), n) = LoopsOf(nest)
  BY <1>2 DEF LoopsOf, BelowIn
<1>5. n \notin GuardsOf(nest) => BelowIn(GuardsOf(nest), n) = GuardsOf(nest)
  BY <1>2 DEF GuardsOf, BelowIn
<1>6. nest[n].kind = "loop" <=> n \in LoopsOf(nest)
  BY <1>2 DEF LoopsOf
<1>7. n \in GuardsOf(nest) => nest[n].kind = "try"
  BY DEF GuardsOf
<1>8. currentLoop' = Deepest(BelowIn(LoopsOf(nest), n))
  BY <1>3, <1>4, <1>6 DEF ConstructOK, NestInv, IsTry
<1>9. currentTry' = Deepest(BelowIn(GuardsOf(nest), n))
  BY <1>3, <1>5, <1>7 DEF ConstructOK, NestInv, IsTry
<1>10. \A d \in 1 .. Len(nest') : ConstructOK(nest', d)
  BY <1>1
<1> QED
  BY <1>1, <1>8, <1>9, <1>10 DEF NestInv

LEMMA NestGoesOn ==
    ASSUME NestInv, nest # <<>>, NEW clause \in {"catch", "finally"},
           IsTry(nest[Len(nest)]), nest[Len(nest)].clause # "finally",
           clause = "finally" => nest[Len(nest)].finally = TRUE,
           nest' = [nest EXCEPT ![Len(nest)].clause = clause],
           currentTry' = IF clause = "finally" THEN nest[Len(nest)].enclosing ELSE currentTry,
           UNCHANGED currentLoop
    PROVE  NestInv'
<1> DEFINE n == Len(nest)
<1>1. /\ List(nest') /\ Len(nest') = n /\ n \in Nat \ {0}
      /\ \A d \in 1 .. n : ConstructOK(nest', d)
      /\ LoopsOf(nest') = LoopsOf(nest)
      /\ GuardsOf(nest') = IF clause = "finally" THEN BelowIn(GuardsOf(nest), n) ELSE GuardsOf(nest)
  BY GoingOn
<1>2. nest[n].enclosing = Deepest(BelowIn(GuardsOf(nest), n))
  BY <1>1 DEF NestInv, ConstructOK, IsTry
<1>3. currentTry' = Deepest(GuardsOf(nest'))
  BY <1>1, <1>2 DEF NestInv
<1>4. currentLoop' = Deepest(LoopsOf(nest'))
  BY <1>1 DEF NestInv
<1> QED
  BY <1>1, <1>3, <1>4 DEF NestInv

LEMMA NestSame ==
    ASSUME NestInv, UNCHANGED <<nest, currentLoop, currentTry>>
    PROVE  NestInv'
<1>1. /\ List(nest') /\ LoopsOf(nest') = LoopsOf(nest) /\ GuardsOf(nest') = GuardsOf(nest)
      /\ Len(nest') = Len(nest) /\ \A d : ConstructOK(nest', d) <=> ConstructOK(nest, d)
  BY DEF NestInv
<1> QED
  BY <1>1 DEF NestInv

(* The last construct. *)
LEMMA LastIs ==
    ASSUME NestInv, nest # <<>>
    PROVE  /\ Last(nest) = nest[Len(nest)] /\ Len(nest) \in Nat \ {0} /\ Len(nest) \in 1 .. Len(nest)
           /\ ConstructOK(nest, Len(nest))
<1>1. Len(nest) \in Nat \ {0}
  BY ListFacts DEF NestInv
<1>2. Len(nest) \in 1 .. Len(nest)
  BY <1>1
<1> QED
  BY <1>1, <1>2 DEF Last, NestInv

LEMMA InTryIs ==
    ASSUME NestInv, NEW clauses, InTry(clauses)
    PROVE  /\ nest # <<>> /\ IsTry(nest[Len(nest)]) /\ nest[Len(nest)].clause \in clauses
           /\ nest[Len(nest)].enclosing = Deepest(BelowIn(GuardsOf(nest), Len(nest)))
<1>1. nest # <<>> /\ Last(nest).kind = "try" /\ Last(nest).clause \in clauses
  BY DEF InTry
<1> QED
  BY <1>1, LastIs DEF ConstructOK, IsTry

LEMMA NestSteps == NestInv /\ [ExitsNext]_exitVars => NestInv'
<1> SUFFICES ASSUME NestInv, [ExitsNext]_exitVars PROVE NestInv'
  OBVIOUS
<1>1. CASE BeginFunction
  <2> DEFINE c == [kind |-> "fn"]
  <2>1. nest' = Append(nest, c) /\ UNCHANGED <<currentLoop, currentTry>> /\ c.kind = "fn"
    BY <1>1 DEF BeginFunction, Push
  <2> HIDE DEF c
  <2>2. ConstructOK(nest', Len(nest) + 1)
    BY <2>1, Opened DEF ConstructOK
  <2> QED
    BY <2>1, <2>2, NestPush
<1>2. CASE BeginLoop
  <2> DEFINE c == [kind |-> "loop", enclosing |-> currentLoop]
  <2>1. /\ nest' = Append(nest, c) /\ currentLoop' = Len(nest) + 1 /\ UNCHANGED currentTry
        /\ c.kind = "loop" /\ c.enclosing = currentLoop
    BY <1>2 DEF BeginLoop, Push
  <2> HIDE DEF c
  <2>2. ConstructOK(nest', Len(nest) + 1)
    BY <2>1, Opened DEF ConstructOK, NestInv
  <2> QED
    BY <2>1, <2>2, NestPush
<1>3. ASSUME NEW catch \in BOOLEAN, NEW finally \in BOOLEAN, catch \/ finally, BeginTry(catch, finally)
      PROVE  NestInv'
  <2> DEFINE c == [kind |-> "try", clause |-> "body", catch |-> catch, finally |-> finally,
                   enclosing |-> currentTry]
  <2>1. nest' = Append(nest, c) /\ currentTry' = Len(nest) + 1 /\ UNCHANGED currentLoop
    BY <1>3 DEF BeginTry, Push
  <2>2. c.kind = "try" /\ c.clause = "body" /\ c.enclosing = currentTry /\ IsTry(c)
    BY <1>3 DEF IsTry
  <2> HIDE DEF c
  <2>3. ConstructOK(nest', Len(nest) + 1)
    BY <2>1, <2>2, Opened DEF ConstructOK, NestInv
  <2> QED
    BY <2>1, <2>2, <2>3, NestPush
<1>4. CASE Return \/ BreakOrContinue("break") \/ BreakOrContinue("continue") \/ Throw
  <2>1. UNCHANGED <<nest, currentLoop, currentTry>>
    BY <1>4 DEF Return, BreakOrContinue, Throw, Exit
  <2> QED
    BY <2>1, NestSame
<1>5. CASE EndFunctionOrLoop
  <2>1. nest # <<>> /\ nest' = Front(nest) /\ Last(nest).kind \in {"fn", "loop"} /\ UNCHANGED currentTry
    BY <1>5 DEF EndFunctionOrLoop
  <2>2. currentLoop' = IF Last(nest).kind = "loop" THEN Last(nest).enclosing ELSE currentLoop
    BY <1>5 DEF EndFunctionOrLoop
  <2>3. Last(nest) = nest[Len(nest)]
    BY <2>1, LastIs
  <2> QED
    BY <2>1, <2>2, <2>3, NestPop
<1>6. CASE BeginCatch
  <2>1. /\ InTry({"body"}) /\ nest' = [nest EXCEPT ![Len(nest)].clause = "catch"]
        /\ UNCHANGED <<currentLoop, currentTry>>
    BY <1>6 DEF BeginCatch
  <2>2. nest # <<>> /\ IsTry(nest[Len(nest)]) /\ nest[Len(nest)].clause # "finally"
    BY <2>1, InTryIs
  <2> QED
    BY <2>1, <2>2, NestGoesOn
<1>7. CASE BeginFinally
  <2>1. /\ InTry({LastBeforeFinally}) /\ nest' = [nest EXCEPT ![Len(nest)].clause = "finally"]
        /\ Last(nest).finally /\ currentTry' = Last(nest).enclosing /\ UNCHANGED currentLoop
    BY <1>7 DEF BeginFinally
  <2>2. nest # <<>> /\ IsTry(nest[Len(nest)]) /\ nest[Len(nest)].clause # "finally"
    BY <2>1, InTryIs DEF LastBeforeFinally
  <2>3. Last(nest) = nest[Len(nest)] /\ nest[Len(nest)].finally = TRUE
    BY <2>1, <2>2, LastIs DEF IsTry
  <2> QED
    BY <2>1, <2>2, <2>3, NestGoesOn
<1>8. CASE EndTry
  <2>1. nest # <<>> /\ nest' = Front(nest) /\ currentTry' = Last(nest).enclosing /\ UNCHANGED currentLoop
    BY <1>8 DEF EndTry, InTry
  <2>2. Last(nest) = nest[Len(nest)] /\ Last(nest).kind = "try"
    BY <1>8, <2>1, LastIs DEF EndTry, InTry
  <2> QED
    BY <2>1, <2>2, NestPop
<1>9. CASE UNCHANGED exitVars
  BY <1>9, NestSame DEF exitVars
<1> QED
  BY <1>1, <1>2, <1>3, <1>4, <1>5, <1>6, <1>7, <1>8, <1>9 DEF ExitsNext
-----------------------------------------------------------------------------
(* Exits: what the exit is does not change while its statement is open     *)

LEMMA StaysOK ==
    ASSUME NEW x, ExitOK(x),
           x.state = "pending" =>
               /\ x.at \in 1 .. Len(nest') /\ nest'[x.at].kind = "try"
               /\ x.plain = TRUE => /\ FnsOf(nest') = FnsOf(nest)
                                    /\ GuardsOf(nest') \subseteq GuardsOf(nest)
                                    /\ ToRun(nest', x.at) = ToRun(nest, x.at)
               /\ x.plain = TRUE /\ x.kind \in {"break", "continue"} => LoopsOf(nest') = LoopsOf(nest)
    PROVE  ExitOK(x)'
<1>1. x.state = "pending" /\ x.plain = TRUE => PendingOK(x)'
  <2> SUFFICES ASSUME x.state = "pending", x.plain = TRUE PROVE PendingOK(x)'
    OBVIOUS
  <2>1. PendingOK(x)
    BY DEF ExitOK
  <2>2. /\ FnsOf(nest') = FnsOf(nest) /\ GuardsOf(nest') \subseteq GuardsOf(nest)
        /\ ToRun(nest', x.at) = ToRun(nest, x.at)
        /\ x.kind \in {"break", "continue"} => LoopsOf(nest') = LoopsOf(nest)
    OBVIOUS
  <2> QED
    BY <2>1, <2>2 DEF PendingOK
<1> QED
  BY <1>1 DEF ExitOK

LEMMA NestUnchangedOK ==
    ASSUME NEW x, ExitOK(x), UNCHANGED nest
    PROVE  ExitOK(x)'
<1>1. /\ FnsOf(nest') = FnsOf(nest) /\ GuardsOf(nest') = GuardsOf(nest) /\ LoopsOf(nest') = LoopsOf(nest)
      /\ ToRun(nest', x.at) = ToRun(nest, x.at) /\ Len(nest') = Len(nest) /\ nest'[x.at] = nest[x.at]
  OBVIOUS
<1>2. x.state = "pending" => x.at \in 1 .. Len(nest) /\ nest[x.at].kind = "try"
  BY DEF ExitOK
<1> QED
  BY <1>1, <1>2, StaysOK

LEMMA GoingOnOK ==
    ASSUME NestInv, NEW x, ExitOK(x), nest # <<>>, NEW clause \in {"catch", "finally"},
           IsTry(nest[Len(nest)]), nest[Len(nest)].clause # "finally",
           clause = "finally" => nest[Len(nest)].finally = TRUE,
           nest' = [nest EXCEPT ![Len(nest)].clause = clause]
    PROVE  ExitOK(x)'
<1> DEFINE n == Len(nest)
<1>1. /\ Len(nest') = n /\ n \in Nat \ {0}
      /\ \A d \in 1 .. n : /\ nest'[d].kind = nest[d].kind
                           /\ nest[d].kind = "try" => nest'[d].finally = nest[d].finally
      /\ FnsOf(nest') = FnsOf(nest) /\ LoopsOf(nest') = LoopsOf(nest)
      /\ GuardsOf(nest') = IF clause = "finally" THEN BelowIn(GuardsOf(nest), n) ELSE GuardsOf(nest)
  BY GoingOn
<1> SUFFICES ASSUME x.state = "pending"
             PROVE  /\ x.at \in 1 .. Len(nest') /\ nest'[x.at].kind = "try"
                    /\ GuardsOf(nest') \subseteq GuardsOf(nest)
                    /\ ToRun(nest', x.at) = ToRun(nest, x.at)
  BY <1>1, StaysOK
<1>2. x.at \in 1 .. n /\ nest[x.at].kind = "try"
  BY DEF ExitOK
<1>3. GuardsOf(nest') \subseteq GuardsOf(nest)
  BY <1>1 DEF BelowIn
<1>4. BelowIn(GuardsOf(nest'), x.at) = BelowIn(GuardsOf(nest), x.at)
  <2>1. \A e \in 1 .. n : e < x.at => e < n
    BY <1>1, <1>2
  <2>2. \A e \in GuardsOf(nest) : e \in 1 .. n
    BY DEF GuardsOf
  <2> QED
    BY <1>1, <2>1, <2>2 DEF BelowIn
<1>5. \A e \in BelowIn(GuardsOf(nest), x.at) \union {x.at} : nest'[e].finally = nest[e].finally
  BY <1>1, <1>2 DEF GuardsOf, BelowIn
<1> HIDE DEF n
<1>6. ToRun(nest', x.at) = ToRun(nest, x.at)
  BY <1>4, <1>5 DEF ToRun
<1> QED
  BY <1>1, <1>2, <1>3, <1>6

LEMMA ClosingOK ==
    ASSUME NestInv, NEW x, ExitOK(x), nest # <<>>, nest' = Front(nest),
           x.state = "pending" => x.at # Len(nest)
    PROVE  ExitOK(x)'
<1> DEFINE n == Len(nest)
<1>1. /\ Len(nest') = n - 1 /\ n \in Nat \ {0}
      /\ \A d \in 1 .. n - 1 : nest'[d] = nest[d]
      /\ FnsOf(nest') = BelowIn(FnsOf(nest), n) /\ LoopsOf(nest') = BelowIn(LoopsOf(nest), n)
      /\ GuardsOf(nest') = BelowIn(GuardsOf(nest), n)
  BY Closing
<1> SUFFICES ASSUME x.state = "pending"
             PROVE  /\ x.at \in 1 .. Len(nest') /\ nest'[x.at].kind = "try"
                    /\ x.plain = TRUE => /\ FnsOf(nest') = FnsOf(nest)
                                         /\ GuardsOf(nest') \subseteq GuardsOf(nest)
                                         /\ ToRun(nest', x.at) = ToRun(nest, x.at)
                    /\ x.plain = TRUE /\ x.kind \in {"break", "continue"} => LoopsOf(nest') = LoopsOf(nest)
  BY StaysOK
<1>2. /\ x.at \in 1 .. n /\ nest[x.at].kind = "try" /\ x.at \in 1 .. n - 1 /\ x.at < n
      /\ x.want \in Nat
      /\ x.plain = TRUE => PendingOK(x)
  <2>1. x.at \in 1 .. n /\ nest[x.at].kind = "try" /\ x.plain = TRUE => PendingOK(x)
    BY DEF ExitOK
  <2>2. x.at \in 1 .. n /\ nest[x.at].kind = "try" /\ x.at # n /\ x.want \in Nat
    BY DEF ExitOK, IsExit, ExitFields
  <2> QED
    BY <1>1, <2>1, <2>2 DEF ExitOK
<1>3. GuardsOf(nest') \subseteq GuardsOf(nest)
  BY <1>1 DEF BelowIn
<1>4. BelowIn(GuardsOf(nest'), x.at) = BelowIn(GuardsOf(nest), x.at)
  <2>1. \A e \in 1 .. n : e < x.at => e < n
    BY <1>1, <1>2
  <2>2. \A e \in GuardsOf(nest) : e \in 1 .. n
    BY DEF GuardsOf
  <2> QED
    BY <1>1, <2>1, <2>2 DEF BelowIn
<1>5. \A e \in BelowIn(GuardsOf(nest), x.at) \union {x.at} : nest'[e] = nest[e]
  <2>1. \A e \in 1 .. n : e < x.at => e \in 1 .. n - 1
    BY <1>1, <1>2
  <2> QED
    BY <1>1, <1>2, <2>1 DEF GuardsOf, BelowIn
<1>6. ToRun(nest', x.at) = ToRun(nest, x.at)
  BY <1>4, <1>5 DEF ToRun
<1>7. x.plain = TRUE => FnsOf(nest') = FnsOf(nest)
  <2> SUFFICES ASSUME x.plain = TRUE PROVE \A f \in FnsOf(nest) : f < n
    BY <1>1 DEF BelowIn
  <2>1. \A f \in FnsOf(nest) : f < x.at /\ f \in 1 .. n
    BY <1>2 DEF PendingOK, FnsOf
  <2> QED
    BY <1>1, <1>2, <2>1
<1>8. x.plain = TRUE /\ x.kind \in {"break", "continue"} => LoopsOf(nest') = LoopsOf(nest)
  <2> SUFFICES ASSUME x.plain = TRUE, x.kind \in {"break", "continue"}
               PROVE  \A l \in LoopsOf(nest) : l < n
    BY <1>1 DEF BelowIn
  <2>1. x.want = currentLoop /\ x.want < x.at
    BY <1>2 DEF PendingOK, NestInv
  <2>2. \A l \in LoopsOf(nest) : l <= x.want /\ l \in 1 .. n
    BY <2>1, DeepestOf DEF LoopsOf
  <2> QED
    BY <1>1, <1>2, <2>1, <2>2
<1>9. x.at \in 1 .. Len(nest') /\ nest'[x.at].kind = "try"
  BY <1>1, <1>2
<1> QED
  BY <1>3, <1>6, <1>7, <1>8, <1>9
-----------------------------------------------------------------------------
(* Exits: the statements that leave                                        *)

(* What an exit means, in terms of the constructs that are open. *)
LEMMA MeaningIs ==
    ASSUME NestInv
    PROVE  /\ InnermostFn \in Nat
           /\ \A f \in FnsOf(nest) : f <= InnermostFn
           /\ \A d : d \in Here <=> d \in 1 .. Len(nest) /\ InnermostFn < d
           /\ \A d \in Here, f \in FnsOf(nest) : f < d
           /\ \A d : d \in Here /\ Owed(d) <=>
                     d \in GuardsOf(nest) /\ d \in Here /\ nest[d].finally = TRUE
<1>1. InnermostFn = Deepest(FnsOf(nest)) /\ Depths = 1 .. Len(nest) /\ Len(nest) \in Nat
  BY NestFacts
<1>2. InnermostFn \in Nat /\ \A f \in FnsOf(nest) : f <= InnermostFn
  BY <1>1, DeepestOf
<1>3. \A d : d \in Here <=> d \in 1 .. Len(nest) /\ InnermostFn < d
  <2>1. \A d \in 1 .. Len(nest) : d > InnermostFn <=> InnermostFn < d
    BY <1>1, <1>2
  <2> QED
    BY <1>1, <2>1 DEF Here
<1>4. \A d \in Here, f \in FnsOf(nest) : f < d
  <2>1. \A f \in FnsOf(nest) : f \in 1 .. Len(nest)
    BY DEF FnsOf
  <2> QED
    BY <1>1, <1>2, <1>3, <2>1
<1>5. \A d : d \in GuardsOf(nest) <=> d \in Depths /\ Guards(d)
  BY NestFacts
<1>6. \A d \in GuardsOf(nest) : nest[d].finally \in BOOLEAN
  BY NestFacts DEF IsTry
<1>7. \A d : d \in Here => d \in Depths
  BY <1>1, <1>3
<1>8. \A d : d \in Here /\ Owed(d) <=>
             d \in GuardsOf(nest) /\ d \in Here /\ nest[d].finally = TRUE
  <2> SUFFICES ASSUME NEW d
               PROVE  d \in Here /\ Owed(d) <=>
                          d \in GuardsOf(nest) /\ d \in Here /\ nest[d].finally = TRUE
    OBVIOUS
  <2>1. Owed(d) <=> Guards(d) /\ nest[d].finally
    BY DEF Owed
  <2> QED
    BY <1>5, <1>6, <1>7, <2>1
<1> QED
  BY <1>2, <1>3, <1>4, <1>8

LEMMA ToLoopIs ==
    ASSUME NestInv, NEW kind \in {"break", "continue"}
    PROVE  LET want == Target(kind)
           IN  /\ want \in Nat
               /\ want # 0 => /\ want = currentLoop /\ want \in LoopsOf(nest) /\ want \in Here
                              /\ want = Deepest(LoopsOf(nest))
<1> DEFINE S == {d \in Here : Is(d, "loop")}
           n == Len(nest)
<1>1. Target(kind) = Deepest(S)
  BY DEF Target
<1>2. n \in Nat /\ S \subseteq LoopsOf(nest) /\ S \in SUBSET (1 .. n) /\ S \subseteq Here
  BY NestFacts, MeaningIs
<1>3. \A l \in LoopsOf(nest) : l \in Here => l \in S
  BY NestFacts
<1> HIDE DEF S
<1>4. /\ Deepest(S) \in Nat
      /\ S = {} => Deepest(S) = 0
      /\ S # {} => Deepest(S) \in S
      /\ \A k \in S : k <= Deepest(S)
  BY <1>2, DeepestIs
<1>5. ASSUME S # {} PROVE Deepest(S) = currentLoop
  <2>1. Deepest(S) <= currentLoop /\ currentLoop \in LoopsOf(nest) /\ currentLoop \in Nat
    BY <1>2, <1>4, <1>5, DeepestOf
  <2>2. currentLoop \in Here
    <3>1. currentLoop \in 1 .. n /\ InnermostFn < Deepest(S) /\ InnermostFn \in Nat
      BY <1>2, <1>4, <1>5, <2>1, MeaningIs DEF LoopsOf
    <3> QED
      BY <1>4, <2>1, <3>1, MeaningIs
  <2> QED
    BY <1>3, <1>4, <2>1, <2>2
<1> QED
  BY <1>1, <1>2, <1>4, <1>5 DEF NestInv

(* The parts of a statement. *)
LEMMA StatementIs ==
    ASSUME NestInv, NEW kind \in {"return", "break", "continue", "throw"}
    PROVE  LET x == Statement(kind)
           IN  /\ x \in ExitFields
               /\ x.kind = kind /\ x.want = Target(kind) /\ x.owed = FinallysOnTheWay(kind)
               /\ x.plain = PlainExit(kind) /\ x.loop = currentLoop /\ x.run = <<>>
<1>1. Target(kind) \in Nat
  <2>1. CASE kind = "return"
    BY <2>1, MeaningIs DEF Target
  <2>2. CASE kind \in {"break", "continue"}
    BY <2>2, ToLoopIs
  <2>3. CASE kind = "throw"
    <3> DEFINE S == {d \in Here : Catches(d)}
               n == Len(nest)
    <3>1. Target(kind) = Deepest(S)
      BY <2>3 DEF Target
    <3>2. n \in Nat /\ S \in SUBSET (1 .. n)
      BY NestFacts, MeaningIs
    <3> HIDE DEF S, n
    <3> QED
      BY <3>1, <3>2, DeepestIs
  <2> QED
    BY <2>1, <2>2, <2>3
<1>2. FinallysOnTheWay(kind) \in SUBSET Nat
  BY MeaningIs DEF FinallysOnTheWay
<1>3. PlainExit(kind) \in BOOLEAN
  BY DEF PlainExit
<1>4. currentLoop \in Nat
  BY DeepestOf
<1> QED
  BY <1>1, <1>2, <1>3, <1>4 DEF Statement, Outside, ExitFields
LEMMA EmptyRun ==
    /\ <<>> \in Seq(Nat) /\ ToSet(<<>>) = {} /\ Len(<<>>) = 0
    /\ \A i : i \notin 1 .. Len(<<>>)
BY DEF ToSet

(* An exit that is noted in a try statement, or written. *)
LEMMA MovedIs ==
    ASSUME NEW x \in ExitFields, NEW d \in Int
    PROVE  /\ LET y == Pending(x, d)
              IN  /\ d \in Nat => IsExit(y)
                  /\ y.state = "pending" /\ y.at = d /\ y.kind = x.kind /\ y.want = x.want
                  /\ y.owed = x.owed /\ y.plain = x.plain /\ y.loop = x.loop /\ y.run = x.run
           /\ LET y == Arrived(x, d)
              IN  /\ IsExit(y)
                  /\ y.state = "done" /\ y.got = d /\ y.want = x.want /\ y.owed = x.owed
                  /\ y.plain = x.plain /\ y.run = x.run
<1>1. LET y == Pending(x, d)
      IN  /\ y.state = "pending" /\ y.at = d /\ y.kind = x.kind /\ y.want = x.want
          /\ y.owed = x.owed /\ y.plain = x.plain /\ y.loop = x.loop /\ y.run = x.run
  BY DEF ExitFields, Pending
<1>2. LET y == Arrived(x, d)
      IN  /\ y.state = "done" /\ y.got = d /\ y.want = x.want /\ y.owed = x.owed
          /\ y.plain = x.plain /\ y.run = x.run
  BY DEF ExitFields, Arrived
<1>3. d \in Nat => IsExit(Pending(x, d))
  BY DEF ExitFields, Pending, IsExit
<1>4. IsExit(Arrived(x, d))
  BY DEF ExitFields, Arrived, IsExit
<1> QED
  BY <1>1, <1>2, <1>3, <1>4

(* A return, break or continue in a try statement is noted there. *)
LEMMA TransferOK ==
    ASSUME NestInv, NEW kind \in {"return", "break", "continue"}, currentTry # 0,
           kind # "return" => Target(kind) # 0
    PROVE  ExitOK(Transfer(Statement(kind)))
<1> DEFINE x == Statement(kind)
<1>1. /\ x \in ExitFields /\ x.want \in Nat
      /\ x.kind = kind /\ x.want = Target(kind) /\ x.owed = FinallysOnTheWay(kind)
      /\ x.plain = PlainExit(kind) /\ x.loop = currentLoop /\ x.run = <<>>
  <2>1. x \in ExitFields => x.want \in Nat
    BY DEF ExitFields
  <2> QED
    BY <2>1, StatementIs
<1> HIDE DEF x
<1>2. currentTry \in GuardsOf(nest) /\ currentTry \in Nat /\ \A e \in GuardsOf(nest) : e <= currentTry
  <2>1. GuardsOf(nest) # {}
    BY NestFacts, DeepestIs DEF NestInv
  <2> QED
    BY <2>1, DeepestOf
<1>3. currentTry \in 1 .. Len(nest) /\ nest[currentTry].kind = "try"
  BY <1>2 DEF GuardsOf
<1>4. ASSUME PlainExit(kind) = TRUE
      PROVE  /\ \A e \in GuardsOf(nest) : Target(kind) < e
             /\ GuardsOf(nest) \subseteq Here
             /\ \A f \in FnsOf(nest) : f < currentTry /\ \A e \in GuardsOf(nest) : f < e
             /\ FinallysOnTheWay(kind) = ToRun(nest, currentTry)
  <2>1. \A e \in GuardsOf(nest) : e > Target(kind) /\ e \in 1 .. Len(nest)
    BY <1>4, NestFacts DEF PlainExit
  <2>2. \A e \in GuardsOf(nest) : Target(kind) < e /\ e \in Nat
    BY <1>1, <2>1
  <2>3. InnermostFn \in Nat /\ InnermostFn <= Target(kind)
    <3>1. CASE kind = "return"
      BY <3>1, MeaningIs DEF Target
    <3>2. CASE kind # "return"
      <4>1. InnermostFn < Target(kind)
        BY <3>2, ToLoopIs, MeaningIs
      <4> QED
        BY <1>1, <4>1, MeaningIs
    <3> QED
      BY <3>1, <3>2
  <2>4. \A e \in GuardsOf(nest) : InnermostFn < e
    BY <1>1, <2>2, <2>3
  <2>5. GuardsOf(nest) \subseteq Here
    BY <2>1, <2>4, MeaningIs
  <2>6. \A f \in FnsOf(nest), e \in GuardsOf(nest) : f < e
    BY <2>5, MeaningIs
  <2>7. \A d : d \in FinallysOnTheWay(kind) <=> d \in GuardsOf(nest) /\ nest[d].finally = TRUE
    <3>1. \A d : d \in FinallysOnTheWay(kind) <=>
                 d \in Here /\ Owed(d) /\ d > Target(kind)
      BY DEF FinallysOnTheWay
    <3> QED
      BY <2>1, <2>5, <3>1, MeaningIs
  <2>8. \A d : d \in ToRun(nest, currentTry) <=> d \in GuardsOf(nest) /\ nest[d].finally = TRUE
    <3>1. \A d \in GuardsOf(nest) : d < currentTry \/ d = currentTry
      BY <1>2, <2>2
    <3> QED
      BY <1>2, <3>1 DEF ToRun, BelowIn
  <2> QED
    BY <1>2, <2>2, <2>5, <2>6, <2>7, <2>8
<1>5. CASE currentTry \in Here
  <2> DEFINE y == Pending(x, currentTry)
  <2>1. /\ IsExit(y) /\ y.state = "pending" /\ y.at = currentTry /\ y.kind = kind
        /\ y.want = Target(kind) /\ y.owed = FinallysOnTheWay(kind)
        /\ y.plain = PlainExit(kind) /\ y.loop = currentLoop /\ y.run = <<>>
    BY <1>1, <1>2, MovedIs
  <2>2. Transfer(x) = y
    BY <1>5 DEF Transfer
  <2> HIDE DEF y
  <2>4. ASSUME y.plain = TRUE PROVE PendingOK(y)
    <3>1. /\ \A e \in GuardsOf(nest) : y.want < e
          /\ \A f \in FnsOf(nest) : f < y.at /\ \A e \in GuardsOf(nest) : f < e
          /\ y.want < y.at
      BY <1>2, <1>4, <2>1, <2>4
    <3>2. y.owed = ToSet(y.run) \union ToRun(nest, y.at)
      BY <1>4, <2>1, <2>4, EmptyRun
    <3>3. Descending(y.run) /\ \A i \in 1 .. Len(y.run) : y.run[i] > y.at
      BY <2>1, EmptyRun DEF Descending
    <3>4. y.kind = "return" => y.want = Deepest(FnsOf(nest))
      BY <2>1, NestFacts DEF Target
    <3>5. /\ y.kind \in {"break", "continue"} =>
                 /\ y.want \in LoopsOf(nest) /\ y.want = Deepest(LoopsOf(nest))
                 /\ \A f \in FnsOf(nest) : f < y.want
          /\ y.kind = "continue" => y.loop = y.want
      BY <2>1, ToLoopIs, MeaningIs
    <3> QED
      BY <2>1, <3>1, <3>2, <3>3, <3>4, <3>5 DEF PendingOK
  <2>5. ExitOK(y)
    BY <1>3, <2>1, <2>4 DEF ExitOK
  <2> QED
    BY <2>2, <2>5 DEF x
<1>6. CASE currentTry \notin Here
  <2> DEFINE y == Arrived(x, Lost)
  <2>1. IsExit(y) /\ y.state = "done" /\ y.plain = PlainExit(kind)
    BY <1>1, MovedIs DEF Lost
  <2>2. Transfer(x) = y
    BY <1>6 DEF Transfer
  <2> HIDE DEF y
  <2>4. y.plain # TRUE
    BY <1>2, <1>4, <1>6, <2>1
  <2>5. ExitOK(y)
    BY <2>1, <2>4 DEF ExitOK
  <2> QED
    BY <2>2, <2>5 DEF x
<1> QED
  BY <1>5, <1>6
(* An exit that is written at once, where it stands in no try statement. *)
LEMMA ArrivedOK ==
    ASSUME NestInv, NEW kind \in {"return", "break", "continue", "throw"}, NEW d \in Int,
           PlainExit(kind) = TRUE => d = Target(kind) /\ FinallysOnTheWay(kind) = {}
    PROVE  ExitOK(Arrived(Statement(kind), d))
<1> DEFINE x == Statement(kind)
           y == Arrived(x, d)
<1>1. /\ x \in ExitFields /\ x.want = Target(kind) /\ x.owed = FinallysOnTheWay(kind)
      /\ x.plain = PlainExit(kind) /\ x.run = <<>>
  BY StatementIs
<1> HIDE DEF x
<1>2. /\ IsExit(y) /\ y.state = "done" /\ y.got = d /\ y.want = x.want /\ y.owed = x.owed
      /\ y.plain = x.plain /\ y.run = x.run
  BY <1>1, MovedIs
<1> HIDE DEF y
<1>3. y.plain = TRUE => Right(y)
  <2>1. \A i : i \notin DOMAIN <<>>
    OBVIOUS
  <2> QED
    BY <1>1, <1>2, <2>1, EmptyRun DEF Right
<1>4. ExitOK(y)
  BY <1>2, <1>3 DEF ExitOK
<1> QED
  BY <1>4 DEF x, y

LEMMA ReturnOK ==
    ASSUME NestInv, Return
    PROVE  ExitOK(exit')
<1> DEFINE x == Statement("return")
<1>1. exit' = IF currentTry # 0 THEN Transfer(x) ELSE Arrived(x, InnermostFn)
  BY DEF Return, Exit, Outside
<1>2. CASE currentTry # 0
  BY <1>1, <1>2, TransferOK
<1>3. CASE currentTry = 0
  <2>1. \A e : e \notin GuardsOf(nest)
    <3>1. currentTry \notin GuardsOf(nest)
      BY <1>3 DEF GuardsOf
    <3> QED
      BY <3>1, DeepestOf
  <2>2. FinallysOnTheWay("return") = {}
    BY <2>1, MeaningIs DEF FinallysOnTheWay
  <2>3. InnermostFn = Target("return") /\ InnermostFn \in Int
    BY MeaningIs DEF Target
  <2> QED
    BY <1>1, <1>3, <2>2, <2>3, ArrivedOK
<1> QED
  BY <1>2, <1>3

LEMMA BreakOrContinueOK ==
    ASSUME NestInv, NEW kind \in {"break", "continue"}, BreakOrContinue(kind)
    PROVE  ExitOK(exit')
<1> DEFINE x == Statement(kind)
<1>1. exit' = IF currentTry # 0 THEN Transfer(x) ELSE ToLoop(x, currentLoop)
  BY DEF BreakOrContinue, Exit, Outside
<1>2. x.want # 0 /\ x.want = Target(kind)
  BY StatementIs DEF BreakOrContinue, Outside
<1>3. CASE currentTry # 0
  BY <1>1, <1>2, <1>3, TransferOK
<1>4. CASE currentTry = 0
  <2>1. \A e : e \notin GuardsOf(nest)
    <3>1. currentTry \notin GuardsOf(nest)
      BY <1>4 DEF GuardsOf
    <3> QED
      BY <3>1, DeepestOf
  <2>2. FinallysOnTheWay(kind) = {}
    BY <2>1, MeaningIs DEF FinallysOnTheWay
  <2>3. currentLoop = Target(kind) /\ currentLoop \in Here /\ currentLoop \in Int
    BY <1>2, ToLoopIs, DeepestOf
  <2>4. ToLoop(x, currentLoop) = Arrived(x, currentLoop)
    BY <2>3 DEF ToLoop
  <2> QED
    BY <1>1, <1>4, <2>2, <2>3, <2>4, ArrivedOK
<1> QED
  BY <1>3, <1>4

(* An exception is noted in the innermost try statement whose body is      *)
(* being run, if that has no catch block.                                  *)
LEMMA ThrowOK ==
    ASSUME NestInv, Throw
    PROVE  ExitOK(exit')
<1> DEFINE x == Statement("throw")
           n == Len(nest)
           Bodies == {d \in Here : Is(d, "try") /\ nest[d].clause = "body"}
           Catching == {d \in Here : Catches(d)}
           h == Deepest(Bodies)
<1>1. exit' = IF h = 0 \/ nest[h].catch THEN Arrived(x, h) ELSE Pending(x, h)
  BY DEF Throw, Exit, Outside
<1>2. n \in Nat /\ Bodies \in SUBSET (1 .. n) /\ Catching \in SUBSET (1 .. n) /\ Bodies \subseteq GuardsOf(nest)
      /\ Target("throw") = Deepest(Catching)
  BY NestFacts, MeaningIs DEF Target, GuardsOf, Is
<1>3. \A d : d \in Catching <=> d \in Bodies /\ nest[d].catch
  BY DEF Catches, Is
<1>4. \A d \in Bodies : IsTry(nest[d])
  BY <1>2, NestFacts
<1> HIDE DEF Bodies, Catching
<1>5. /\ h \in Nat /\ (Bodies = {} => h = 0) /\ (Bodies # {} => h \in Bodies)
      /\ \A k \in Bodies : k <= h
  BY <1>2, DeepestIs
<1> DEFINE want == Deepest(Catching)
<1>6. /\ want \in Nat /\ (Catching = {} => want = 0) /\ (Catching # {} => want \in Catching)
      /\ \A k \in Catching : k <= want
      /\ \A k \in Catching : (\A e \in Catching : e <= k) => want = k
  BY <1>2, DeepestIs
<1>7. want <= h
  <2>1. CASE Catching = {}
    BY <1>5, <1>6, <2>1
  <2>2. CASE Catching # {}
    BY <1>3, <1>5, <1>6, <2>2
  <2> QED
    BY <2>1, <2>2
<1>8. /\ x \in ExitFields /\ x.kind = "throw" /\ x.want = want
      /\ x.owed = FinallysOnTheWay("throw") /\ x.plain = PlainExit("throw") /\ x.run = <<>>
  BY <1>2, StatementIs
<1>9. \A d : d \in FinallysOnTheWay("throw") <=>
             d \in GuardsOf(nest) /\ d \in Here /\ nest[d].finally = TRUE /\ want < d
  <2>1. \A d : d \in FinallysOnTheWay("throw") <=> d \in Here /\ Owed(d) /\ d > want
    BY <1>2 DEF FinallysOnTheWay
  <2>2. \A d \in GuardsOf(nest) : d > want <=> want < d
    BY <1>2, <1>6 DEF GuardsOf
  <2> QED
    BY <2>1, <2>2, MeaningIs
<1>10. PlainExit("throw") = TRUE =>
           /\ \A d \in FinallysOnTheWay("throw") : nest[d].clause = "body"
           /\ FinallysOnTheWay("throw") # {} =>
                  \A d \in GuardsOf(nest) : d \in Here /\ ~Catches(d)
  BY NestFacts DEF PlainExit
<1>11. \A d \in Bodies : d \in Here /\ nest[d].clause = "body"
  BY DEF Bodies
<1> HIDE DEF x, h, want
<1>12. CASE h = 0 \/ nest[h].catch
  <2>1. ASSUME PlainExit("throw") = TRUE PROVE h = want /\ FinallysOnTheWay("throw") = {}
    <3>1. h = want
      <4>1. CASE h = 0
        BY <1>6, <1>7, <4>1
      <4>2. CASE h # 0
        BY <1>3, <1>5, <1>6, <1>12, <4>2
      <4> QED
        BY <4>1, <4>2
    <3>2. ASSUME NEW d \in FinallysOnTheWay("throw") PROVE FALSE
      <4>1. d \in GuardsOf(nest) /\ d \in Here /\ nest[d].clause = "body" /\ want < d
        BY <1>9, <1>10, <2>1
      <4>2. d \in Bodies /\ d \in Nat
        BY <1>2, <4>1 DEF Bodies, GuardsOf, Is
      <4> QED
        BY <1>5, <3>1, <4>1, <4>2
    <3> QED
      BY <3>1, <3>2
  <2>2. ExitOK(Arrived(Statement("throw"), h))
    <3>1. h \in Int /\ Target("throw") = want
      BY <1>2, <1>5 DEF want
    <3> QED
      BY <2>1, <3>1, ArrivedOK
  <2> QED
    BY <1>1, <1>12, <2>2 DEF x
<1>13. CASE ~(h = 0 \/ nest[h].catch)
  <2> DEFINE y == Pending(x, h)
  <2>1. /\ IsExit(y) /\ y.state = "pending" /\ y.at = h /\ y.kind = "throw" /\ y.want = want
        /\ y.owed = FinallysOnTheWay("throw") /\ y.plain = PlainExit("throw") /\ y.run = <<>>
    BY <1>5, <1>8, MovedIs
  <2>2. exit' = y
    BY <1>1, <1>13
  <2> HIDE DEF y
  <2>3. /\ h \in Bodies /\ h \in GuardsOf(nest) /\ h \in 1 .. n /\ nest[h].kind = "try"
        /\ nest[h].finally = TRUE /\ h \in Here
    BY <1>2, <1>4, <1>5, <1>11, <1>13 DEF IsTry
  <2>4. want < h
    <3>1. want # h
      BY <1>3, <1>5, <1>6, <1>13
    <3> QED
      BY <1>5, <1>6, <1>7, <3>1
  <2>5. h \in FinallysOnTheWay("throw")
    BY <1>9, <2>3, <2>4
  <2>6. ASSUME y.plain = TRUE PROVE PendingOK(y)
    <3>1. \A d \in GuardsOf(nest) : d \in Here /\ ~Catches(d)
      BY <1>10, <2>1, <2>5, <2>6
    <3>2. want = 0
      <4>1. \A d \in Catching : d \in GuardsOf(nest) /\ Catches(d)
        BY <1>2, <1>3 DEF Catching
      <4> QED
        BY <1>6, <3>1, <4>1
    <3>3. \A e \in GuardsOf(nest) : 0 < e /\ e \in Nat
      BY DEF GuardsOf
    <3>4. \A f \in FnsOf(nest), e \in GuardsOf(nest) : f < e
      BY <3>1, MeaningIs
    <3>5. \A d : d \in ToRun(nest, h) <=> d \in GuardsOf(nest) /\ nest[d].finally = TRUE
      <4>1. ASSUME NEW d \in GuardsOf(nest), nest[d].finally = TRUE PROVE d < h \/ d = h
        <5>1. d \in FinallysOnTheWay("throw")
          BY <1>9, <3>1, <3>2, <3>3, <4>1
        <5>2. nest[d].clause = "body"
          BY <1>10, <2>1, <2>6, <5>1
        <5>3. d \in Bodies
          BY <3>1, <5>2 DEF Bodies, GuardsOf, Is
        <5> QED
          BY <1>5, <3>3, <5>3
      <4> QED
        BY <2>3, <4>1 DEF ToRun, BelowIn
    <3>6. y.owed = ToSet(y.run) \union ToRun(nest, y.at)
      <4>1. FinallysOnTheWay("throw") = ToRun(nest, h)
        BY <1>9, <3>1, <3>2, <3>3, <3>5
      <4> QED
        BY <2>1, <4>1, EmptyRun
    <3>7. Descending(y.run) /\ \A i \in 1 .. Len(y.run) : y.run[i] > y.at
      BY <2>1, EmptyRun DEF Descending
    <3> QED
      BY <2>1, <2>3, <2>4, <3>2, <3>3, <3>4, <3>6, <3>7 DEF PendingOK
  <2>7. ExitOK(y)
    BY <2>1, <2>3, <2>6 DEF ExitOK, n
  <2> QED
    BY <2>2, <2>7
<1> QED
  BY <1>12, <1>13
-----------------------------------------------------------------------------
(* Exits: where the try statement ends that the exit is noted in           *)

LEMMA ContinuationOK ==
    ASSUME NestInv, ExitOK(exit), exit.state = "pending", exit.at = Len(nest), nest # <<>>,
           nest' = Front(nest), NEW x,
           x = IF nest[Len(nest)].finally THEN [exit EXCEPT !.run = Append(@, Len(nest))] ELSE exit,
           exit' = Continuation(x, nest[Len(nest)].enclosing)
    PROVE  ExitInv'
<1> DEFINE n == Len(nest)
           outer == nest[n].enclosing
           Rest == BelowIn(GuardsOf(nest), n)
<1>1. /\ Len(nest') = n - 1 /\ n \in Nat \ {0}
      /\ \A d \in 1 .. n - 1 : nest'[d] = nest[d]
      /\ FnsOf(nest') = BelowIn(FnsOf(nest), n) /\ LoopsOf(nest') = BelowIn(LoopsOf(nest), n)
      /\ GuardsOf(nest') = Rest
  BY Closing
<1>2. IsTry(nest[n]) /\ outer = Deepest(Rest)
  <2>1. ConstructOK(nest, n) /\ nest[n].kind = "try"
    BY LastIs DEF ExitOK
  <2> QED
    BY <2>1 DEF ConstructOK, IsTry
<1>3. exit \in ExitFields /\ (exit.plain = TRUE => PendingOK(exit))
  BY DEF ExitOK, IsExit
<1>4. Rest \in SUBSET (1 .. n) /\ Rest \subseteq GuardsOf(nest) /\ \A e \in Rest : e < n /\ e \in 1 .. n - 1
  <2>1. Rest \subseteq GuardsOf(nest) /\ \A e \in Rest : e < n /\ e \in 1 .. n
    BY DEF BelowIn, GuardsOf
  <2> QED
    BY <1>1, <2>1
<1> HIDE DEF outer, Rest
<1>5. /\ outer \in Nat /\ (Rest = {} => outer = 0) /\ (Rest # {} => outer \in Rest)
      /\ \A k \in Rest : k <= outer
  BY <1>1, <1>2, <1>4, DeepestIs
<1>6. /\ x \in ExitFields /\ x.kind = exit.kind /\ x.want = exit.want /\ x.owed = exit.owed
      /\ x.plain = exit.plain /\ x.loop = exit.loop
  <2> DEFINE r == Append(exit.run, n)
             y == [exit EXCEPT !.run = r]
  <2>1. r \in Seq(Nat)
    BY <1>1, <1>3 DEF ExitFields
  <2>2. x = IF nest[n].finally THEN y ELSE exit
    OBVIOUS
  <2> HIDE DEF r
  <2>3. /\ y \in ExitFields /\ y.kind = exit.kind /\ y.want = exit.want /\ y.owed = exit.owed
        /\ y.plain = exit.plain /\ y.loop = exit.loop
    BY <1>3, <2>1 DEF ExitFields
  <2> HIDE DEF y
  <2> QED
    BY <1>3, <2>2, <2>3
<1>7. x.run = IF nest[n].finally = TRUE THEN Append(exit.run, n) ELSE exit.run
  BY <1>2, <1>3 DEF ExitFields, IsTry
<1>8. /\ List(exit.run) /\ List(x.run) /\ x.run \in Seq(Nat)
      /\ ToSet(x.run) = ToSet(exit.run) \union {e \in {n} : nest[n].finally = TRUE}
  <2>1. exit.run \in Seq(Nat) /\ x.run \in Seq(Nat)
    BY <1>3, <1>6 DEF ExitFields
  <2>2. List(exit.run) /\ List(x.run)
    BY <2>1, SeqIsList
  <2>3. ToSet(Append(exit.run, n)) = ToSet(exit.run) \union {n}
    BY <2>2, Appending
  <2> QED
    BY <1>7, <2>1, <2>2, <2>3
<1>9. exit.plain = TRUE => Descending(x.run) /\ \A i \in 1 .. Len(x.run) : x.run[i] >= n
  <2> SUFFICES ASSUME exit.plain = TRUE
               PROVE  Descending(x.run) /\ \A i \in 1 .. Len(x.run) : x.run[i] >= n
    OBVIOUS
  <2> DEFINE r == exit.run
  <2>1. Descending(r) /\ \A i \in 1 .. Len(r) : r[i] > n
    BY <1>3 DEF PendingOK
  <2>2. r \in Seq(Nat) /\ Len(r) \in Nat /\ \A i \in 1 .. Len(r) : r[i] \in Nat
    <3>1. r \in Seq(Nat)
      BY <1>3 DEF ExitFields
    <3> QED
      BY <3>1, LenProperties
  <2> HIDE DEF r
  <2>3. CASE nest[n].finally # TRUE
    <3>1. x.run = r
      BY <1>7, <2>3 DEF r
    <3>2. \A i \in 1 .. Len(r) : r[i] >= n
      BY <1>1, <2>1, <2>2
    <3> QED
      BY <2>1, <3>1, <3>2
  <2>4. CASE nest[n].finally = TRUE
    <3> DEFINE t == Append(r, n)
    <3>1. /\ Len(t) = Len(r) + 1 /\ t[Len(t)] = n
          /\ \A i \in 1 .. Len(r) : t[i] = r[i]
      BY <1>8, Appending DEF r
    <3> HIDE DEF t
    <3>2. \A i \in 1 .. Len(t) : (i \in 1 .. Len(r) /\ i < Len(t)) \/ i = Len(t)
      BY <2>2, <3>1
    <3>3. \A i \in 1 .. Len(t) : t[i] >= n
      BY <1>1, <2>1, <2>2, <3>1, <3>2
    <3>4. \A i, j \in 1 .. Len(t) : i < j => t[i] > t[j]
      <4> SUFFICES ASSUME NEW i \in 1 .. Len(t), NEW j \in 1 .. Len(t), i < j PROVE t[i] > t[j]
        OBVIOUS
      <4>1. i \in 1 .. Len(r)
        BY <2>2, <3>1
      <4>2. CASE j = Len(t)
        BY <2>1, <3>1, <4>1, <4>2
      <4>3. CASE j \in 1 .. Len(r)
        BY <2>1, <3>1, <4>1, <4>3 DEF Descending
      <4> QED
        BY <3>2, <4>2, <4>3
    <3>5. x.run = t
      BY <1>7, <2>4 DEF r, t
    <3> QED
      BY <3>3, <3>4, <3>5 DEF Descending
  <2> QED
    BY <2>3, <2>4
<1>10. exit.plain = TRUE => exit.owed = ToSet(x.run) \union {e \in Rest : nest[e].finally = TRUE}
  <2> SUFFICES ASSUME exit.plain = TRUE
               PROVE  exit.owed = ToSet(x.run) \union {e \in Rest : nest[e].finally = TRUE}
    OBVIOUS
  <2>1. exit.owed = ToSet(exit.run) \union {e \in Rest \union {n} : nest[e].finally = TRUE}
    BY <1>3 DEF PendingOK, ToRun, Rest
  <2> QED
    BY <1>8, <2>1
<1>11. CASE outer = 0
  <2> DEFINE got == CASE x.kind = "return"   -> InnermostFn
                      [] x.kind = "break"    -> IF currentLoop = 0 \/ currentLoop \in Here
                                                THEN currentLoop ELSE Lost
                      [] x.kind = "continue" -> x.loop
                      [] x.kind = "throw"    -> 0
  <2>1. x.kind \in {"return", "break", "continue", "throw"} /\ x.loop \in Nat
    BY <1>6 DEF ExitFields
  <2>2. PICK y : y = Arrived(x, got)
    OBVIOUS
  <2>3. exit' = y
    BY <1>11, <2>1, <2>2 DEF Continuation, Outside, ToLoop, outer, n
  <2>4. got \in Int
    BY <2>1, MeaningIs, DeepestOf DEF Lost
  <2>5. exit.plain = TRUE => got = exit.want
    <3> SUFFICES ASSUME exit.plain = TRUE PROVE got = exit.want
      OBVIOUS
    <3>1. PendingOK(exit)
      BY <1>3
    <3>2. CASE x.kind = "return"
      BY <1>6, <3>1, <3>2, NestFacts DEF PendingOK
    <3>3. CASE x.kind = "break"
      <4>1. exit.want = currentLoop /\ exit.want \in LoopsOf(nest) /\ \A f \in FnsOf(nest) : f < exit.want
        BY <1>6, <3>1, <3>3 DEF PendingOK, NestInv
      <4>2. exit.want \in 1 .. n /\ InnermostFn < exit.want
        <5>1. exit.want \in 1 .. n
          BY <4>1 DEF LoopsOf
        <5>2. CASE FnsOf(nest) = {}
          BY <5>1, <5>2, NestFacts, DeepestIs
        <5>3. CASE FnsOf(nest) # {}
          BY <4>1, <5>3, NestFacts, DeepestOf
        <5> QED
          BY <5>1, <5>2, <5>3
      <4> QED
        BY <3>3, <4>1, <4>2, MeaningIs
    <3>4. CASE x.kind = "continue"
      BY <1>6, <3>1, <3>4 DEF PendingOK
    <3>5. CASE x.kind = "throw"
      BY <1>6, <3>1, <3>5 DEF PendingOK
    <3> QED
      BY <2>1, <3>2, <3>3, <3>4, <3>5
  <2> HIDE DEF got
  <2>6. /\ IsExit(y) /\ y.state = "done" /\ y.got = got /\ y.want = exit.want /\ y.owed = exit.owed
        /\ y.plain = exit.plain /\ y.run = x.run
    BY <1>6, <2>2, <2>4, MovedIs
  <2>7. y.plain = TRUE => Right(y)
    <3> SUFFICES ASSUME y.plain = TRUE PROVE Right(y)
      OBVIOUS
    <3>1. y.got = y.want
      BY <2>5, <2>6
    <3>2. Rest = {}
      BY <1>4, <1>5, <1>11
    <3>3. y.owed = ToSet(y.run)
      BY <1>10, <2>6, <3>2
    <3>4. DOMAIN y.run = 1 .. Len(y.run)
      BY <1>8, <2>6, LenProperties
    <3>5. \A i, j \in 1 .. Len(y.run) : i < j => y.run[i] > y.run[j]
      BY <1>9, <2>6 DEF Descending
    <3> QED
      BY <3>1, <3>3, <3>4, <3>5 DEF Right
  <2>8. ExitOK(y)'
    BY <2>6, <2>7 DEF ExitOK
  <2> QED
    BY <2>8, <2>3 DEF ExitInv
<1>12. CASE outer # 0 /\ outer \in Here
  <2>1. PICK y : y = Pending(x, outer)
    OBVIOUS
  <2>2. exit' = y
    BY <1>12, <2>1 DEF Continuation, Outside, outer, n
  <2>3. /\ IsExit(y) /\ y.state = "pending" /\ y.at = outer /\ y.kind = exit.kind /\ y.want = exit.want
        /\ y.owed = exit.owed /\ y.plain = exit.plain /\ y.loop = exit.loop /\ y.run = x.run
    <3>1. outer \in Int
      BY <1>5
    <3> QED
      BY <1>5, <1>6, <2>1, <3>1, MovedIs
  <2>4. outer \in Rest /\ outer \in 1 .. n - 1 /\ outer < n /\ nest'[outer] = nest[outer]
        /\ nest[outer].kind = "try" /\ outer \in GuardsOf(nest)
    BY <1>1, <1>4, <1>5, <1>12 DEF GuardsOf
  <2>5. ASSUME y.plain = TRUE PROVE PendingOK(y)'
    <3>1. PendingOK(exit) /\ exit.at = n
      BY <1>3, <2>3, <2>5
    <3>2. \A e \in Rest : nest'[e] = nest[e]
      BY <1>1, <1>4
    <3>3. FnsOf(nest') \subseteq FnsOf(nest)
      BY <1>1 DEF BelowIn
    <3>4. /\ \A f \in FnsOf(nest') : f < y.at /\ \A e \in GuardsOf(nest') : f < e
          /\ \A e \in GuardsOf(nest') : y.want < e
          /\ y.want < y.at
      BY <1>1, <1>4, <2>3, <2>4, <3>1, <3>3 DEF PendingOK
    <3>5. ToRun(nest', outer) = {e \in Rest : nest[e].finally = TRUE}
      <4>1. \A e : e \in BelowIn(Rest, outer) \union {outer} <=> e \in Rest
        <5>1. \A e \in Rest : e < outer \/ e = outer
          BY <1>4, <1>5
        <5> QED
          BY <2>4, <5>1 DEF BelowIn
      <4> QED
        BY <1>1, <3>2, <4>1 DEF ToRun
    <3>6. y.owed = ToSet(y.run) \union ToRun(nest', y.at)
      BY <1>10, <2>3, <2>5, <3>5
    <3>7. Descending(y.run) /\ \A i \in 1 .. Len(y.run) : y.run[i] > y.at
      <4>1. \A i \in 1 .. Len(x.run) : x.run[i] \in Nat /\ x.run[i] >= n
        BY <1>8, <1>9, <2>3, <2>5, LenProperties
      <4>2. \A i \in 1 .. Len(x.run) : x.run[i] > outer
        BY <1>1, <1>5, <2>4, <4>1
      <4> QED
        BY <1>9, <2>3, <2>5, <4>2
    <3>8. FnsOf(nest') = FnsOf(nest)
      BY <1>1, <3>1 DEF PendingOK, BelowIn
    <3>9. y.kind \in {"break", "continue"} => LoopsOf(nest') = LoopsOf(nest)
      <4> SUFFICES ASSUME y.kind \in {"break", "continue"} PROVE \A l \in LoopsOf(nest) : l < n
        BY <1>1 DEF BelowIn
      <4>1. y.want = currentLoop /\ y.want < n
        BY <2>3, <3>1 DEF PendingOK, NestInv
      <4>2. \A l \in LoopsOf(nest) : l <= currentLoop /\ l \in Nat
        BY DeepestOf DEF LoopsOf
      <4>3. currentLoop \in Nat
        BY DeepestOf
      <4> QED
        BY <1>1, <4>1, <4>2, <4>3
    <3>10. /\ y.kind = "return" => y.want = Deepest(FnsOf(nest'))
           /\ y.kind \in {"break", "continue"} =>
                  /\ y.want \in LoopsOf(nest') /\ y.want = Deepest(LoopsOf(nest'))
                  /\ \A f \in FnsOf(nest') : f < y.want
           /\ y.kind = "continue" => y.loop = y.want
           /\ y.kind = "throw" => y.want = 0
      BY <2>3, <3>1, <3>8, <3>9 DEF PendingOK
    <3> QED
      BY <3>4, <3>6, <3>7, <3>10 DEF PendingOK
  <2>6. ExitOK(y)'
    BY <1>1, <2>3, <2>4, <2>5 DEF ExitOK
  <2> QED
    BY <2>2, <2>6 DEF ExitInv
<1>13. CASE outer # 0 /\ outer \notin Here
  <2>1. PICK y : y = Arrived(x, Lost)
    OBVIOUS
  <2>2. exit' = y
    BY <1>13, <2>1 DEF Continuation, Outside, outer, n
  <2>3. IsExit(y) /\ y.state = "done" /\ y.plain = exit.plain
    <3>1. Lost \in Int
      BY DEF Lost
    <3> QED
      BY <1>6, <2>1, <3>1, MovedIs
  <2>4. exit.plain # TRUE
    <3> SUFFICES ASSUME exit.plain = TRUE PROVE outer \in Here
      BY <1>13
    <3>1. outer \in GuardsOf(nest) /\ outer \in 1 .. n
      BY <1>4, <1>5, <1>13
    <3>2. \A f \in FnsOf(nest) : f < outer
      BY <1>3, <3>1 DEF PendingOK
    <3>3. InnermostFn < outer
      <4>1. CASE FnsOf(nest) = {}
        BY <3>1, <4>1, NestFacts, DeepestIs
      <4>2. CASE FnsOf(nest) # {}
        BY <3>2, <4>2, NestFacts, DeepestOf
      <4> QED
        BY <4>1, <4>2
    <3> QED
      BY <3>1, <3>3, MeaningIs
  <2>5. ExitOK(y)'
    BY <2>3, <2>4 DEF ExitOK
  <2> QED
    BY <2>2, <2>5 DEF ExitInv
<1> QED
  BY <1>11, <1>12, <1>13
-----------------------------------------------------------------------------
(* Exits: the theorems                                                     *)

LEMMA ExitStays ==
    ASSUME ExitInv, UNCHANGED exit, \A x : ExitOK(x) => ExitOK(x)'
    PROVE  ExitInv'
<1>1. CASE exit = NoExit
  BY <1>1 DEF ExitInv, NoExit
<1>2. CASE ExitOK(exit)
  <2>1. PICK x : x = exit
    OBVIOUS
  <2>2. ExitOK(x)' /\ exit' = x
    BY <1>2, <2>1
  <2> QED
    BY <2>2 DEF ExitInv
<1> QED
  BY <1>1, <1>2 DEF ExitInv

LEMMA ExitMade ==
    ASSUME NestInv, ExitOK(exit'), UNCHANGED nest
    PROVE  ExitInv'
<1>1. PICK x : x = exit'
  OBVIOUS
<1>2. ExitOK(x)'
  BY <1>1, NestUnchangedOK
<1> QED
  BY <1>1, <1>2 DEF ExitInv

LEMMA ExitSteps == NestInv /\ ExitInv /\ [ExitsNext]_exitVars => ExitInv'
<1> SUFFICES ASSUME NestInv, ExitInv, [ExitsNext]_exitVars PROVE ExitInv'
  OBVIOUS
<1>1. ASSUME NEW c, Push(c) PROVE ExitInv'
  BY <1>1 DEF Push, ExitInv, NoExit
<1>2. CASE BeginFunction \/ BeginLoop
  BY <1>1, <1>2 DEF BeginFunction, BeginLoop
<1>3. ASSUME NEW catch \in BOOLEAN, NEW finally \in BOOLEAN, BeginTry(catch, finally)
      PROVE  ExitInv'
  BY <1>1, <1>3 DEF BeginTry
<1>4. CASE Return
  <2>1. ExitOK(exit') /\ UNCHANGED nest
    BY <1>4, ReturnOK DEF Return, Exit
  <2> QED
    BY <2>1, ExitMade
<1>5. ASSUME NEW kind \in {"break", "continue"}, BreakOrContinue(kind) PROVE ExitInv'
  <2>1. ExitOK(exit') /\ UNCHANGED nest
    BY <1>5, BreakOrContinueOK DEF BreakOrContinue, Exit
  <2> QED
    BY <2>1, ExitMade
<1>6. CASE Throw
  <2>1. ExitOK(exit') /\ UNCHANGED nest
    BY <1>6, ThrowOK DEF Throw, Exit
  <2> QED
    BY <2>1, ExitMade
<1>7. CASE EndFunctionOrLoop
  <2>1. nest # <<>> /\ nest' = Front(nest) /\ Last(nest).kind \in {"fn", "loop"} /\ UNCHANGED exit
    BY <1>7 DEF EndFunctionOrLoop
  <2>2. nest[Len(nest)].kind \in {"fn", "loop"}
    BY <2>1, LastIs
  <2>3. \A x : ExitOK(x) => ExitOK(x)'
    <3> SUFFICES ASSUME NEW x, ExitOK(x) PROVE ExitOK(x)'
      OBVIOUS
    <3>1. x.state = "pending" => x.at # Len(nest)
      BY <2>2 DEF ExitOK
    <3> QED
      BY <2>1, <3>1, ClosingOK
  <2> QED
    BY <2>1, <2>3, ExitStays
<1>8. CASE BeginCatch
  <2>1. InTry({"body"}) /\ nest' = [nest EXCEPT ![Len(nest)].clause = "catch"] /\ UNCHANGED exit
    BY <1>8 DEF BeginCatch
  <2>2. nest # <<>> /\ IsTry(nest[Len(nest)]) /\ nest[Len(nest)].clause # "finally"
    BY <2>1, InTryIs
  <2>3. \A x : ExitOK(x) => ExitOK(x)'
    BY <2>1, <2>2, GoingOnOK
  <2> QED
    BY <2>1, <2>3, ExitStays
<1>9. CASE BeginFinally
  <2>1. /\ InTry({LastBeforeFinally}) /\ nest' = [nest EXCEPT ![Len(nest)].clause = "finally"]
        /\ Last(nest).finally /\ UNCHANGED exit
    BY <1>9 DEF BeginFinally
  <2>2. nest # <<>> /\ IsTry(nest[Len(nest)]) /\ nest[Len(nest)].clause # "finally"
    BY <2>1, InTryIs DEF LastBeforeFinally
  <2>3. nest[Len(nest)].finally = TRUE
    BY <2>1, <2>2, LastIs DEF IsTry
  <2>4. \A x : ExitOK(x) => ExitOK(x)'
    BY <2>1, <2>2, <2>3, GoingOnOK
  <2> QED
    BY <2>1, <2>4, ExitStays
<1>10. CASE EndTry
  <2>1. nest # <<>> /\ nest' = Front(nest) /\ Last(nest) = nest[Len(nest)]
    BY <1>10, LastIs DEF EndTry, InTry
  <2> DEFINE n == Len(nest)
             t == nest[n]
  <2>2. PICK x : x = IF t.finally THEN [exit EXCEPT !.run = Append(@, n)] ELSE exit
    OBVIOUS
  <2>3. exit' = IF exit # NoExit /\ exit.state = "pending" /\ exit.at = n
                THEN Continuation(x, t.enclosing) ELSE exit
    BY <1>10, <2>1, <2>2 DEF EndTry
  <2>4. CASE exit # NoExit /\ exit.state = "pending" /\ exit.at = n
    <3>1. ExitOK(exit) /\ exit' = Continuation(x, t.enclosing)
      BY <2>3, <2>4 DEF ExitInv
    <3> QED
      BY <2>1, <2>2, <2>4, <3>1, ContinuationOK
  <2>5. CASE exit = NoExit
    BY <2>3, <2>5 DEF ExitInv, NoExit
  <2>6. CASE exit # NoExit /\ (exit.state = "pending" => exit.at # n)
    <3>1. PICK z : z = exit
      OBVIOUS
    <3>2. ExitOK(z) /\ exit' = z /\ (z.state = "pending" => z.at # Len(nest))
      BY <2>3, <2>6, <3>1 DEF ExitInv
    <3>3. ExitOK(z)'
      BY <2>1, <3>2, ClosingOK
    <3> QED
      BY <3>2, <3>3 DEF ExitInv
  <2> QED
    BY <2>4, <2>5, <2>6
<1>11. CASE UNCHANGED exitVars
  <2>1. \A x : ExitOK(x) => ExitOK(x)'
    BY <1>11, NestUnchangedOK DEF exitVars
  <2> QED
    BY <1>11, <2>1, ExitStays DEF exitVars
<1> QED
  BY <1>2, <1>3, <1>4, <1>5, <1>6, <1>7, <1>8, <1>9, <1>10, <1>11 DEF ExitsNext

LEMMA ExitInvariance == ExitsSpec => [](NestInv /\ ExitInv)
<1>1. ExitsInit => NestInv /\ ExitInv
  BY NestInit DEF ExitsInit, ExitInv
<1>2. NestInv /\ ExitInv /\ [ExitsNext]_exitVars => (NestInv /\ ExitInv)'
  BY NestSteps, ExitSteps
<1> QED
  BY <1>1, <1>2, PTL DEF ExitsSpec

(* At every depth of nesting: currentLoop and currentTry are the innermost *)
(* loop and the innermost try statement that is not in its finally block,  *)
(* at every point of every program (whileStatement, forStatement,          *)
(* tryStatement).                                                          *)
THEOREM NestingIsAlwaysTracked == ExitsSpec => []NestingIsTracked
<1>1. NestInv => NestingIsTracked
  <2> SUFFICES ASSUME NestInv PROVE NestingIsTracked
    OBVIOUS
  <2>1. LoopsOf(nest) = {d \in Depths : Is(d, "loop")}
    BY NestFacts
  <2>2. GuardsOf(nest) = {d \in Depths : Guards(d)}
    BY NestFacts
  <2> QED
    BY <2>1, <2>2 DEF NestInv, NestingIsTracked
<1> QED
  BY <1>1, ExitInvariance, PTL

(* At every depth of nesting: a plain return, break, continue or throw     *)
(* gets where it is meant to, after exactly the finally blocks that it is  *)
(* owed, each once and innermost first (emitTryTransfer,                   *)
(* emitTransferContinuation).                                              *)
THEOREM PlainExitsAreCompiledRight == ExitsSpec => []PlainExitsAreRight
<1>1. ExitInv => PlainExitsAreRight
  BY DEF ExitInv, ExitOK, IsExit, ExitFields, PlainExitsAreRight
<1> QED
  BY <1>1, ExitInvariance, PTL

(* The constructs are of the three kinds, what the compiler keeps refers   *)
(* to open ones, and an exit that is pending has its try statement.        *)
THEOREM ExitsTypeCorrect == ExitsSpec => []ExitsTypeOK
<1>1. NestInv /\ ExitInv => ExitsTypeOK
  <2> SUFFICES ASSUME NestInv, ExitInv PROVE ExitsTypeOK
    OBVIOUS
  <2>1. \A d \in Depths : nest[d].kind \in {"fn", "loop", "try"}
    BY NestFacts DEF NestInv, ConstructOK, IsTry
  <2>2. currentLoop \in {Outside} \union Depths
    <3>1. LoopsOf(nest) = {} => currentLoop = 0
      BY NestFacts, DeepestIs DEF NestInv
    <3> QED
      BY <3>1, NestFacts, DeepestOf DEF Outside
  <2>3. currentTry \in {Outside} \union Depths
    <3>1. GuardsOf(nest) = {} => currentTry = 0
      BY NestFacts, DeepestIs DEF NestInv
    <3> QED
      BY <3>1, NestFacts, DeepestOf DEF Outside
  <2>4. exit # NoExit => /\ exit.state \in {"pending", "done"}
                         /\ exit.state = "pending" => exit.at \in Depths
    BY NestFacts DEF ExitInv, ExitOK, IsExit, ExitFields
  <2> QED
    BY <2>1, <2>2, <2>3, <2>4 DEF ExitsTypeOK
<1> QED
  BY <1>1, ExitInvariance, PTL

-----------------------------------------------------------------------------
(* The optimizer                                                           *)

(* Code that is whole: its cells are instructions and their operands, and  *)
(* jumps lead forward to an instruction or to the end.                     *)

Cell ==
    [op : {"NOP", "operand", "GET_GLOBAL", "POP", "NOT", "ADD"}]
    \union {[op |-> "TRUE", value |-> Peep!True], [op |-> "FALSE", value |-> Peep!False]}
    \union [op : {"CONSTANT"}, value : Nat]
    \union [op : {"JUMP", "JUMP_IF_FALSE"}, by : Nat]

JumpOps == {"JUMP", "JUMP_IF_FALSE"}

Width(i) ==
    CASE i.op \in JumpOps                      -> 3
      [] i.op \in {"CONSTANT", "GET_GLOBAL"} -> 2
      [] OTHER -> 1

\* An instruction of c begins at p, or c ends before it.
At(c, p) == p = Len(c) + 1 \/ (p \in DOMAIN c /\ c[p].op # "operand")

Whole(c) ==
    /\ c \in Seq(Cell)
    /\ At(c, 1)
    /\ \A p \in DOMAIN c : c[p].op # "operand" =>
          /\ At(c, p + Width(c[p]))
          /\ \A k \in p + 1 .. p + Width(c[p]) - 1 : c[k].op = "operand"
          /\ c[p].op \in JumpOps => At(c, p + 3 + c[p].by)

\* The open jumps of the compiler are jumps of the code.
OptimizerInv ==
    /\ code \in Seq(Cell)
    /\ asm = [height |-> asm.height, dead |-> asm.dead, count |-> asm.count, open |-> asm.open]
    /\ pass \in [stage : {"compile", "fold", "jumps", "done"}, at : Nat, again : BOOLEAN]
    /\ pass.stage = "compile" =>
          ~unsafe /\ \A j \in asm.open : j.jump \in DOMAIN code /\ code[j.jump].op \in JumpOps
    /\ pass.stage # "compile" => Len(code) = Len(source)
    /\ ~unsafe => Whole(code) /\ (pass.stage # "compile" => Peep!SameOutcome)

-----------------------------------------------------------------------------
\* Induction, for a property that is given as a set.
LEMMA AllNaturals ==
    ASSUME NEW P \in SUBSET Nat, 0 \in P, \A n \in P : n + 1 \in P
    PROVE  P = Nat
<1> SUFFICES ASSUME P # Nat PROVE FALSE
  OBVIOUS
<1>1. Nat \ P \in SUBSET Nat /\ Nat \ P # {}
  OBVIOUS
<1>2. PICK x \in Nat \ P : \A y \in Nat \ P : x <= y
  BY <1>1, LeastNatural
<1>3. x # 0 /\ x - 1 \in Nat /\ ~(x <= x - 1) /\ (x - 1) + 1 = x
  BY <1>2
<1>4. x - 1 \in P
  BY <1>2, <1>3
<1> QED
  BY <1>2, <1>3, <1>4

\* A function on T can be iterated: what Repeated rests on.
Iterates(f, T, F, x) == f \in [Nat -> T] /\ f[0] = x /\ \A n \in Nat : f[n + 1] = F[f[n]]

LEMMA Iteration ==
    ASSUME NEW T, NEW F \in [T -> T], NEW x \in T
    PROVE  \E f : Iterates(f, T, F, x)
<1> DEFINE Upto(n) == {g \in [0 .. n -> T] : g[0] = x /\ \A i \in Nat : i < n => g[i + 1] = F[g[i]]}
           P == {n \in Nat : Upto(n) # {}}
<1>1. P = Nat
  <2>1. 0 \in P
    <3>1. [i \in 0 .. 0 |-> x] \in Upto(0)
      OBVIOUS
    <3> QED
      BY <3>1
  <2>2. ASSUME NEW n \in P PROVE n + 1 \in P
    <3>1. PICK g \in [0 .. n -> T] : g[0] = x /\ \A i \in Nat : i < n => g[i + 1] = F[g[i]]
      OBVIOUS
    <3> DEFINE h == [i \in 0 .. n + 1 |-> IF i = n + 1 THEN F[g[n]] ELSE g[i]]
    <3>2. h \in [0 .. n + 1 -> T]
      BY <3>1
    <3>3. h[0] = x
      BY <3>1
    <3>4. ASSUME NEW i \in Nat, i < n + 1 PROVE h[i + 1] = F[h[i]]
      <4>1. CASE i = n
        BY <4>1
      <4>2. CASE i # n
        BY <3>1, <3>4, <4>2
      <4> QED
        BY <4>1, <4>2
    <3> HIDE DEF h
    <3>5. h \in Upto(n + 1)
      BY <3>2, <3>3, <3>4
    <3> QED
      BY <3>5
  <2> HIDE DEF P
  <2> QED
    BY <2>1, <2>2, AllNaturals DEF P
<1> DEFINE c == [n \in Nat |-> CHOOSE g \in Upto(n) : TRUE]
           f == [n \in Nat |-> c[n][n]]
<1>2. \A n \in Nat : c[n] \in Upto(n)
  BY <1>1
<1> HIDE DEF P, c
<1>3. ASSUME NEW n \in Nat PROVE f[n] \in T
  BY <1>2
<1>4. f[0] = x
  BY <1>2
<1>5. ASSUME NEW n \in Nat PROVE f[n + 1] = F[f[n]]
  <2> DEFINE Q == {i \in Nat : i <= n => c[n][i] = c[n + 1][i]}
  <2>1. 0 \in Q
    BY <1>2
  <2>2. ASSUME NEW i \in Q PROVE i + 1 \in Q
    <3>1. CASE i + 1 <= n
      <4>1. c[n][i] = c[n + 1][i] /\ i < n /\ i < n + 1 /\ i \in Nat
        BY <3>1
      <4>2. c[n][i + 1] = F[c[n][i]]
        BY <1>2, <4>1
      <4>3. c[n + 1][i + 1] = F[c[n + 1][i]]
        BY <1>2, <4>1
      <4> QED
        BY <4>1, <4>2, <4>3
    <3>2. CASE ~(i + 1 <= n)
      BY <3>2
    <3> QED
      BY <3>1, <3>2
  <2>3. Q = Nat
    <3> HIDE DEF Q
    <3> QED
      BY <2>1, <2>2, AllNaturals DEF Q
  <2>4. c[n][n] = c[n + 1][n]
    BY <2>3
  <2>5. c[n + 1][n + 1] = F[c[n + 1][n]]
    BY <1>2
  <2> QED
    BY <2>4, <2>5
<1> HIDE DEF f
<1>6. f \in [Nat -> T]
  BY <1>3 DEF f
<1> QED
  BY <1>4, <1>5, <1>6 DEF Iterates

-----------------------------------------------------------------------------
(* Running code                                                            *)

\* The states of a run of c, between two instructions or at its end.
States(c) ==
    {s \in [at : Nat, stack : Seq(Int), end : {"none", "underflow", "error"}] :
        s.end = "none" => At(c, s.at)}

Running(c, s) == s.end = "none" /\ ~(s.at > Len(c))

Do(c, v, s) == IF s.end # "none" \/ s.at > Len(c) THEN s ELSE Peep!Step(c, v, s)

Result(s) == IF s.end = "none" THEN s.stack ELSE <<s.end>>

\* From s, the run of c ends in t.
Ends(c, v, s, t) ==
    \E f \in [Nat -> States(c)] :
        /\ f[0] = s
        /\ \A n \in Nat : f[n + 1] = Do(c, v, f[n])
        /\ \E n \in Nat : f[n] = t
        /\ ~Running(c, t)

\* Whatever the run of c ends in from s2, it ends in from s1.
Leads(c, v, s1, s2) == \A t : Ends(c, v, s2, t) => Ends(c, v, s1, t)

LEMMA CodeFacts ==
    ASSUME NEW c, Whole(c)
    PROVE  /\ Len(c) \in Nat /\ DOMAIN c = 1 .. Len(c)
           /\ \A p \in 1 .. Len(c) : c[p] \in Cell
           /\ \A p : At(c, p) => p \in 1 .. Len(c) + 1
<1>1. c \in Seq(Cell)
  BY DEF Whole
<1>2. Len(c) \in Nat /\ DOMAIN c = 1 .. Len(c)
  BY <1>1, LenProperties
<1>3. \A p \in 1 .. Len(c) : c[p] \in Cell
  BY <1>1, <1>2, ElementOfSeq
<1> QED
  BY <1>2, <1>3 DEF At

\* What a cell says of its instruction.
LEMMA CellFacts ==
    ASSUME NEW i \in Cell
    PROVE  /\ i.op \in {"NOP", "operand", "GET_GLOBAL", "POP", "NOT", "ADD", "TRUE", "FALSE", "CONSTANT",
                        "JUMP", "JUMP_IF_FALSE"}
           /\ i.op = "TRUE" => i.value = Peep!True
           /\ i.op = "FALSE" => i.value = Peep!False
           /\ i.op = "CONSTANT" => i.value \in Nat
           /\ i.op \in JumpOps => i.by \in Nat
           /\ Width(i) \in {1, 2, 3}
  BY DEF Cell, JumpOps, Width

\* One step of a run.
LEMMA StepIs ==
    ASSUME NEW c, Whole(c), NEW v \in Int, NEW s \in States(c), Running(c, s)
    PROVE  LET g == Peep!Step(c, v, s)
               i == c[s.at]
           IN  /\ g \in States(c)
               /\ i \in Cell /\ i.op # "operand" /\ s.at \in 1 .. Len(c)
               /\ g.end = "none" => g.at \in {s.at + Width(i)}
                      \union (IF i.op \in JumpOps THEN {s.at + 3 + i.by} ELSE {})
               /\ g.end = "none" => g.at > s.at
<1> DEFINE i == c[s.at]
           n == Len(s.stack)
           top == s.stack[n]
           below == SubSeq(s.stack, 1, n - 1)
           g == Peep!Step(c, v, s)
           To(at, stk) == [s EXCEPT !.at = at, !.stack = stk]
<1>1. /\ s.at \in Nat /\ s.stack \in Seq(Int) /\ s.end = "none" /\ At(c, s.at) /\ ~(s.at > Len(c))
      /\ s \in [at : Nat, stack : Seq(Int), end : {"none", "underflow", "error"}]
  BY DEF States, Running
<1>2. Len(c) \in Nat /\ s.at \in 1 .. Len(c) /\ i \in Cell /\ i.op # "operand"
  BY <1>1, CodeFacts DEF At
<1>3. /\ i.op \in {"NOP", "GET_GLOBAL", "POP", "NOT", "ADD", "TRUE", "FALSE", "CONSTANT", "JUMP", "JUMP_IF_FALSE"}
      /\ i.op \in {"TRUE", "FALSE", "CONSTANT"} => i.value \in Int
      /\ i.op \in JumpOps => i.by \in Nat
      /\ Width(i) \in {1, 2, 3}
  BY <1>2, CellFacts DEF Peep!True, Peep!False
<1>4. /\ At(c, s.at + Width(i))
      /\ i.op \in JumpOps => At(c, s.at + 3 + i.by)
  BY <1>1, <1>2 DEF Whole, At
<1>5. n \in Nat
  BY <1>1, LenProperties
<1>6. ASSUME n # 0
      PROVE  /\ top \in Int /\ below \in Seq(Int) /\ Len(below) = n - 1
             /\ \A k \in 1 .. n - 1 : below[k] = s.stack[k]
  <2>1. top \in Int
    BY <1>1, <1>5, <1>6, ElementOfSeq
  <2> DEFINE m == n - 1
  <2>2. m \in Nat /\ m \in Int /\ 1 \in Int
    BY <1>5, <1>6
  <2>3. \A k \in 1 .. m : s.stack[k] \in Int
    BY <1>1, <1>5, ElementOfSeq
  <2> HIDE DEF m
  <2>4. /\ SubSeq(s.stack, 1, m) \in Seq(Int)
        /\ Len(SubSeq(s.stack, 1, m)) = IF 1 <= m THEN m - 1 + 1 ELSE 0
        /\ \A k \in 1 .. m - 1 + 1 : SubSeq(s.stack, 1, m)[k] = s.stack[1 + k - 1]
    BY <2>2, <2>3, SubSeqProperties
  <2>5. below = SubSeq(s.stack, 1, m)
    BY DEF m
  <2>6. Len(below) = m /\ \A k \in 1 .. m : below[k] = s.stack[k]
    BY <2>2, <2>4, <2>5
  <2> QED
    BY <2>1, <2>4, <2>5, <2>6 DEF m
<1>7. \A x \in Int, st \in Seq(Int) : Append(st, x) \in Seq(Int)
  BY AppendProperties
<1>8. ASSUME NEW at \in Nat, NEW stk \in Seq(Int), At(c, at)
      PROVE  To(at, stk) \in States(c) /\ To(at, stk).at = at /\ To(at, stk).end = "none"
  BY <1>1, <1>8 DEF States
<1>9. ASSUME NEW why \in {"underflow", "error"}
      PROVE  Peep!Halt(s, why) \in States(c) /\ Peep!Halt(s, why).end # "none"
  BY <1>1 DEF States, Peep!Halt
<1>10. \A b \in {Peep!True, Peep!False} : b \in Int
  BY DEF Peep!True, Peep!False
<1> DEFINE Good(x) == /\ x \in States(c)
                      /\ x.end = "none" => x.at \in {s.at + Width(i)}
                             \union (IF i.op \in JumpOps THEN {s.at + 3 + i.by} ELSE {})
<1>11. ASSUME NEW stk \in Seq(Int)
       PROVE  Good(To(s.at + Width(i), stk)) /\ (i.op \in JumpOps => Good(To(s.at + 3 + i.by, stk)))
  <2>1. s.at + Width(i) \in Nat /\ (i.op \in JumpOps => s.at + 3 + i.by \in Nat)
    BY <1>1, <1>3
  <2> HIDE DEF To, i
  <2>2. Good(To(s.at + Width(i), stk))
    BY <1>4, <1>8, <2>1
  <2>3. i.op \in JumpOps => Good(To(s.at + 3 + i.by, stk))
    BY <1>4, <1>8, <2>1
  <2> QED
    BY <2>2, <2>3
<1>12. Good(Peep!Halt(s, "underflow")) /\ Good(Peep!Halt(s, "error"))
  BY <1>9
<1>13. \/ i.op = "NOP" /\ Width(i) = 1 /\ g = To(s.at + 1, s.stack)
       \/ i.op \in {"TRUE", "FALSE"} /\ Width(i) = 1 /\ g = To(s.at + 1, Append(s.stack, i.value))
       \/ i.op = "CONSTANT" /\ Width(i) = 2 /\ g = To(s.at + 2, Append(s.stack, i.value))
       \/ i.op = "GET_GLOBAL" /\ Width(i) = 2 /\ g = To(s.at + 2, Append(s.stack, v))
       \/ i.op = "JUMP" /\ g = To(s.at + 3 + i.by, s.stack)
       \/ i.op \in {"POP", "NOT", "ADD", "JUMP_IF_FALSE"} /\ g = Peep!Halt(s, "underflow")
       \/ i.op = "POP" /\ Width(i) = 1 /\ n # 0 /\ g = To(s.at + 1, below)
       \/ i.op = "NOT" /\ Width(i) = 1 /\ n # 0 /\ g = To(s.at + 1, Append(below, Peep!Negation(top)))
       \/ i.op = "JUMP_IF_FALSE" /\ Width(i) = 3 /\ g = To(s.at + 3 + i.by, s.stack)
       \/ i.op = "JUMP_IF_FALSE" /\ Width(i) = 3 /\ g = To(s.at + 3, s.stack)
       \/ i.op = "ADD" /\ Width(i) = 1 /\ n # 0 /\ n # 1
                       /\ g = To(s.at + 1, [below EXCEPT ![n - 1] = below[n - 1] + top])
       \/ i.op = "ADD" /\ g = Peep!Halt(s, "error")
  <2>1. CASE i.op = "NOP"
    BY <2>1 DEF Peep!Step, Width, JumpOps
  <2>2. CASE i.op \in {"TRUE", "FALSE"}
    BY <2>2 DEF Peep!Step, Width, JumpOps
  <2>3. CASE i.op = "CONSTANT"
    BY <2>3 DEF Peep!Step, Width, JumpOps
  <2>4. CASE i.op = "GET_GLOBAL"
    BY <2>4 DEF Peep!Step, Width, JumpOps
  <2>5. CASE i.op = "JUMP"
    BY <2>5 DEF Peep!Step, Width, JumpOps
  <2>6. CASE i.op = "POP"
    BY <2>6 DEF Peep!Step, Width, JumpOps
  <2>7. CASE i.op = "NOT"
    BY <2>7 DEF Peep!Step, Width, JumpOps
  <2>8. CASE i.op = "JUMP_IF_FALSE"
    BY <2>8 DEF Peep!Step, Width, JumpOps
  <2>9. CASE i.op = "ADD"
    BY <2>9 DEF Peep!Step, Width, JumpOps
  <2> QED
    BY <1>3, <2>1, <2>2, <2>3, <2>4, <2>5, <2>6, <2>7, <2>8, <2>9
<1>14. Good(g)
  <2>1. s.stack \in Seq(Int) /\ Append(s.stack, v) \in Seq(Int)
    BY <1>1, <1>7
  <2>2. i.op \in {"TRUE", "FALSE", "CONSTANT"} => Append(s.stack, i.value) \in Seq(Int)
    BY <1>1, <1>3, <1>7
  <2>3. n # 0 => below \in Seq(Int) /\ Append(below, Peep!Negation(top)) \in Seq(Int)
    BY <1>6, <1>7, <1>10 DEF Peep!Negation
  <2>4. n # 0 /\ n # 1 => [below EXCEPT ![n - 1] = below[n - 1] + top] \in Seq(Int)
    <3>0. SUFFICES ASSUME n # 0 /\ n # 1 PROVE [below EXCEPT ![n - 1] = below[n - 1] + top] \in Seq(Int)
      OBVIOUS
    <3>a. n - 1 \in 1 .. n - 1
      <4> HIDE DEF n
      <4> QED
        BY <1>5, <3>0
    <3>b. below \in Seq(Int) /\ Len(below) = n - 1 /\ top \in Int
      BY <1>6, <3>0
    <3>1. below \in Seq(Int) /\ n - 1 \in 1 .. Len(below) /\ top \in Int
      BY <3>a, <3>b
    <3>2. below[n - 1] \in Int
      BY <3>1, ElementOfSeq, Zenon
    <3>3. below[n - 1] + top \in Int
      BY <3>1, <3>2
    <3> HIDE DEF below, top
    <3> QED
      BY <3>1, <3>3, ExceptSeq
  <2>5. i.op \in JumpOps <=> i.op \in {"JUMP", "JUMP_IF_FALSE"}
    BY DEF JumpOps
  <2> HIDE DEF i, n, top, below, g, Good, To
  <2> QED
    BY <1>11, <1>12, <1>13, <2>1, <2>2, <2>3, <2>4, <2>5
<1>15. g.end = "none" => g.at > s.at
  <2>1. g.end = "none" => g.at \in {s.at + Width(i)} \/ (i.op \in JumpOps /\ g.at = s.at + 3 + i.by)
    BY <1>14
  <2> QED
    BY <1>1, <1>3, <2>1
<1> QED
  BY <1>2, <1>14, <1>15

LEMMA DoIs ==
    ASSUME NEW c, Whole(c), NEW v \in Int, NEW s \in States(c)
    PROVE  /\ Do(c, v, s) \in States(c)
           /\ Running(c, s) => Do(c, v, s) = Peep!Step(c, v, s)
           /\ ~Running(c, s) => Do(c, v, s) = s
<1>1. CASE Running(c, s)
  <2>1. Peep!Step(c, v, s) \in States(c)
    BY <1>1, StepIs
  <2> QED
    BY <1>1, <2>1 DEF Do, Running
<1>2. CASE ~Running(c, s)
  BY <1>2 DEF Do, Running
<1> QED
  BY <1>1, <1>2

LEMMA Halts ==
    ASSUME NEW c, Whole(c), NEW v \in Int, NEW s \in States(c), ~Running(c, s)
    PROVE  Ends(c, v, s, s)
<1> DEFINE f == [n \in Nat |-> s]
<1>1. f \in [Nat -> States(c)] /\ f[0] = s /\ \A n \in Nat : f[n + 1] = s /\ f[n] = s
  OBVIOUS
<1>2. Do(c, v, s) = s
  BY DoIs
<1> HIDE DEF f
<1> QED
  BY <1>1, <1>2 DEF Ends

LEMMA OneStep ==
    ASSUME NEW c, Whole(c), NEW v \in Int, NEW s \in States(c)
    PROVE  Leads(c, v, s, Do(c, v, s))
<1> SUFFICES ASSUME NEW t, Ends(c, v, Do(c, v, s), t) PROVE Ends(c, v, s, t)
  BY DEF Leads
<1>1. PICK f \in [Nat -> States(c)] :
          /\ f[0] = Do(c, v, s)
          /\ \A n \in Nat : f[n + 1] = Do(c, v, f[n])
          /\ \E n \in Nat : f[n] = t
          /\ ~Running(c, t)
  BY DEF Ends
<1> DEFINE g == [n \in Nat |-> IF n = 0 THEN s ELSE f[n - 1]]
<1>2. g \in [Nat -> States(c)] /\ g[0] = s
  OBVIOUS
<1>3. \A n \in Nat : g[n + 1] = f[n]
  OBVIOUS
<1>4. \A n \in Nat : g[n + 1] = Do(c, v, g[n])
  <2> SUFFICES ASSUME NEW n \in Nat PROVE g[n + 1] = Do(c, v, g[n])
    OBVIOUS
  <2>1. CASE n = 0
    BY <1>1, <1>2, <1>3, <2>1
  <2>2. CASE n # 0
    <3>1. n - 1 \in Nat /\ (n - 1) + 1 = n
      BY <2>2
    <3>2. f[(n - 1) + 1] = Do(c, v, f[n - 1])
      BY <1>1, <3>1
    <3>3. g[n] = f[n - 1]
      BY <2>2
    <3> HIDE DEF g
    <3> QED
      BY <1>3, <3>1, <3>2, <3>3
  <2> QED
    BY <2>1, <2>2
<1>5. \E n \in Nat : g[n] = t
  <2>1. PICK n \in Nat : f[n] = t
    BY <1>1
  <2>2. n + 1 \in Nat /\ g[n + 1] = t
    BY <1>3, <2>1
  <2> HIDE DEF g
  <2> QED
    BY <2>2
<1> HIDE DEF g
<1> QED
  BY <1>1, <1>2, <1>4, <1>5 DEF Ends

LEMMA EndsOnce ==
    ASSUME NEW c, Whole(c), NEW v \in Int, NEW s, NEW t, NEW u, Ends(c, v, s, t), Ends(c, v, s, u)
    PROVE  t = u
<1>1. PICK f \in [Nat -> States(c)] :
          /\ f[0] = s
          /\ \A n \in Nat : f[n + 1] = Do(c, v, f[n])
          /\ \E n \in Nat : f[n] = t
          /\ ~Running(c, t)
  BY DEF Ends
<1>2. PICK g \in [Nat -> States(c)] :
          /\ g[0] = s
          /\ \A n \in Nat : g[n + 1] = Do(c, v, g[n])
          /\ \E n \in Nat : g[n] = u
          /\ ~Running(c, u)
  BY DEF Ends
<1> DEFINE P == {n \in Nat : f[n] = g[n]}
<1>3. 0 \in P /\ \A n \in P : n + 1 \in P
  BY <1>1, <1>2
<1>4. P = Nat
  <2> HIDE DEF P
  <2> QED
    BY <1>3, AllNaturals DEF P
<1>5. PICK n \in Nat : f[n] = t
  BY <1>1
<1>6. PICK m \in Nat : f[m] = u
  BY <1>2, <1>4
<1>7. ASSUME NEW a \in Nat, NEW b \in Nat, a <= b, ~Running(c, f[a]) PROVE f[b] = f[a]
  <2> DEFINE Q == {k \in Nat : f[a + k] = f[a]}
  <2>1. 0 \in Q
    OBVIOUS
  <2>2. ASSUME NEW k \in Q PROVE k + 1 \in Q
    <3>1. a + k \in Nat /\ a + (k + 1) = (a + k) + 1
      OBVIOUS
    <3>2. f[(a + k) + 1] = Do(c, v, f[a + k]) /\ f[a + k] = f[a] /\ f[a] \in States(c)
      BY <1>1, <3>1
    <3>3. f[(a + k) + 1] = f[a]
      BY <1>7, <3>2, DoIs
    <3> QED
      BY <3>1, <3>3
  <2>3. Q = Nat
    <3> HIDE DEF Q
    <3> QED
      BY <2>1, <2>2, AllNaturals DEF Q
  <2>4. b - a \in Nat /\ a + (b - a) = b
    BY <1>7
  <2> QED
    BY <2>3, <2>4
<1>8. n <= m \/ m <= n
  OBVIOUS
<1> QED
  BY <1>1, <1>2, <1>5, <1>6, <1>7, <1>8

Start == [at |-> 1, stack |-> <<>>, end |-> "none"]

LEMMA StartIs ==
    ASSUME NEW c, Whole(c) PROVE Start \in States(c)
<1>1. At(c, 1) /\ <<>> \in Seq(Int)
  BY EmptySeq DEF Whole
<1> QED
  BY <1>1 DEF States, Start

(* The bound on the steps of Outcome is no bound: code goes forward. *)
LEMMA OutcomeIs ==
    ASSUME NEW c, Whole(c), NEW v \in Int
    PROVE  \E t : Ends(c, v, Start, t) /\ Peep!Outcome(c, v) = Result(t)
<1> DEFINE T == States(c)
           F == [s \in T |-> Do(c, v, s)]
           G(g) == [k \in 0 .. Len(c) |->
                       IF k = 0 THEN [at |-> 1, stack |-> <<>>, end |-> "none"]
                       ELSE LET before == g[k - 1]
                            IN  IF before.end # "none" \/ before.at > Len(c) THEN before
                                ELSE Peep!Step(c, v, before)]
           step == CHOOSE g : g = G(g)
<1>1. F \in [T -> T] /\ Start \in T /\ Len(c) \in Nat
  BY DoIs, StartIs, CodeFacts
<1>2. PICK f : Iterates(f, T, F, Start)
  <2> HIDE DEF T, F
  <2> QED
    BY <1>1, Iteration
<1>3. f \in [Nat -> T] /\ f[0] = Start /\ \A n \in Nat : f[n + 1] = Do(c, v, f[n])
  BY <1>2 DEF Iterates
<1> DEFINE h == [k \in 0 .. Len(c) |-> f[k]]
<1>4. h = G(h)
  <2>1. ASSUME NEW k \in 0 .. Len(c)
        PROVE  h[k] = IF k = 0 THEN [at |-> 1, stack |-> <<>>, end |-> "none"]
                      ELSE LET before == h[k - 1]
                           IN  IF before.end # "none" \/ before.at > Len(c) THEN before
                               ELSE Peep!Step(c, v, before)
    <3>1. CASE k = 0
      BY <1>1, <1>3, <3>1 DEF Start
    <3>2. CASE k # 0
      <4>1. k - 1 \in Nat /\ k - 1 \in 0 .. Len(c) /\ (k - 1) + 1 = k /\ k \in Nat
        BY <1>1, <3>2
      <4>2. h[k] = f[k] /\ h[k - 1] = f[k - 1] /\ f[k] = Do(c, v, f[k - 1])
        BY <1>3, <4>1
      <4> HIDE DEF h
      <4> QED
        BY <3>2, <4>2 DEF Do
    <3> QED
      BY <3>1, <3>2
  <2> QED
    BY <2>1
<1>5. step = G(step)
  <2> HIDE DEF h, G
  <2>1. \E g : g = G(g)
    BY <1>4
  <2> QED
    BY <2>1, Zenon
<1> HIDE DEF step
<1>6. step[0] = Start /\ \A k \in 1 .. Len(c) : step[k] = Do(c, v, step[k - 1])
  <2>1. step[0] = Start
    BY <1>1, <1>5 DEF Start
  <2>2. ASSUME NEW k \in 1 .. Len(c) PROVE step[k] = Do(c, v, step[k - 1])
    <3>1. k \in 0 .. Len(c) /\ k # 0
      BY <1>1
    <3> QED
      BY <1>5, <3>1 DEF Do
  <2> QED
    BY <2>1, <2>2
<1> HIDE DEF T
<1>7. step[Len(c)] = f[Len(c)]
  <2> DEFINE P == {k \in Nat : k <= Len(c) => step[k] = f[k]}
  <2>1. 0 \in P
    BY <1>3, <1>6
  <2>2. ASSUME NEW k \in P PROVE k + 1 \in P
    <3>1. CASE k + 1 <= Len(c)
      <4>1. k + 1 \in 1 .. Len(c) /\ (k + 1) - 1 = k /\ k <= Len(c)
        BY <1>1, <3>1
      <4>2. step[k + 1] = Do(c, v, step[k])
        BY <1>6, <4>1
      <4>3. k \in Nat /\ step[k] = f[k]
        BY <4>1
      <4>4. f[k + 1] = Do(c, v, f[k])
        BY <1>3, <4>3
      <4> QED
        BY <4>2, <4>3, <4>4
    <3>2. CASE ~(k + 1 <= Len(c))
      BY <3>2
    <3> QED
      BY <3>1, <3>2
  <2>3. P = Nat
    <3> HIDE DEF P
    <3> QED
      BY <2>1, <2>2, AllNaturals DEF P
  <2> QED
    BY <1>1, <2>3
<1>8. ~Running(c, f[Len(c)])
  <2> DEFINE P == {k \in Nat : Running(c, f[k]) => f[k].at > k}
  <2>0. \A k \in Nat : f[k] \in States(c) /\ f[k].at \in Nat
    BY <1>3 DEF T, States
  <2>1. 0 \in P
    BY <1>3 DEF Start
  <2>2. ASSUME NEW k \in P PROVE k + 1 \in P
    <3>1. ASSUME Running(c, f[k + 1]) PROVE f[k + 1].at > k + 1
      <4>1. f[k + 1] = Do(c, v, f[k]) /\ k + 1 \in Nat
        BY <1>3
      <4>2. Running(c, f[k])
        BY <2>0, <3>1, <4>1, DoIs
      <4>3. f[k + 1] = Peep!Step(c, v, f[k]) /\ f[k + 1].end = "none"
        BY <2>0, <3>1, <4>1, <4>2, DoIs DEF Running
      <4>4. f[k + 1].at > f[k].at
        BY <2>0, <4>2, <4>3, StepIs
      <4> QED
        BY <2>0, <4>1, <4>2, <4>4
    <3> QED
      BY <3>1
  <2>3. P = Nat
    <3> HIDE DEF P
    <3> QED
      BY <2>1, <2>2, AllNaturals DEF P
  <2> QED
    BY <1>1, <2>3 DEF Running
<1>9. Ends(c, v, Start, f[Len(c)])
  BY <1>1, <1>3, <1>8 DEF Ends, T
<1>10. Peep!Outcome(c, v) = IF step[Len(c)].end = "none" THEN step[Len(c)].stack ELSE <<step[Len(c)].end>>
  BY Zenon DEF Peep!Outcome, step
<1> QED
  BY <1>7, <1>9, <1>10 DEF Result

(* Two codes do the same if their runs meet again and again. *)
LEMMA SameRuns ==
    ASSUME NEW c, Whole(c), NEW d, Whole(d), Len(c) = Len(d), NEW v \in Int,
           NEW W, W \subseteq States(c), W \subseteq States(d), Start \in W,
           \A s \in W : Running(c, s) =>
               \E g \in W : Leads(c, v, s, g) /\ Leads(d, v, s, g) /\ (g.end = "none" => g.at > s.at)
    PROVE  Peep!Outcome(c, v) = Peep!Outcome(d, v)
<1> DEFINE Both(s) == \E t : Ends(c, v, s, t) /\ Ends(d, v, s, t)
           P == {n \in Nat : \A s \in W : Len(c) + 1 - n <= s.at => Both(s)}
<1>1. Len(c) \in Nat /\ \A s \in W : s.at \in Nat
  BY CodeFacts DEF States
<1>2. \A s \in W : ~Running(c, s) => Both(s)
  <2> SUFFICES ASSUME NEW s \in W, ~Running(c, s) PROVE Both(s)
    OBVIOUS
  <2>1. ~Running(d, s) /\ s \in States(c) /\ s \in States(d)
    BY DEF Running
  <2>2. Ends(c, v, s, s) /\ Ends(d, v, s, s)
    BY <2>1, Halts
  <2> QED
    BY <2>2
<1> HIDE DEF Both
<1>3. 0 \in P
  BY <1>1, <1>2 DEF Running
<1>4. ASSUME NEW n \in P PROVE n + 1 \in P
  <2> SUFFICES ASSUME NEW s \in W, Len(c) + 1 - (n + 1) <= s.at PROVE Both(s)
    OBVIOUS
  <2>1. CASE ~Running(c, s)
    BY <1>2, <2>1
  <2>2. CASE Running(c, s)
    <3>1. PICK g \in W : Leads(c, v, s, g) /\ Leads(d, v, s, g) /\ (g.end = "none" => g.at > s.at)
      BY <2>2
    <3>2. Both(g)
      <4>1. CASE g.end = "none"
        <5>1. Len(c) + 1 - n <= g.at
          BY <1>1, <3>1, <4>1
        <5> QED
          BY <5>1
      <4>2. CASE g.end # "none"
        BY <1>2, <4>2 DEF Running
      <4> QED
        BY <4>1, <4>2
    <3> QED
      BY <3>1, <3>2 DEF Both, Leads
  <2> QED
    BY <2>1, <2>2
<1>5. P = Nat
  <2> HIDE DEF P
  <2> QED
    BY <1>3, <1>4, AllNaturals DEF P
<1>6. Both(Start)
  BY <1>1, <1>5 DEF Start
<1>7. PICK t : Ends(c, v, Start, t) /\ Ends(d, v, Start, t)
  BY <1>6 DEF Both
<1>8. PICK a : Ends(c, v, Start, a) /\ Peep!Outcome(c, v) = Result(a)
  BY OutcomeIs
<1>9. PICK b : Ends(d, v, Start, b) /\ Peep!Outcome(d, v) = Result(b)
  BY OutcomeIs
<1>10. a = t /\ b = t
  BY <1>7, <1>8, <1>9, EndsOnce
<1> QED
  BY <1>8, <1>9, <1>10

-----------------------------------------------------------------------------
(* Writing code                                                            *)

LEMMA Appended ==
    ASSUME NEW c, Whole(c), NEW i, Whole(i)
    PROVE  Whole(c \o i)
<1> DEFINE d == c \o i
           n == Len(c)
           m == Len(i)
<1>1. /\ n \in Nat /\ DOMAIN c = 1 .. n /\ c \in Seq(Cell)
      /\ m \in Nat /\ DOMAIN i = 1 .. m /\ i \in Seq(Cell)
      /\ \A p : At(c, p) => p \in 1 .. n + 1
      /\ \A p : At(i, p) => p \in 1 .. m + 1
  BY CodeFacts DEF Whole
<1>2. /\ d \in Seq(Cell) /\ Len(d) = n + m
      /\ \A k \in 1 .. n + m : d[k] = IF k <= n THEN c[k] ELSE i[k - n]
  BY <1>1, ConcatProperties
<1>3. DOMAIN d = 1 .. n + m
  BY <1>1, <1>2, LenProperties
<1> HIDE DEF d, n, m
<1>4. ASSUME NEW p, At(i, p) PROVE At(d, n + p)
  <2>1. p \in 1 .. m + 1
    BY <1>1, <1>4
  <2>2. CASE p = m + 1
    BY <1>1, <1>2, <2>2 DEF At
  <2>3. CASE p # m + 1
    <3>1. p \in 1 .. m /\ i[p].op # "operand"
      BY <1>1, <1>4, <2>1, <2>3 DEF At, m
    <3>2. n + p \in 1 .. n + m /\ ~(n + p <= n) /\ (n + p) - n = p
      BY <1>1, <3>1
    <3>3. d[n + p] = i[p]
      BY <1>2, <3>2
    <3> QED
      BY <1>3, <3>1, <3>2, <3>3 DEF At
  <2> QED
    BY <2>2, <2>3
<1>5. ASSUME NEW p, At(c, p) PROVE At(d, p)
  <2>1. p \in 1 .. n + 1
    BY <1>1, <1>5
  <2>2. CASE p = n + 1
    BY <1>4, <2>2 DEF Whole
  <2>3. CASE p # n + 1
    <3>1. p \in 1 .. n /\ c[p].op # "operand" /\ p \in 1 .. n + m
      BY <1>1, <1>5, <2>1, <2>3 DEF At, n
    <3>2. d[p] = c[p]
      BY <1>2, <3>1
    <3> QED
      BY <1>3, <3>1, <3>2 DEF At
  <2> QED
    BY <2>2, <2>3
<1>6. ASSUME NEW p \in DOMAIN d, d[p].op # "operand"
      PROVE  /\ At(d, p + Width(d[p]))
             /\ \A k \in p + 1 .. p + Width(d[p]) - 1 : d[k].op = "operand"
             /\ d[p].op \in JumpOps => At(d, p + 3 + d[p].by)
  <2>0. p \in 1 .. n + m
    BY <1>3
  <2>1. CASE p <= n
    <3>1. p \in DOMAIN c /\ d[p] = c[p] /\ c[p] \in Cell
      BY <1>1, <1>2, <2>0, <2>1, ElementOfSeq DEF n
    <3>2. /\ At(c, p + Width(c[p]))
          /\ \A k \in p + 1 .. p + Width(c[p]) - 1 : c[k].op = "operand"
          /\ c[p].op \in JumpOps => At(c, p + 3 + c[p].by)
      BY <1>6, <3>1 DEF Whole
    <3>3. Width(c[p]) \in {1, 2, 3}
      BY <3>1, CellFacts
    <3>4. ASSUME NEW k \in p + 1 .. p + Width(c[p]) - 1 PROVE d[k].op = "operand"
      <4> DEFINE w == Width(c[p])
      <4>1. w \in {1, 2, 3} /\ p + w \in 1 .. n + 1 /\ k \in p + 1 .. p + w - 1
        BY <1>1, <3>2, <3>3
      <4> HIDE DEF w
      <4>2. k <= n /\ k \in 1 .. n + m
        BY <1>1, <2>0, <4>1
      <4> QED
        BY <1>2, <3>2, <3>4, <4>2
    <3> QED
      BY <1>5, <3>1, <3>2, <3>4
  <2>2. CASE ~(p <= n)
    <3>0. PICK q : q = p - n
      OBVIOUS
    <3>1. q \in 1 .. m /\ p = n + q
      BY <1>1, <2>0, <2>2, <3>0
    <3>2. q \in DOMAIN i /\ d[p] = i[q] /\ i[q] \in Cell
      BY <1>1, <1>2, <2>0, <2>2, <3>0, <3>1, ElementOfSeq DEF m
    <3>3. /\ At(i, q + Width(i[q]))
          /\ \A k \in q + 1 .. q + Width(i[q]) - 1 : i[k].op = "operand"
          /\ i[q].op \in JumpOps => At(i, q + 3 + i[q].by)
      BY <1>6, <3>2 DEF Whole
    <3>4. PICK w : w = Width(i[q])
      OBVIOUS
    <3>5. w \in {1, 2, 3} /\ (i[q].op \in JumpOps => i[q].by \in Nat)
      BY <3>2, <3>4, CellFacts
    <3>6. n + (q + w) = p + w
      BY <1>1, <3>1, <3>5
    <3>7. At(d, p + w)
      BY <1>4, <3>3, <3>4, <3>6
    <3>8. d[p].op \in JumpOps => At(d, p + 3 + d[p].by)
      <4>1. SUFFICES ASSUME i[q].op \in JumpOps PROVE At(d, p + 3 + i[q].by)
        BY <3>2
      <4>2. At(d, n + (q + 3 + i[q].by))
        BY <1>4, <3>3, <4>1
      <4>3. n + (q + 3 + i[q].by) = p + 3 + i[q].by
        BY <1>1, <3>1, <3>5, <4>1
      <4> QED
        BY <4>2, <4>3
    <3>9. ASSUME NEW k \in p + 1 .. p + w - 1 PROVE d[k].op = "operand"
      <4>1. q + w \in 1 .. m + 1
        BY <1>1, <3>3, <3>4
      <4>2. k \in 1 .. n + m /\ ~(k <= n) /\ k - n \in q + 1 .. q + w - 1
        BY <1>1, <3>1, <3>5, <4>1
      <4> QED
        BY <1>2, <3>3, <3>4, <4>2
    <3> QED
      BY <3>2, <3>4, <3>7, <3>8, <3>9
  <2> QED
    BY <2>1, <2>2
<1>7. At(d, 1)
  BY <1>5 DEF Whole
<1>8. Whole(d)
  BY <1>2, <1>6, <1>7, Zenon DEF Whole
<1> QED
  BY <1>8 DEF d

LEMMA SomeCells ==
    /\ Peep!Operand \in Cell /\ Peep!Operand.op = "operand" /\ Peep!Nop \in Cell /\ Peep!Nop.op = "NOP"
    /\ \A name \in {"NOP", "GET_GLOBAL", "POP", "NOT", "ADD"} : Peep!Op(name) \in Cell
           /\ Peep!Op(name).op = name
    /\ \A name \in JumpOps : [op |-> name, by |-> 0] \in Cell
  BY DEF Peep!Operand, Peep!Nop, Peep!Op, Cell, JumpOps

(* An instruction with its operands is whole. *)
LEMMA OneInstruction ==
    ASSUME NEW i \in Cell, i.op # "operand", i.op \in JumpOps => i.by = 0,
           NEW c \in Seq(Cell), Len(c) = Width(i), c[1] = i,
           \A k \in 2 .. Len(c) : c[k] = Peep!Operand
    PROVE  Whole(c)
<1>1. Width(i) \in {1, 2, 3} /\ (i.op \in JumpOps => Width(i) = 3)
  BY DEF Width, JumpOps
<1>2. DOMAIN c = 1 .. Len(c) /\ Len(c) \in Nat
  BY LenProperties
<1>3. At(c, 1) /\ At(c, Len(c) + 1)
  BY <1>1, <1>2 DEF At
<1>4. ASSUME NEW p \in DOMAIN c, c[p].op # "operand" PROVE p = 1
  BY <1>2, <1>4, SomeCells
<1>5. \A k \in 2 .. Len(c) : c[k].op = "operand"
  BY SomeCells
<1>6. ASSUME NEW p \in DOMAIN c, c[p].op # "operand"
      PROVE  /\ At(c, p + Width(c[p]))
             /\ \A k \in p + 1 .. p + Width(c[p]) - 1 : c[k].op = "operand"
             /\ c[p].op \in JumpOps => At(c, p + 3 + c[p].by)
  <2>1. p = 1 /\ c[p] = i
    BY <1>4, <1>6
  <2>2. p + Width(i) = Len(c) + 1
    BY <1>1, <2>1
  <2>3. i.op \in JumpOps => p + 3 + i.by = Len(c) + 1
    BY <1>1, <2>1
  <2>4. \A k \in p + 1 .. p + Width(i) - 1 : k \in 2 .. Len(c)
    BY <1>1, <2>1
  <2> QED
    BY <1>3, <1>5, <2>1, <2>2, <2>3, <2>4
<1> QED
  BY <1>3, <1>6, Zenon DEF Whole

(* What the compiler and the optimizer write. *)
LEMMA PushIs ==
    ASSUME NEW v \in Nat \union {Peep!True, Peep!False}
    PROVE  /\ Peep!Push(v) \in Seq(Cell) /\ Whole(Peep!Push(v))
           /\ Len(Peep!Push(v)) = Width(Peep!Push(v)[1]) /\ Len(Peep!Push(v)) = IF v \in Nat THEN 2 ELSE 1
           /\ Peep!Push(v)[1].op \in {"TRUE", "FALSE", "CONSTANT"} /\ Peep!Push(v)[1].value = v
           /\ \A k \in DOMAIN Peep!Push(v) : Peep!Push(v)[k].op \notin JumpOps
<1>0. v = -1 \/ v = -2 \/ (v \in Nat /\ v # -1 /\ v # -2)
  BY DEF Peep!True, Peep!False
<1> DEFINE t == [op |-> "TRUE", value |-> v]
           f == [op |-> "FALSE", value |-> v]
           n == [op |-> "CONSTANT", value |-> v]
           Good(c) == /\ c \in Seq(Cell) /\ Whole(c)
                      /\ Len(c) = Width(c[1]) /\ Len(c) = IF v \in Nat THEN 2 ELSE 1
                      /\ c[1].op \in {"TRUE", "FALSE", "CONSTANT"} /\ c[1].value = v
                      /\ \A k \in DOMAIN c : c[k].op \notin JumpOps
<1>1. CASE v = -1
  <2>1. Peep!Push(v) = <<t>>
    BY <1>1 DEF Peep!Push, Peep!True, Peep!False
  <2>2. t \in Cell /\ t.op = "TRUE" /\ t.value = v /\ Width(t) = 1
    BY <1>1 DEF Cell, Peep!True, Width, JumpOps
  <2> HIDE DEF t
  <2>3. <<t>> \in Seq(Cell) /\ Len(<<t>>) = 1 /\ <<t>>[1] = t /\ DOMAIN <<t>> = 1 .. 1
    BY <2>2
  <2>4. Whole(<<t>>)
    <3>1. \A k \in 2 .. Len(<<t>>) : <<t>>[k] = Peep!Operand
      BY <2>3
    <3>2. t.op # "operand" /\ t.op \notin JumpOps /\ Len(<<t>>) = Width(t)
      BY <2>2, <2>3 DEF JumpOps
    <3> QED
      BY <2>2, <2>3, <3>1, <3>2, OneInstruction
  <2>5. \A k \in DOMAIN <<t>> : <<t>>[k].op \notin JumpOps
    BY <2>2, <2>3 DEF JumpOps
  <2>6. Good(<<t>>)
    BY <1>1, <2>2, <2>3, <2>4, <2>5
  <2> QED
    BY <2>1, <2>6, Zenon
<1>2. CASE v = -2
  <2>1. Peep!Push(v) = <<f>>
    BY <1>2 DEF Peep!Push, Peep!True, Peep!False
  <2>2. f \in Cell /\ f.op = "FALSE" /\ f.value = v /\ Width(f) = 1
    BY <1>2 DEF Cell, Peep!False, Width, JumpOps
  <2> HIDE DEF f
  <2>3. <<f>> \in Seq(Cell) /\ Len(<<f>>) = 1 /\ <<f>>[1] = f /\ DOMAIN <<f>> = 1 .. 1
    BY <2>2
  <2>4. Whole(<<f>>)
    <3>1. \A k \in 2 .. Len(<<f>>) : <<f>>[k] = Peep!Operand
      BY <2>3
    <3>2. f.op # "operand" /\ f.op \notin JumpOps /\ Len(<<f>>) = Width(f)
      BY <2>2, <2>3 DEF JumpOps
    <3> QED
      BY <2>2, <2>3, <3>1, <3>2, OneInstruction
  <2>5. \A k \in DOMAIN <<f>> : <<f>>[k].op \notin JumpOps
    BY <2>2, <2>3 DEF JumpOps
  <2>6. Good(<<f>>)
    BY <1>2, <2>2, <2>3, <2>4, <2>5
  <2> QED
    BY <2>1, <2>6, Zenon
<1>3. CASE v \in Nat /\ v # -1 /\ v # -2
  <2>1. Peep!Push(v) = <<n, Peep!Operand>>
    BY <1>3 DEF Peep!Push, Peep!True, Peep!False
  <2>2. n \in Cell /\ n.op = "CONSTANT" /\ n.value = v /\ Width(n) = 2
    BY <1>3 DEF Cell, Width, JumpOps
  <2> HIDE DEF n
  <2>3. /\ <<n, Peep!Operand>> \in Seq(Cell) /\ Len(<<n, Peep!Operand>>) = 2 /\ <<n, Peep!Operand>>[1] = n
        /\ <<n, Peep!Operand>>[2] = Peep!Operand /\ DOMAIN <<n, Peep!Operand>> = 1 .. 2
    BY <2>2, SomeCells
  <2>4. \A k \in 2 .. 2 : <<n, Peep!Operand>>[k] = Peep!Operand
    BY <2>3
  <2>5. Whole(<<n, Peep!Operand>>)
    BY <2>2, <2>3, <2>4, OneInstruction DEF JumpOps
  <2>6. \A k \in DOMAIN <<n, Peep!Operand>> : <<n, Peep!Operand>>[k].op \notin JumpOps
    BY <2>2, <2>3, SomeCells DEF JumpOps
  <2> QED
    BY <1>3, <2>1, <2>2, <2>3, <2>5, <2>6
<1> QED
  BY <1>0, <1>1, <1>2, <1>3

(* A jump is given another target. *)
LEMMA Retarget ==
    ASSUME NEW c, Whole(c), NEW j \in DOMAIN c, c[j].op \in JumpOps, NEW by \in Nat, At(c, j + 3 + by)
    PROVE  LET d == [c EXCEPT ![j].by = by]
           IN  /\ Whole(d) /\ Len(d) = Len(c) /\ DOMAIN d = DOMAIN c
               /\ \A p : At(d, p) <=> At(c, p)
               /\ \A p \in DOMAIN c : p # j => d[p] = c[p]
               /\ d[j].op = c[j].op /\ d[j].by = by
<1> DEFINE i == [c[j] EXCEPT !.by = by]
           d == [c EXCEPT ![j].by = by]
<1>1. c \in Seq(Cell) /\ Len(c) \in Nat /\ DOMAIN c = 1 .. Len(c) /\ c[j] \in Cell
  BY CodeFacts DEF Whole
<1>2. i \in Cell /\ i.op = c[j].op /\ i.by = by
  BY <1>1 DEF Cell, JumpOps
<1>3. d = [c EXCEPT ![j] = i]
  OBVIOUS
<1> HIDE DEF i
<1>4. d \in Seq(Cell) /\ Len(d) = Len(c) /\ DOMAIN d = DOMAIN c
  BY <1>1, <1>2, <1>3, ExceptSeq
<1>5. d[j] = i /\ \A p \in DOMAIN c : p # j => d[p] = c[p]
  BY <1>1, <1>3
<1> HIDE DEF d
<1>6. \A p \in DOMAIN c : d[p].op = c[p].op /\ Width(d[p]) = Width(c[p])
  BY <1>2, <1>5 DEF Width
<1>7. \A p : At(d, p) <=> At(c, p)
  BY <1>4, <1>6 DEF At
<1>8. ASSUME NEW p \in DOMAIN d, d[p].op # "operand"
      PROVE  /\ At(d, p + Width(d[p]))
             /\ \A k \in p + 1 .. p + Width(d[p]) - 1 : d[k].op = "operand"
             /\ d[p].op \in JumpOps => At(d, p + 3 + d[p].by)
  <2>1. /\ p \in DOMAIN c /\ c[p].op # "operand" /\ Width(d[p]) = Width(c[p]) /\ c[p] \in Cell
        /\ d[p].op = c[p].op
    BY <1>1, <1>4, <1>6, <1>8, CodeFacts
  <2>2. /\ At(c, p + Width(c[p]))
        /\ \A k \in p + 1 .. p + Width(c[p]) - 1 : c[k].op = "operand"
        /\ c[p].op \in JumpOps => At(c, p + 3 + c[p].by)
    BY <2>1 DEF Whole
  <2>3. ASSUME NEW k \in p + 1 .. p + Width(c[p]) - 1 PROVE d[k].op = "operand"
    <3> DEFINE w == Width(c[p])
    <3>1. w \in {1, 2, 3} /\ p + w \in 1 .. Len(c) + 1 /\ k \in p + 1 .. p + w - 1 /\ p \in 1 .. Len(c)
      BY <1>1, <2>1, <2>2, CellFacts, CodeFacts
    <3> HIDE DEF w
    <3>2. k \in DOMAIN c
      BY <1>1, <3>1
    <3> QED
      BY <1>6, <2>2, <2>3, <3>2
  <2>4. d[p].op \in JumpOps => At(c, p + 3 + d[p].by)
    BY <1>2, <1>5, <2>1, <2>2
  <2> QED
    BY <1>7, <2>1, <2>2, <2>3, <2>4
<1>9. Whole(d)
  BY <1>4, <1>7, <1>8, Zenon DEF Whole
<1> QED
  BY <1>2, <1>4, <1>5, <1>7, <1>9 DEF d

-----------------------------------------------------------------------------
(* Running instructions one after the other                                *)

LEMMA LeadsFrom ==
    ASSUME NEW c, NEW v, NEW s1, NEW s2, NEW s3, Leads(c, v, s1, s2), Leads(c, v, s2, s3)
    PROVE  Leads(c, v, s1, s3) /\ Leads(c, v, s1, s1)
  BY Zenon DEF Leads

\* The state of a run that is at an instruction.
At0(at, st) == [at |-> at, stack |-> st, end |-> "none"]

LEMMA StateIs ==
    ASSUME NEW c, Whole(c), NEW s \in States(c), s.end = "none"
    PROVE  /\ s = At0(s.at, s.stack) /\ s.at \in Nat /\ s.stack \in Seq(Int) /\ At(c, s.at)
           /\ s.at \in 1 .. Len(c) + 1
<1>1. s \in [at : Nat, stack : Seq(Int), end : {"none", "underflow", "error"}] /\ At(c, s.at)
  BY DEF States
<1>2. s = [at |-> s.at, stack |-> s.stack, end |-> s.end]
  BY <1>1
<1> QED
  BY <1>1, <1>2, CodeFacts DEF At0

LEMMA IsState ==
    ASSUME NEW c, Whole(c), NEW p, At(c, p), NEW st \in Seq(Int)
    PROVE  At0(p, st) \in States(c) /\ At0(p, st).at = p /\ At0(p, st).stack = st /\ At0(p, st).end = "none"
<1>1. p \in Nat
  BY CodeFacts
<1> QED
  BY <1>1 DEF At0, States

LEMMA PassNops ==
    ASSUME NEW c, Whole(c), NEW v \in Int, NEW p \in Nat, NEW q \in Nat, p <= q, At(c, p),
           \A k \in p .. q - 1 : k \in DOMAIN c /\ c[k].op = "NOP", NEW st \in Seq(Int)
    PROVE  At(c, q) /\ Leads(c, v, At0(p, st), At0(q, st))
<1> DEFINE P == {n \in Nat : p + n <= q => At(c, p + n) /\ Leads(c, v, At0(p, st), At0(p + n, st))}
<1>1. 0 \in P
  <2>1. p + 0 = p
    OBVIOUS
  <2> QED
    BY <2>1 DEF Leads
<1>2. ASSUME NEW n \in P PROVE n + 1 \in P
  <2>1. CASE p + (n + 1) <= q
    <3>1. PICK k : k = p + n
      OBVIOUS
    <3>2. /\ k \in p .. q - 1 /\ k \in DOMAIN c /\ c[k].op = "NOP" /\ p + (n + 1) = k + 1
          /\ At(c, k) /\ Leads(c, v, At0(p, st), At0(k, st)) /\ k \in Nat
      BY <2>1, <3>1
    <3>3. PICK s \in States(c) : s = At0(k, st)
      BY <3>2, IsState
    <3>4. s.at = k /\ s.stack = st /\ s.end = "none" /\ Running(c, s)
      <4>1. k \in 1 .. Len(c) /\ Len(c) \in Nat
        BY <3>2, CodeFacts
      <4>2. ~(k > Len(c))
        BY <4>1
      <4> QED
        BY <3>2, <3>3, <4>2, IsState DEF Running
    <3>5. Peep!Step(c, v, s) = At0(k + 1, st)
      BY <3>2, <3>3, <3>4 DEF Peep!Step, At0
    <3>6. Leads(c, v, s, At0(k + 1, st))
      BY <3>4, <3>5, DoIs, OneStep
    <3>7. At(c, k + 1)
      BY <3>2 DEF Whole, Width, JumpOps
    <3> QED
      BY <3>2, <3>3, <3>6, <3>7, LeadsFrom
  <2>2. CASE ~(p + (n + 1) <= q)
    BY <2>2
  <2> QED
    BY <2>1, <2>2
<1>3. P = Nat
  <2> HIDE DEF P
  <2> QED
    BY <1>1, <1>2, AllNaturals DEF P
<1>4. PICK n \in Nat : p + n = q
  <2>1. q - p \in Nat /\ p + (q - p) = q
    OBVIOUS
  <2> QED
    BY <2>1
<1>5. n \in P
  BY <1>3
<1>6. p + n <= q
  BY <1>4
<1> QED
  BY <1>4, <1>5, <1>6

(* A push, with the NOPs after it. *)
LEMMA PushAndNops ==
    ASSUME NEW c, Whole(c), NEW v \in Int, NEW p \in DOMAIN c,
           c[p].op \in {"TRUE", "FALSE", "CONSTANT"}, NEW st \in Seq(Int),
           NEW q \in Nat, p + Width(c[p]) <= q,
           \A k \in p + Width(c[p]) .. q - 1 : k \in DOMAIN c /\ c[k].op = "NOP"
    PROVE  /\ c[p].value \in Int /\ Append(st, c[p].value) \in Seq(Int)
           /\ At(c, q) /\ Leads(c, v, At0(p, st), At0(q, Append(st, c[p].value)))
<1>1. p \in 1 .. Len(c) /\ Len(c) \in Nat /\ c[p] \in Cell /\ At(c, p)
  BY CodeFacts DEF At
<1>2. PICK w : w = Width(c[p])
  OBVIOUS
<1>3. PICK x : x = c[p].value
  OBVIOUS
<1>4. w \in {1, 2, 3} /\ x \in Int /\ (c[p].op = "CONSTANT" <=> w = 2) /\ (c[p].op # "CONSTANT" => w = 1)
  <2>1. x \in Int
    BY <1>1, <1>3, CellFacts DEF Peep!True, Peep!False
  <2> QED
    BY <1>2, <2>1 DEF Width, JumpOps
<1>5. Append(st, x) \in Seq(Int)
  BY <1>4, AppendProperties
<1>6. PICK s \in States(c) : s = At0(p, st)
  BY <1>1, IsState
<1>7. s.at = p /\ s.stack = st /\ s.end = "none" /\ Running(c, s)
  <2>1. ~(p > Len(c))
    BY <1>1
  <2> QED
    BY <1>1, <1>6, <2>1, IsState DEF Running
<1>8. Peep!Step(c, v, s) = At0(p + w, Append(st, x))
  <2>1. CASE c[p].op = "CONSTANT"
    BY <1>3, <1>4, <1>6, <1>7, <2>1 DEF Peep!Step, At0
  <2>2. CASE c[p].op \in {"TRUE", "FALSE"}
    BY <1>3, <1>4, <1>6, <1>7, <2>2 DEF Peep!Step, At0
  <2> QED
    BY <2>1, <2>2
<1>9. Leads(c, v, s, At0(p + w, Append(st, x)))
  BY <1>7, <1>8, DoIs, OneStep
<1>10. At(c, p + w) /\ p + w \in Nat
  <2>1. At(c, p + w)
    BY <1>2 DEF Whole
  <2> QED
    BY <1>1, <1>4, <2>1
<1>11. At(c, q) /\ Leads(c, v, At0(p + w, Append(st, x)), At0(q, Append(st, x)))
  BY <1>2, <1>5, <1>10, PassNops
<1> QED
  BY <1>3, <1>4, <1>5, <1>6, <1>9, <1>11, LeadsFrom

(* A stack as POP, NOT and ADD leave it. *)
LEMMA TopOf ==
    ASSUME NEW st \in Seq(Int), NEW x \in Int
    PROVE  LET S == Append(st, x)
               n == Len(S)
           IN  /\ S \in Seq(Int) /\ n = Len(st) + 1 /\ Len(st) \in Nat /\ S[n] = x
               /\ SubSeq(S, 1, n - 1) = st
               /\ \A k \in 1 .. Len(st) : S[k] = st[k]
<1>1. PICK S : S = Append(st, x)
  OBVIOUS
<1>2. /\ S \in Seq(Int) /\ Len(S) = Len(st) + 1 /\ Len(st) \in Nat
      /\ \A k \in 1 .. Len(st) : S[k] = st[k] /\ S[Len(st) + 1] = x
      /\ S[Len(st) + 1] = x
  BY <1>1, AppendProperties, LenProperties
<1>3. PICK m : m = Len(st)
  OBVIOUS
<1>4. m \in Nat /\ m \in Int /\ 1 \in Int
  BY <1>2, <1>3
<1>5. \A k \in 1 .. m : S[k] \in Int
  BY <1>2, <1>3, ElementOfSeq
<1>6. /\ SubSeq(S, 1, m) \in Seq(Int)
      /\ Len(SubSeq(S, 1, m)) = IF 1 <= m THEN m - 1 + 1 ELSE 0
      /\ \A k \in 1 .. m - 1 + 1 : SubSeq(S, 1, m)[k] = S[1 + k - 1]
  BY <1>4, <1>5, SubSeqProperties
<1>7. Len(SubSeq(S, 1, m)) = m
  BY <1>4, <1>6
<1>8. \A k \in 1 .. m : SubSeq(S, 1, m)[k] = S[k]
  BY <1>4, <1>6
<1>9. \A k \in 1 .. m : S[k] = st[k]
  BY <1>2, <1>3
<1>10. SubSeq(S, 1, m) = st
  BY <1>3, <1>6, <1>7, <1>8, <1>9, SeqEqual
<1>11. Len(S) - 1 = m
  BY <1>2, <1>3
<1> QED
  BY <1>1, <1>2, <1>3, <1>10, <1>11

(* POP, NOT and ADD, with constants pushed before them. *)
LEMMA PopStep ==
    ASSUME NEW c, Whole(c), NEW v \in Int, NEW p \in DOMAIN c, c[p].op = "POP",
           NEW st \in Seq(Int), NEW x \in Int
    PROVE  At(c, p + 1) /\ Leads(c, v, At0(p, Append(st, x)), At0(p + 1, st))
<1>1. p \in 1 .. Len(c) /\ Len(c) \in Nat /\ At(c, p) /\ At(c, p + 1)
  BY CodeFacts DEF At, Whole, Width, JumpOps
<1>2. PICK S : S = Append(st, x)
  OBVIOUS
<1>3. /\ S \in Seq(Int) /\ Len(S) = Len(st) + 1 /\ Len(st) \in Nat /\ S[Len(S)] = x
      /\ SubSeq(S, 1, Len(S) - 1) = st
  BY <1>2, TopOf
<1>4. PICK s \in States(c) : s = At0(p, S)
  BY <1>1, <1>3, IsState
<1>5. s.at = p /\ s.stack = S /\ s.end = "none" /\ Running(c, s)
  <2>1. ~(p > Len(c))
    BY <1>1
  <2> QED
    BY <1>1, <1>3, <1>4, <2>1, IsState DEF Running
<1>6. Peep!Step(c, v, s) = At0(p + 1, st)
  <2>1. ~(Len(S) = 0 \/ (Len(S) = 1 /\ "POP" = "ADD"))
    BY <1>3
  <2> QED
    BY <1>3, <1>4, <1>5, <2>1 DEF Peep!Step, At0
<1> QED
  BY <1>1, <1>2, <1>4, <1>5, <1>6, DoIs, OneStep

LEMMA NotStep ==
    ASSUME NEW c, Whole(c), NEW v \in Int, NEW p \in DOMAIN c, c[p].op = "NOT",
           NEW st \in Seq(Int), NEW x \in Int
    PROVE  At(c, p + 1) /\ Leads(c, v, At0(p, Append(st, x)), At0(p + 1, Append(st, Peep!Negation(x))))
<1>1. p \in 1 .. Len(c) /\ Len(c) \in Nat /\ At(c, p) /\ At(c, p + 1)
  BY CodeFacts DEF At, Whole, Width, JumpOps
<1>2. PICK S : S = Append(st, x)
  OBVIOUS
<1>3. /\ S \in Seq(Int) /\ Len(S) = Len(st) + 1 /\ Len(st) \in Nat /\ S[Len(S)] = x
      /\ SubSeq(S, 1, Len(S) - 1) = st
  BY <1>2, TopOf
<1>4. PICK s \in States(c) : s = At0(p, S)
  BY <1>1, <1>3, IsState
<1>5. s.at = p /\ s.stack = S /\ s.end = "none" /\ Running(c, s)
  <2>1. ~(p > Len(c))
    BY <1>1
  <2> QED
    BY <1>1, <1>3, <1>4, <2>1, IsState DEF Running
<1>6. Peep!Step(c, v, s) = At0(p + 1, Append(st, Peep!Negation(x)))
  <2>1. ~(Len(S) = 0 \/ (Len(S) = 1 /\ "NOT" = "ADD"))
    BY <1>3
  <2> QED
    BY <1>3, <1>4, <1>5, <2>1 DEF Peep!Step, At0
<1> QED
  BY <1>1, <1>2, <1>4, <1>5, <1>6, DoIs, OneStep

LEMMA AddStep ==
    ASSUME NEW c, Whole(c), NEW v \in Int, NEW p \in DOMAIN c, c[p].op = "ADD",
           NEW st \in Seq(Int), NEW a \in Nat, NEW b \in Nat
    PROVE  At(c, p + 1) /\ Leads(c, v, At0(p, Append(Append(st, a), b)), At0(p + 1, Append(st, a + b)))
<1>1. p \in 1 .. Len(c) /\ Len(c) \in Nat /\ At(c, p) /\ At(c, p + 1)
  BY CodeFacts DEF At, Whole, Width, JumpOps
<1>2. PICK R : R = Append(st, a)
  OBVIOUS
<1>3. PICK S : S = Append(R, b)
  OBVIOUS
<1>4. /\ R \in Seq(Int) /\ Len(R) = Len(st) + 1 /\ Len(st) \in Nat /\ R[Len(R)] = a
      /\ \A k \in 1 .. Len(st) : R[k] = st[k]
  BY <1>2, TopOf
<1>5. /\ S \in Seq(Int) /\ Len(S) = Len(R) + 1 /\ S[Len(S)] = b
      /\ SubSeq(S, 1, Len(S) - 1) = R /\ \A k \in 1 .. Len(R) : S[k] = R[k]
  BY <1>3, <1>4, TopOf
<1>6. PICK s \in States(c) : s = At0(p, S)
  BY <1>1, <1>5, IsState
<1>7. s.at = p /\ s.stack = S /\ s.end = "none" /\ Running(c, s)
  <2>1. ~(p > Len(c))
    BY <1>1
  <2> QED
    BY <1>1, <1>5, <1>6, <2>1, IsState DEF Running
<1>8. PICK n : n = Len(S)
  OBVIOUS
<1>9. n = Len(st) + 2 /\ n # 0 /\ n # 1 /\ n - 1 = Len(R) /\ n - 1 \in 1 .. Len(R) /\ S[n - 1] = a
  <2>1. n = Len(st) + 2 /\ n # 0 /\ n # 1 /\ n - 1 = Len(R) /\ n - 1 \in 1 .. Len(R)
    BY <1>4, <1>5, <1>8
  <2> QED
    BY <1>4, <1>5, <2>1
<1>10. [R EXCEPT ![n - 1] = R[n - 1] + b] = Append(st, a + b)
  <2>1. PICK X : X = [R EXCEPT ![n - 1] = R[n - 1] + b]
    OBVIOUS
  <2>2. PICK Y : Y = Append(st, a + b)
    OBVIOUS
  <2>3. R[n - 1] = a /\ a + b \in Int
    BY <1>4, <1>9
  <2>4. X = [R EXCEPT ![n - 1] = a + b]
    BY <2>1, <2>3
  <2>5. X \in Seq(Int) /\ Len(X) = Len(R)
    BY <1>4, <1>9, <2>3, <2>4, ExceptSeq
  <2>6. Y \in Seq(Int) /\ Len(Y) = Len(R) /\ Y[Len(R)] = a + b /\ \A k \in 1 .. Len(st) : Y[k] = st[k]
    BY <1>4, <2>2, <2>3, TopOf
  <2>7. ASSUME NEW k \in 1 .. Len(R) PROVE X[k] = Y[k]
    <3>1. k \in DOMAIN R
      BY <1>4, LenProperties
    <3>2. CASE k = n - 1
      BY <1>9, <2>4, <2>6, <3>1, <3>2
    <3>3. CASE k # n - 1
      <4>1. k \in 1 .. Len(st)
        BY <1>4, <1>9, <3>3
      <4> QED
        BY <1>4, <2>4, <2>6, <3>1, <3>3, <4>1
    <3> QED
      BY <3>2, <3>3
  <2> QED
    BY <2>1, <2>2, <2>5, <2>6, <2>7, SeqEqual
<1>11. Peep!IsNumber(b) /\ Peep!IsNumber(a)
  BY DEF Peep!IsNumber
<1>12. Peep!Step(c, v, s) = At0(p + 1, Append(st, a + b))
  <2>1. ~(Len(S) = 0 \/ (Len(S) = 1 /\ "ADD" = "ADD"))
    BY <1>8, <1>9
  <2>2. s.stack[Len(s.stack)] = b /\ s.stack[Len(s.stack) - 1] = a /\ Len(s.stack) = n
    BY <1>5, <1>7, <1>8, <1>9
  <2>3. SubSeq(s.stack, 1, n - 1) = R /\ Append(st, a + b) = [R EXCEPT ![n - 1] = @ + b]
    BY <1>5, <1>7, <1>8, <1>10
  <2> QED
    BY <1>6, <1>7, <1>11, <2>1, <2>2, <2>3 DEF Peep!Step, At0
<1> QED
  BY <1>1, <1>2, <1>3, <1>6, <1>7, <1>12, DoIs, OneStep

-----------------------------------------------------------------------------
(* What a rewriting writes over                                            *)

LEMMA NextIs ==
    ASSUME code \in Seq(Cell), NEW o \in 1 .. Len(code) + 1
    PROVE  LET s == Peep!NextMeaningful(o)
           IN  /\ s \in o .. Len(code) + 1 /\ s \in Nat /\ ~Peep!IsOp(s, "NOP")
               /\ \A k \in o .. s - 1 : k \in DOMAIN code /\ code[k].op = "NOP"
<1>1. Len(code) \in Nat /\ DOMAIN code = 1 .. Len(code)
  BY LenProperties
<1> DEFINE S == {s \in Nat : s \in o .. Len(code) + 1 /\ ~Peep!IsOp(s, "NOP")}
<1>2. Len(code) + 1 \in S
  BY <1>1 DEF Peep!IsOp, Peep!InCode
<1>3. PICK s \in S : \A x \in S : s <= x
  <2>1. S \in SUBSET Nat /\ S # {}
    BY <1>2
  <2> HIDE DEF S
  <2> QED
    BY <2>1, LeastNatural
<1>4. s \in o .. Len(code) + 1 /\ ~Peep!IsOp(s, "NOP") /\ \A k \in o .. s - 1 : Peep!IsOp(k, "NOP")
  <2>1. ASSUME NEW k \in o .. s - 1, ~Peep!IsOp(k, "NOP") PROVE FALSE
    <3>1. k \in o .. Len(code) + 1 /\ k \in Nat /\ ~(s <= k)
      BY <1>1, <1>3
    <3> QED
      BY <1>3, <2>1, <3>1
  <2> QED
    BY <1>3, <2>1
<1> DEFINE Q(t) == ~Peep!IsOp(t, "NOP") /\ \A k \in o .. t - 1 : Peep!IsOp(k, "NOP")
           n == CHOOSE t \in o .. Len(code) + 1 : Q(t)
<1>5. n \in o .. Len(code) + 1 /\ Q(n)
  <2>1. \E t \in o .. Len(code) + 1 : Q(t)
    BY <1>4
  <2> HIDE DEF Q
  <2> QED
    BY <2>1, Zenon
<1>6. n = Peep!NextMeaningful(o)
  BY Zenon DEF Peep!NextMeaningful
<1> HIDE DEF n
<1>7. n \in Nat
  BY <1>1, <1>5
<1> QED
  BY <1>5, <1>6, <1>7 DEF Peep!IsOp, Peep!InCode

\* No jump leads into the cells after o and before end.
Clear(o, end) == \A j \in Peep!Jumps : Peep!Target(j) \notin o + 1 .. end - 1

LEMMA JumpsAre ==
    ASSUME Whole(code), NEW j \in Peep!Jumps
    PROVE  j \in DOMAIN code /\ code[j].op \in JumpOps /\ At(code, Peep!Target(j))
               /\ Peep!Target(j) \in Peep!Protected
<1>1. j \in DOMAIN code /\ code[j].op \in JumpOps /\ code[j].op # "operand"
  BY DEF Peep!Jumps, JumpOps
<1> QED
  BY <1>1 DEF Whole, Peep!Target, Peep!Protected

LEMMA Widths ==
    ASSUME Whole(code), NEW o \in DOMAIN code, code[o].op # "operand"
    PROVE  /\ o \in 1 .. Len(code) /\ Len(code) \in Nat
           /\ Peep!Size(o) = Width(code[o]) /\ Peep!Size(o) \in {1, 2, 3}
           /\ At(code, o) /\ At(code, o + Peep!Size(o)) /\ o + Peep!Size(o) \in 1 .. Len(code) + 1
           /\ \A k \in o + 1 .. o + Peep!Size(o) - 1 : k \in DOMAIN code /\ code[k].op = "operand"
           /\ \A p : At(code, p) => p <= o \/ p >= o + Peep!Size(o)
<1>1. o \in 1 .. Len(code) /\ Len(code) \in Nat /\ code[o] \in Cell /\ DOMAIN code = 1 .. Len(code)
  BY CodeFacts
<1>2. PICK w : w = Width(code[o])
  OBVIOUS
<1>3. w \in {1, 2, 3} /\ Peep!Size(o) = w
  BY <1>1, <1>2, CellFacts DEF Peep!Size, Width, JumpOps
<1>4. At(code, o + w) /\ \A k \in o + 1 .. o + w - 1 : code[k].op = "operand"
  BY <1>2 DEF Whole
<1>5. o + w \in 1 .. Len(code) + 1
  BY <1>4, CodeFacts
<1>6. \A k \in o + 1 .. o + w - 1 : k \in DOMAIN code
  BY <1>1, <1>3, <1>5
<1>7. ASSUME NEW p, At(code, p), ~(p <= o \/ p >= o + w) PROVE FALSE
  <2>1. p \in 1 .. Len(code) + 1
    BY <1>7, CodeFacts
  <2>2. p \in o + 1 .. o + w - 1 /\ p # Len(code) + 1
    BY <1>1, <1>3, <1>5, <1>7, <2>1
  <2> QED
    BY <1>4, <1>7, <2>2 DEF At
<1> QED
  BY <1>1, <1>2, <1>3, <1>4, <1>5, <1>6, <1>7 DEF At

LEMMA Overwritten ==
    ASSUME Whole(code), NEW o \in DOMAIN code, code[o].op # "operand",
           NEW end, At(code, end), o < end, Clear(o, end),
           NEW cells, Whole(cells), Len(cells) <= end - o, \A k \in DOMAIN cells : cells[k].op \notin JumpOps
    PROVE  LET d == Peep!Overwrite(o, end, cells)
           IN  /\ Whole(d) /\ Len(d) = Len(code) /\ DOMAIN d = DOMAIN code
               /\ \A p \in DOMAIN code : p < o \/ p >= end => d[p] = code[p]
               /\ \A p : At(code, p) /\ (p <= o \/ p >= end) => At(d, p)
               /\ \A k \in DOMAIN cells : d[o + k - 1] = cells[k]
               /\ \A p \in o + Len(cells) .. end - 1 : p \in DOMAIN d /\ d[p] = Peep!Nop
<1> DEFINE d == Peep!Overwrite(o, end, cells)
<1>0. PICK n : n = Len(cells)
  OBVIOUS
<1>1. /\ code \in Seq(Cell) /\ Len(code) \in Nat /\ DOMAIN code = 1 .. Len(code)
      /\ o \in 1 .. Len(code) /\ end \in 1 .. Len(code) + 1
      /\ cells \in Seq(Cell) /\ n \in Nat /\ DOMAIN cells = 1 .. n /\ n <= end - o
      /\ \A p \in 1 .. n : cells[p] \in Cell
      /\ \A p \in 1 .. Len(code) : code[p] \in Cell
  BY <1>0, CodeFacts DEF Whole
<1>2. /\ DOMAIN d = DOMAIN code
      /\ \A p \in DOMAIN code : d[p] = CASE p \in o .. o + n - 1 -> cells[p - o + 1]
                                         [] p \in o + n .. end - 1 -> Peep!Nop
                                         [] OTHER -> code[p]
  BY <1>0 DEF Peep!Overwrite
<1> HIDE DEF d
<1>3. /\ \A p \in DOMAIN code : p < o \/ p >= end => d[p] = code[p]
      /\ \A p \in o .. o + n - 1 : p \in DOMAIN code /\ d[p] = cells[p - o + 1] /\ p - o + 1 \in 1 .. n
      /\ \A p \in o + n .. end - 1 : p \in DOMAIN code /\ d[p] = Peep!Nop
  <2>1. \A p \in DOMAIN code : p < o \/ p >= end => p \notin o .. o + n - 1 /\ p \notin o + n .. end - 1
    BY <1>1
  <2>2. \A p \in o .. o + n - 1 : p \in DOMAIN code /\ p - o + 1 \in 1 .. n /\ p \notin o + n .. end - 1
    BY <1>1
  <2>3. \A p \in o + n .. end - 1 : p \in DOMAIN code /\ p \notin o .. o + n - 1
    BY <1>1
  <2> QED
    BY <1>2, <2>1, <2>2, <2>3
<1>4. /\ d \in Seq(Cell) /\ Len(d) = Len(code)
  <2>1. ASSUME NEW p \in 1 .. Len(code) PROVE d[p] \in Cell
    <3>1. p < o \/ p >= end \/ p \in o .. o + n - 1 \/ p \in o + n .. end - 1
      BY <1>1
    <3> QED
      BY <1>1, <1>3, <3>1, SomeCells
  <2>2. d = [p \in 1 .. Len(code) |-> d[p]]
    BY <1>1, <1>2 DEF d, Peep!Overwrite
  <2>3. d \in [1 .. Len(code) -> Cell]
    BY <2>1, <2>2
  <2>4. d \in Seq(Cell)
    BY <1>1, <2>3, IsASeq
  <2>5. DOMAIN d = 1 .. Len(d) /\ Len(d) \in Nat
    BY <2>4, LenProperties
  <2>6. Len(d) = Len(code)
    BY <1>1, <1>2, <2>5
  <2> QED
    BY <2>4, <2>6
<1>5. At(d, o)
  <2>1. CASE n = 0
    <3>1. o \in o + n .. end - 1
      BY <1>1, <2>1
    <3> QED
      BY <1>2, <1>3, <3>1, SomeCells DEF At
  <2>2. CASE n # 0
    <3>1. o \in o .. o + n - 1 /\ o - o + 1 = 1 /\ 1 \in 1 .. n /\ 1 # n + 1
      BY <1>1, <2>2
    <3>2. cells[1].op # "operand"
      BY <1>0, <3>1 DEF Whole, At
    <3> QED
      BY <1>2, <1>3, <3>1, <3>2 DEF At
  <2> QED
    BY <2>1, <2>2
<1>6. ASSUME NEW p, At(code, p), p <= o \/ p >= end PROVE At(d, p)
  <2>1. p \in 1 .. Len(code) + 1
    BY <1>6, CodeFacts
  <2>2. p = o \/ p < o \/ p >= end
    BY <1>1, <1>6, <2>1
  <2>3. CASE p = Len(code) + 1
    BY <1>4, <2>3 DEF At
  <2>4. CASE p # Len(code) + 1
    BY <1>2, <1>3, <1>5, <1>6, <2>2, <2>4 DEF At
  <2> QED
    BY <2>3, <2>4
<1>7. ASSUME NEW q, At(cells, q) PROVE At(d, o + q - 1)
  <2>1. q \in 1 .. n + 1
    BY <1>0, <1>7, CodeFacts
  <2>2. CASE q # n + 1
    <3>1. q \in 1 .. n /\ o + q - 1 \in o .. o + n - 1 /\ (o + q - 1) - o + 1 = q
      BY <1>1, <2>1, <2>2
    <3>2. cells[q].op # "operand"
      BY <1>0, <1>7, <2>2 DEF At
    <3> QED
      BY <1>2, <1>3, <3>1, <3>2 DEF At
  <2>3. CASE q = n + 1 /\ o + n = end
    <3>1. o + q - 1 = end
      BY <1>1, <2>3
    <3>2. end <= o \/ end >= end
      BY <1>1
    <3> QED
      BY <1>6, <3>1, <3>2
  <2>4. CASE q = n + 1 /\ o + n # end
    <3>1. o + q - 1 = o + n /\ o + n \in o + n .. end - 1
      BY <1>1, <2>4
    <3> QED
      BY <1>2, <1>3, <3>1, SomeCells DEF At
  <2> QED
    BY <2>2, <2>3, <2>4
<1>8. ASSUME NEW p \in DOMAIN d, d[p].op # "operand"
      PROVE  /\ At(d, p + Width(d[p]))
             /\ \A k \in p + 1 .. p + Width(d[p]) - 1 : d[k].op = "operand"
             /\ d[p].op \in JumpOps => At(d, p + 3 + d[p].by)
  <2>0. p \in 1 .. Len(code)
    BY <1>1, <1>2
  <2>1. CASE p < o \/ p >= end
    <3>1. d[p] = code[p] /\ p \in DOMAIN code /\ code[p].op # "operand"
      BY <1>2, <1>3, <1>8, <2>1
    <3>2. PICK w : w = Peep!Size(p)
      OBVIOUS
    <3>3. /\ w \in {1, 2, 3} /\ w = Width(code[p]) /\ At(code, p + w)
          /\ \A k \in p + 1 .. p + w - 1 : k \in DOMAIN code /\ code[k].op = "operand"
          /\ o <= p \/ o >= p + w
      <4>1. At(code, o)
        BY DEF At
      <4> QED
        BY <3>1, <3>2, <4>1, Widths
    <3>4. p + w <= o \/ (p >= end /\ p + w >= end)
      BY <1>1, <2>0, <2>1, <3>3
    <3>5. At(d, p + w)
      BY <1>6, <3>3, <3>4
    <3>6. ASSUME NEW k \in p + 1 .. p + w - 1 PROVE d[k].op = "operand"
      <4>1. k < o \/ k >= end
        BY <1>1, <2>0, <3>3, <3>4
      <4> QED
        BY <1>3, <3>3, <4>1
    <3>7. ASSUME d[p].op \in JumpOps PROVE At(d, p + 3 + d[p].by)
      <4>1. p \in Peep!Jumps
        BY <3>1, <3>7 DEF Peep!Jumps, JumpOps
      <4>2. At(code, Peep!Target(p)) /\ Peep!Target(p) \notin o + 1 .. end - 1
                /\ Peep!Target(p) = p + 3 + d[p].by
        BY <3>1, <4>1, JumpsAre DEF Clear, Peep!Target
      <4>3. Peep!Target(p) \in 1 .. Len(code) + 1
        BY <4>2, CodeFacts
      <4>4. Peep!Target(p) <= o \/ Peep!Target(p) >= end
        BY <1>1, <4>2, <4>3
      <4> QED
        BY <1>6, <4>2, <4>4
    <3> QED
      BY <3>1, <3>3, <3>5, <3>6, <3>7
  <2>2. CASE p \in o .. o + n - 1
    <3>1. PICK q : q = p - o + 1
      OBVIOUS
    <3>2. q \in 1 .. n /\ d[p] = cells[q] /\ p = o + q - 1 /\ cells[q] \in Cell /\ cells[q].op # "operand"
      BY <1>1, <1>3, <1>8, <2>0, <2>2, <3>1
    <3>3. PICK w : w = Width(cells[q])
      OBVIOUS
    <3>4. /\ w \in {1, 2, 3} /\ At(cells, q + w) /\ cells[q].op \notin JumpOps
          /\ \A k \in q + 1 .. q + w - 1 : cells[k].op = "operand"
      <4>1. w \in {1, 2, 3}
        BY <3>2, <3>3, CellFacts
      <4>2. q \in DOMAIN cells /\ cells[q].op # "operand"
        BY <1>1, <3>2
      <4> QED
        BY <3>3, <4>1, <4>2 DEF Whole
    <3>5. q + w \in 1 .. n + 1
      BY <1>0, <3>4, CodeFacts
    <3>6. o + (q + w) - 1 = p + w
      BY <1>1, <3>2, <3>4
    <3>7. At(d, p + w)
      BY <1>7, <3>4, <3>6
    <3>8. ASSUME NEW k \in p + 1 .. p + w - 1 PROVE d[k].op = "operand"
      <4>1. o \in Int /\ n \in Int /\ q \in Int /\ w \in Int /\ k \in Int
        BY <1>1, <3>2, <3>4
      <4>2. 1 <= q /\ q + w <= n + 1 /\ p = o + q - 1
        BY <3>2, <3>5
      <4>3. p + 1 <= k /\ k <= p + w - 1
        BY <4>1, <4>2
      <4>4. k \in o .. o + n - 1 /\ k - o + 1 \in q + 1 .. q + w - 1
        BY <4>1, <4>2, <4>3
      <4> QED
        BY <1>3, <3>4, <4>4
    <3> QED
      BY <3>2, <3>3, <3>4, <3>7, <3>8
  <2>3. CASE p \in o + n .. end - 1
    <3>1. d[p] = Peep!Nop /\ d[p].op = "NOP" /\ Width(d[p]) = 1
      BY <1>3, <2>3, SomeCells DEF Width, JumpOps
    <3>2. At(d, p + 1)
      <4>1. CASE p + 1 = end
        <5>1. end >= end
          BY <1>1
        <5> QED
          BY <1>6, <4>1, <5>1
      <4>2. CASE p + 1 # end
        <5>1. p + 1 \in o + n .. end - 1
          BY <1>1, <2>0, <2>3, <4>2
        <5> QED
          BY <1>2, <1>3, <5>1, SomeCells DEF At
      <4> QED
        BY <4>1, <4>2
    <3> QED
      BY <2>0, <3>1, <3>2 DEF JumpOps
  <2> QED
    BY <1>1, <2>0, <2>1, <2>2, <2>3
<1>9. At(d, 1)
  BY <1>1, <1>6 DEF Whole
<1>10. Whole(d)
  BY <1>4, <1>8, <1>9, Zenon DEF Whole
<1>11. \A k \in DOMAIN cells : d[o + k - 1] = cells[k]
  <2>1. \A k \in DOMAIN cells : o + k - 1 \in o .. o + n - 1 /\ (o + k - 1) - o + 1 = k
    BY <1>1
  <2> QED
    BY <1>3, <2>1
<1> QED
  BY <1>0, <1>2, <1>3, <1>4, <1>6, <1>10, <1>11 DEF d

-----------------------------------------------------------------------------
(* Rewritings keep the outcome                                             *)

LEMMA SameStep ==
    ASSUME NEW c, NEW d, NEW v, NEW s, Running(c, s), Len(c) = Len(d), c[s.at] = d[s.at]
    PROVE  Do(d, v, s) = Peep!Step(c, v, s)
<1>1. Peep!Step(c, v, s) = Peep!Step(d, v, s)
  BY DEF Peep!Step
<1> QED
  BY <1>1 DEF Do, Running

(* A run of the new code that comes to the cells written over goes on     *)
(* after them as one of the old code does.                                *)
LEMMA Rewritten ==
    ASSUME Whole(code), NEW o \in DOMAIN code, code[o].op # "operand",
           NEW end, At(code, end), o < end, Clear(o, end),
           NEW d, Whole(d), Len(d) = Len(code),
           \A p \in DOMAIN code : p < o \/ p >= end => d[p] = code[p],
           \A p : At(code, p) /\ (p <= o \/ p >= end) => At(d, p),
           NEW v \in Int,
           \A st \in Seq(Int) : \E r \in Seq(Int) :
               Leads(code, v, At0(o, st), At0(end, r)) /\ Leads(d, v, At0(o, st), At0(end, r))
    PROVE  Peep!Outcome(code, v) = Peep!Outcome(d, v)
<1> DEFINE W == {s \in States(code) : s.end = "none" => s.at <= o \/ s.at >= end}
<1>1. o \in 1 .. Len(code) /\ end \in 1 .. Len(code) + 1 /\ Len(code) \in Nat
          /\ DOMAIN code = 1 .. Len(code)
  BY CodeFacts
<1>2. W \subseteq States(code)
  OBVIOUS
<1>3. W \subseteq States(d)
  <2> SUFFICES ASSUME NEW s \in W PROVE s \in States(d)
    OBVIOUS
  <2>1. s \in [at : Nat, stack : Seq(Int), end : {"none", "underflow", "error"}]
    BY DEF States
  <2>2. s.end = "none" => At(code, s.at) /\ (s.at <= o \/ s.at >= end)
    BY DEF States
  <2>3. s.end = "none" => At(d, s.at)
    BY <2>2
  <2> QED
    BY <2>1, <2>3 DEF States
<1>4. Start \in W
  <2>1. Start \in States(code) /\ Start.at = 1
    BY StartIs DEF Start
  <2>2. 1 <= o
    BY <1>1
  <2> QED
    BY <2>1, <2>2
<1>5. ASSUME NEW s \in W, Running(code, s)
      PROVE  \E g \in W : Leads(code, v, s, g) /\ Leads(d, v, s, g) /\ (g.end = "none" => g.at > s.at)
  <2>1. /\ s \in States(code) /\ s.end = "none" /\ s = At0(s.at, s.stack) /\ s.stack \in Seq(Int)
        /\ s.at \in Nat /\ At(code, s.at) /\ ~(s.at > Len(code)) /\ (s.at <= o \/ s.at >= end)
    BY <1>5, StateIs DEF Running
  <2>2. CASE s.at = o
    <3>1. PICK r \in Seq(Int) :
              Leads(code, v, At0(o, s.stack), At0(end, r)) /\ Leads(d, v, At0(o, s.stack), At0(end, r))
      BY <2>1
    <3>2. PICK g \in States(code) : g = At0(end, r)
      BY IsState
    <3>3. g.at = end /\ g.end = "none"
      BY <3>2, IsState
    <3>4. g \in W /\ g.at > s.at
      <4>1. end >= end /\ end > o
        BY <1>1
      <4> QED
        BY <2>2, <3>3, <4>1
    <3> HIDE DEF W
    <3> QED
      BY <2>1, <2>2, <3>1, <3>2, <3>4
  <2>3. CASE s.at # o
    <3>1. PICK g : g = Peep!Step(code, v, s)
      OBVIOUS
    <3>2. PICK i : i = code[s.at]
      OBVIOUS
    <3>3. /\ g \in States(code)
          /\ i \in Cell /\ i.op # "operand" /\ s.at \in 1 .. Len(code)
          /\ g.end = "none" => g.at \in {s.at + Width(i)}
                 \union (IF i.op \in JumpOps THEN {s.at + 3 + i.by} ELSE {})
          /\ g.end = "none" => g.at > s.at
      BY <1>5, <2>1, <3>1, <3>2, StepIs
    <3>4. s.at \in DOMAIN code /\ d[s.at] = code[s.at]
      <4>1. s.at \in DOMAIN code /\ (s.at < o \/ s.at >= end)
        BY <1>1, <2>1, <2>3, <3>3
      <4> QED
        BY <4>1
    <3>5. Leads(code, v, s, g) /\ Leads(d, v, s, g)
      <4>1. Do(code, v, s) = g
        BY <1>5, <2>1, <3>1, DoIs
      <4>2. Do(d, v, s) = g
        BY <1>5, <3>1, <3>4, SameStep
      <4>3. s \in States(d)
        BY <1>3, <1>5
      <4> QED
        BY <2>1, <4>1, <4>2, <4>3, OneStep
    <3>6. ASSUME g.end = "none" PROVE g.at <= o \/ g.at >= end
      <4>1. PICK w : w = Width(i)
        OBVIOUS
      <4>2. w \in {1, 2, 3} /\ (o <= s.at \/ o >= s.at + w)
        <5>1. At(code, o)
          BY DEF At
        <5> QED
          BY <3>2, <3>3, <3>4, <4>1, <5>1, Widths
      <4>3. CASE g.at = s.at + w
        <5>1. PICK a : a = s.at
          OBVIOUS
        <5>2. a \in Int /\ o \in Int /\ end \in Int /\ a # o /\ (a <= o \/ a >= end)
          BY <1>1, <2>1, <2>3, <5>1
        <5>3. a + w <= o \/ a + w >= end
          BY <4>2, <5>1, <5>2
        <5> QED
          BY <4>3, <5>1, <5>3
      <4>4. CASE i.op \in JumpOps /\ g.at = s.at + 3 + i.by
        <5>1. s.at \in Peep!Jumps /\ g.at = Peep!Target(s.at)
          BY <3>2, <3>4, <4>4 DEF Peep!Jumps, JumpOps, Peep!Target
        <5>2. g.at \notin o + 1 .. end - 1
          BY <5>1 DEF Clear
        <5>3. g.at \in Nat
          BY <3>3 DEF States
        <5> QED
          BY <1>1, <5>2, <5>3
      <4> QED
        BY <3>3, <3>6, <4>1, <4>3, <4>4
    <3>7. g \in W
      BY <3>3, <3>6
    <3> HIDE DEF W
    <3> QED
      BY <3>3, <3>5, <3>7
  <2> QED
    BY <2>2, <2>3
<1> HIDE DEF W
<1> QED
  BY <1>2, <1>3, <1>4, <1>5, SameRuns

\* Writing over the cells from o to the one before end changes no outcome.
KeepsMeaning(o, end, cells) ==
    LET d == Peep!Overwrite(o, end, cells)
    IN  Whole(d) /\ \A v \in Int : Peep!Outcome(code, v) = Peep!Outcome(d, v)

(* What a rewriting spans is clear of jumps if none leads to the NOPs.    *)
LEMMA Spanned ==
    ASSUME Whole(code), NEW o \in DOMAIN code, code[o].op # "operand",
           NEW end, ~\E t \in Peep!Protected \cap o + 1 .. end - 1 : Peep!IsOp(t, "NOP"),
           \A k \in o + 1 .. end - 1 :
               k \in DOMAIN code /\ (code[k].op = "operand" \/ code[k].op = "NOP" \/ k \notin Peep!Protected)
    PROVE  Clear(o, end)
<1> SUFFICES ASSUME NEW j \in Peep!Jumps, Peep!Target(j) \in o + 1 .. end - 1 PROVE FALSE
  BY DEF Clear
<1>1. At(code, Peep!Target(j)) /\ Peep!Target(j) \in Peep!Protected
  BY JumpsAre
<1>2. Peep!Target(j) \in DOMAIN code
          /\ (code[Peep!Target(j)].op = "operand" \/ code[Peep!Target(j)].op = "NOP")
  BY <1>1
<1>3. Peep!Target(j) # Len(code) + 1
  BY <1>2, CodeFacts
<1>4. code[Peep!Target(j)].op # "operand"
  BY <1>1, <1>3 DEF At
<1> QED
  BY <1>1, <1>2, <1>4 DEF Peep!IsOp, Peep!InCode

(* Cells that leave the stack alone are taken out. *)
LEMMA TakenOut ==
    ASSUME Whole(code), NEW o \in DOMAIN code, code[o].op # "operand",
           NEW end, At(code, end), o < end, Clear(o, end),
           \A v \in Int, st \in Seq(Int) : Leads(code, v, At0(o, st), At0(end, st))
    PROVE  KeepsMeaning(o, end, <<>>)
<1> DEFINE cells == <<>>
<1>1. PICK d : d = Peep!Overwrite(o, end, cells)
  OBVIOUS
<1>2. o \in 1 .. Len(code) /\ end \in 1 .. Len(code) + 1 /\ Len(code) \in Nat /\ o \in Nat /\ end \in Nat
  BY CodeFacts
<1>3. cells \in Seq(Cell) /\ Len(cells) = 0 /\ DOMAIN cells = {}
  OBVIOUS
<1>4. Whole(cells) /\ Len(cells) <= end - o
  BY <1>2, <1>3 DEF Whole, At
<1> HIDE DEF cells
<1>5. /\ Whole(d) /\ Len(d) = Len(code) /\ DOMAIN d = DOMAIN code
      /\ \A p \in DOMAIN code : p < o \/ p >= end => d[p] = code[p]
      /\ \A p : At(code, p) /\ (p <= o \/ p >= end) => At(d, p)
      /\ \A p \in o + Len(cells) .. end - 1 : p \in DOMAIN d /\ d[p] = Peep!Nop
  BY <1>1, <1>3, <1>4, Overwritten
<1>6. o + Len(cells) = o
  BY <1>2, <1>3
<1>7. \A k \in o .. end - 1 : k \in DOMAIN d /\ d[k].op = "NOP"
  BY <1>5, <1>6, SomeCells
<1>8. At(d, o)
  <2>1. At(code, o) /\ o <= o
    BY <1>2 DEF At
  <2> QED
    BY <1>5, <2>1
<1>9. ASSUME NEW v \in Int, NEW st \in Seq(Int)
      PROVE  \E r \in Seq(Int) :
               Leads(code, v, At0(o, st), At0(end, r)) /\ Leads(d, v, At0(o, st), At0(end, r))
  <2>1. o <= end
    BY <1>2
  <2>2. Leads(d, v, At0(o, st), At0(end, st))
    BY <1>2, <1>5, <1>7, <1>8, <2>1, PassNops
  <2> QED
    BY <2>2
<1>10. ASSUME NEW v \in Int PROVE Peep!Outcome(code, v) = Peep!Outcome(d, v)
  <2>1. \A st \in Seq(Int) : \E r \in Seq(Int) :
            Leads(code, v, At0(o, st), At0(end, r)) /\ Leads(d, v, At0(o, st), At0(end, r))
    BY <1>9
  <2>2. Whole(d) /\ Len(d) = Len(code)
    BY <1>5
  <2>3. /\ \A p \in DOMAIN code : p < o \/ p >= end => d[p] = code[p]
        /\ \A p : At(code, p) /\ (p <= o \/ p >= end) => At(d, p)
    BY <1>5
  <2> QED
    BY <2>1, <2>2, <2>3, Rewritten
<1> QED
  BY <1>1, <1>5, <1>10 DEF KeepsMeaning, cells

(* Cells that push a value are replaced by a push of it. *)
LEMMA Folded ==
    ASSUME Whole(code), NEW o \in DOMAIN code, code[o].op # "operand",
           NEW end, At(code, end), o < end, Clear(o, end),
           NEW x \in Nat \union {Peep!True, Peep!False}, Len(Peep!Push(x)) <= end - o,
           \A v \in Int, st \in Seq(Int) : Leads(code, v, At0(o, st), At0(end, Append(st, x)))
    PROVE  KeepsMeaning(o, end, Peep!Push(x))
<1>0. PICK cells : cells = Peep!Push(x)
  OBVIOUS
<1>1. PICK d : d = Peep!Overwrite(o, end, cells)
  OBVIOUS
<1>2. o \in 1 .. Len(code) /\ end \in 1 .. Len(code) + 1 /\ Len(code) \in Nat /\ o \in Nat /\ end \in Nat
  BY CodeFacts
<1>3. /\ cells \in Seq(Cell) /\ Whole(cells) /\ \A k \in DOMAIN cells : cells[k].op \notin JumpOps
      /\ Len(cells) = Width(cells[1]) /\ cells[1].op \in {"TRUE", "FALSE", "CONSTANT"} /\ cells[1].value = x
      /\ Len(cells) \in {1, 2} /\ Len(cells) <= end - o
  BY <1>0, PushIs
<1>4. 1 \in DOMAIN cells
  <2>1. DOMAIN cells = 1 .. Len(cells)
    BY <1>3, LenProperties
  <2> QED
    BY <1>3, <2>1
<1>5. /\ Whole(d) /\ Len(d) = Len(code) /\ DOMAIN d = DOMAIN code
      /\ \A p \in DOMAIN code : p < o \/ p >= end => d[p] = code[p]
      /\ \A p : At(code, p) /\ (p <= o \/ p >= end) => At(d, p)
      /\ \A k \in DOMAIN cells : d[o + k - 1] = cells[k]
      /\ \A p \in o + Len(cells) .. end - 1 : p \in DOMAIN d /\ d[p] = Peep!Nop
  BY <1>1, <1>3, Overwritten
<1>6. d[o] = cells[1]
  <2>1. o + 1 - 1 = o
    BY <1>2
  <2> QED
    BY <1>4, <1>5, <2>1
<1>7. PICK w : w = Width(d[o])
  OBVIOUS
<1>8. w = Len(cells) /\ w \in {1, 2}
  BY <1>3, <1>6, <1>7
<1>9. o + w <= end
  BY <1>2, <1>3, <1>8
<1>10. \A k \in o + w .. end - 1 : k \in DOMAIN d /\ d[k].op = "NOP"
  BY <1>5, <1>8, SomeCells
<1>11. o \in DOMAIN d /\ d[o].op \in {"TRUE", "FALSE", "CONSTANT"} /\ d[o].value = x
  BY <1>3, <1>5, <1>6
<1>12. ASSUME NEW v \in Int, NEW st \in Seq(Int)
       PROVE  \E r \in Seq(Int) :
                Leads(code, v, At0(o, st), At0(end, r)) /\ Leads(d, v, At0(o, st), At0(end, r))
  <2>1. Append(st, x) \in Seq(Int) /\ Leads(d, v, At0(o, st), At0(end, Append(st, x)))
    BY <1>2, <1>5, <1>7, <1>9, <1>10, <1>11, PushAndNops
  <2> QED
    BY <2>1
<1>13. ASSUME NEW v \in Int PROVE Peep!Outcome(code, v) = Peep!Outcome(d, v)
  <2>1. \A st \in Seq(Int) : \E r \in Seq(Int) :
            Leads(code, v, At0(o, st), At0(end, r)) /\ Leads(d, v, At0(o, st), At0(end, r))
    BY <1>12
  <2>2. Whole(d) /\ Len(d) = Len(code)
    BY <1>5
  <2>3. /\ \A p \in DOMAIN code : p < o \/ p >= end => d[p] = code[p]
        /\ \A p : At(code, p) /\ (p <= o \/ p >= end) => At(d, p)
    BY <1>5
  <2> QED
    BY <2>1, <2>2, <2>3, Rewritten
<1> QED
  BY <1>0, <1>1, <1>5, <1>13 DEF KeepsMeaning

(* A push, with the NOPs up to the next instruction. *)
LEMMA PushedBefore ==
    ASSUME Whole(code), NEW o, Peep!Decodes(o)
    PROVE  LET p == Peep!Second(o)
           IN  /\ o \in DOMAIN code /\ o \in Nat /\ code[o].op # "operand" /\ Peep!Size(o) \in {1, 2}
               /\ (code[o].op = "CONSTANT" => Peep!Size(o) = 2)
               /\ code[o].value \in Nat \union {Peep!True, Peep!False}
                      /\ (Peep!IsNumber(code[o].value) => code[o].op = "CONSTANT")
               /\ p \in Nat /\ p \in o + Peep!Size(o) .. Len(code) + 1 /\ At(code, p)
               /\ \A k \in o + 1 .. p - 1 : k \in DOMAIN code
                      /\ (code[k].op = "operand" \/ code[k].op = "NOP")
               /\ \A v \in Int, st \in Seq(Int) :
                     Append(st, code[o].value) \in Seq(Int)
                     /\ Leads(code, v, At0(o, st), At0(p, Append(st, code[o].value)))
<1>1. o \in DOMAIN code /\ code[o].op \in {"TRUE", "FALSE", "CONSTANT"} /\ code[o].op # "operand"
  BY DEF Peep!Decodes, Peep!InCode
<1>2. code \in Seq(Cell) /\ Len(code) \in Nat /\ o \in 1 .. Len(code) /\ code[o] \in Cell
  BY <1>1, CodeFacts DEF Whole
<1>3. PICK w : w = Peep!Size(o)
  OBVIOUS
<1>4. /\ w = Width(code[o]) /\ At(code, o + w) /\ o + w \in 1 .. Len(code) + 1
      /\ \A k \in o + 1 .. o + w - 1 : k \in DOMAIN code /\ code[k].op = "operand"
  BY <1>1, <1>3, Widths
<1>5. w \in {1, 2} /\ (code[o].op = "CONSTANT" => w = 2)
  BY <1>1, <1>4 DEF Width, JumpOps
<1>6. code[o].value \in Nat \union {Peep!True, Peep!False} /\ (Peep!IsNumber(code[o].value)
          => code[o].op = "CONSTANT")
  <2>1. code[o].op \in {"TRUE", "FALSE"}
            => code[o].value \in {Peep!True, Peep!False} /\ ~(code[o].value >= 0)
    BY <1>2, CellFacts DEF Peep!True, Peep!False
  <2>2. code[o].op = "CONSTANT" => code[o].value \in Nat
    BY <1>2, CellFacts
  <2> QED
    BY <1>1, <2>1, <2>2 DEF Peep!IsNumber
<1>7. PICK p : p = Peep!Second(o)
  OBVIOUS
<1>8. /\ p \in o + w .. Len(code) + 1 /\ p \in Nat
      /\ \A k \in o + w .. p - 1 : k \in DOMAIN code /\ code[k].op = "NOP"
  <2>1. p = Peep!NextMeaningful(o + w)
    BY <1>3, <1>7 DEF Peep!Second
  <2> QED
    BY <1>2, <1>4, <2>1, NextIs
<1>9. ASSUME NEW v \in Int, NEW st \in Seq(Int)
      PROVE  /\ At(code, p) /\ Append(st, code[o].value) \in Seq(Int)
             /\ Leads(code, v, At0(o, st), At0(p, Append(st, code[o].value)))
  <2>1. o + w <= p
    BY <1>2, <1>5, <1>8
  <2> QED
    BY <1>1, <1>4, <1>8, <2>1, PushAndNops
<1>10. At(code, p)
  <2>1. 0 \in Int /\ <<>> \in Seq(Int)
    OBVIOUS
  <2> QED
    BY <1>9, <2>1
<1>11. \A k \in o + 1 .. p - 1 : k \in DOMAIN code /\ (code[k].op = "operand" \/ code[k].op = "NOP")
  <2>1. \A k \in o + 1 .. p - 1 : k \in o + 1 .. o + w - 1 \/ k \in o + w .. p - 1
    BY <1>2, <1>5, <1>8
  <2> QED
    BY <1>4, <1>8, <2>1
<1> QED
  BY <1>1, <1>2, <1>3, <1>5, <1>6, <1>7, <1>8, <1>9, <1>10, <1>11

LEMMA RemoveDeadPushIsRight ==
    ASSUME Whole(code), NEW o, Peep!PoppedAtOnce(o),
           NEW end, end = Peep!Second(o) + 1, ~\E t \in Peep!Protected \cap o + 1 .. end - 1 : Peep!IsOp(t, "NOP")
    PROVE  KeepsMeaning(o, end, <<>>)
<1>1. PICK p : p = Peep!Second(o)
  OBVIOUS
<1>2. Peep!Decodes(o) /\ p \in DOMAIN code /\ code[p].op = "POP" /\ p \notin Peep!Protected
  BY <1>1 DEF Peep!PoppedAtOnce, Peep!Free, Peep!IsOp, Peep!InCode
<1>3. /\ o \in DOMAIN code /\ o \in Nat /\ code[o].op # "operand" /\ Peep!Size(o) \in {1, 2}
      /\ code[o].value \in Nat \union {Peep!True, Peep!False}
      /\ p \in Nat /\ p \in o + Peep!Size(o) .. Len(code) + 1
      /\ \A k \in o + 1 .. p - 1 : k \in DOMAIN code /\ (code[k].op = "operand" \/ code[k].op = "NOP")
      /\ \A v \in Int, st \in Seq(Int) : Leads(code, v, At0(o, st), At0(p, Append(st, code[o].value)))
  BY <1>1, <1>2, PushedBefore
<1>4. code[o].value \in Int
  BY <1>3 DEF Peep!True, Peep!False
<1>5. ASSUME NEW v \in Int, NEW st \in Seq(Int)
      PROVE  At(code, p + 1) /\ Leads(code, v, At0(o, st), At0(p + 1, st))
  BY <1>2, <1>3, <1>4, PopStep, LeadsFrom
<1>6. At(code, p + 1)
  <2>1. 0 \in Int /\ <<>> \in Seq(Int)
    OBVIOUS
  <2> QED
    BY <1>5, <2>1
<1>7. o < p + 1 /\ (p + 1) - 1 = p
  BY <1>3
<1>8. Clear(o, p + 1)
  <2>1. \A k \in o + 1 .. (p + 1) - 1 :
            k \in DOMAIN code /\ (code[k].op = "operand" \/ code[k].op = "NOP" \/ k \notin Peep!Protected)
    <3>1. \A k \in o + 1 .. (p + 1) - 1 : k = p \/ k \in o + 1 .. p - 1
      BY <1>3
    <3> QED
      BY <1>2, <1>3, <3>1
  <2>2. end = p + 1
    BY <1>1
  <2>3. \A k \in o + 1 .. end - 1 :
            k \in DOMAIN code /\ (code[k].op = "operand" \/ code[k].op = "NOP" \/ k \notin Peep!Protected)
    BY <2>1, <2>2, Zenon
  <2> QED
    BY <1>3, <2>2, <2>3, Spanned
<1> QED
  BY <1>1, <1>3, <1>5, <1>6, <1>7, <1>8, TakenOut

LEMMA FoldNotIsRight ==
    ASSUME Whole(code), NEW o, Peep!Negated(o),
           NEW end, end = Peep!Second(o) + 1, ~\E t \in Peep!Protected \cap o + 1 .. end - 1 : Peep!IsOp(t, "NOP")
    PROVE  KeepsMeaning(o, end, Peep!Push(Peep!Negation(code[o].value)))
<1>1. PICK p : p = Peep!Second(o)
  OBVIOUS
<1>2. Peep!Decodes(o) /\ p \in DOMAIN code /\ code[p].op = "NOT" /\ p \notin Peep!Protected
  BY <1>1 DEF Peep!Negated, Peep!Free, Peep!IsOp, Peep!InCode
<1>3. /\ o \in DOMAIN code /\ o \in Nat /\ code[o].op # "operand" /\ Peep!Size(o) \in {1, 2}
      /\ code[o].value \in Nat \union {Peep!True, Peep!False}
      /\ p \in Nat /\ p \in o + Peep!Size(o) .. Len(code) + 1
      /\ \A k \in o + 1 .. p - 1 : k \in DOMAIN code /\ (code[k].op = "operand" \/ code[k].op = "NOP")
      /\ \A v \in Int, st \in Seq(Int) : Leads(code, v, At0(o, st), At0(p, Append(st, code[o].value)))
  BY <1>1, <1>2, PushedBefore
<1>4. code[o].value \in Int
  BY <1>3 DEF Peep!True, Peep!False
<1>5. PICK x : x = Peep!Negation(code[o].value)
  OBVIOUS
<1>6. x \in {Peep!True, Peep!False} /\ x \notin Nat
  BY <1>5 DEF Peep!Negation, Peep!True, Peep!False
<1>7. ASSUME NEW v \in Int, NEW st \in Seq(Int)
      PROVE  At(code, p + 1) /\ Leads(code, v, At0(o, st), At0(p + 1, Append(st, x)))
  BY <1>2, <1>3, <1>4, <1>5, NotStep, LeadsFrom
<1>8. At(code, p + 1)
  <2>1. 0 \in Int /\ <<>> \in Seq(Int)
    OBVIOUS
  <2> QED
    BY <1>7, <2>1
<1>9. o < p + 1 /\ (p + 1) - 1 = p
  BY <1>3
<1>10. Clear(o, p + 1)
  <2>1. \A k \in o + 1 .. (p + 1) - 1 :
            k \in DOMAIN code /\ (code[k].op = "operand" \/ code[k].op = "NOP" \/ k \notin Peep!Protected)
    <3>1. \A k \in o + 1 .. (p + 1) - 1 : k = p \/ k \in o + 1 .. p - 1
      BY <1>3
    <3> QED
      BY <1>2, <1>3, <3>1
  <2>2. end = p + 1
    BY <1>1
  <2>3. \A k \in o + 1 .. end - 1 :
            k \in DOMAIN code /\ (code[k].op = "operand" \/ code[k].op = "NOP" \/ k \notin Peep!Protected)
    BY <2>1, <2>2, Zenon
  <2> QED
    BY <1>3, <2>2, <2>3, Spanned
<1>11. Len(Peep!Push(x)) <= (p + 1) - o
  <2>1. Len(Peep!Push(x)) = 1
    BY <1>6, PushIs
  <2> QED
    BY <1>3, <2>1
<1> QED
  BY <1>1, <1>3, <1>5, <1>6, <1>7, <1>8, <1>9, <1>10, <1>11, Folded

LEMMA FoldAddIsRight ==
    ASSUME Whole(code), NEW o, Peep!Added(o),
           NEW end, end = Peep!Third(o) + 1, ~\E t \in Peep!Protected \cap o + 1 .. end - 1 : Peep!IsOp(t, "NOP")
    PROVE  KeepsMeaning(o, end, Peep!Push(code[o].value + code[Peep!Second(o)].value))
<1>1. PICK p : p = Peep!Second(o)
  OBVIOUS
<1>2. PICK r : r = Peep!Third(o)
  OBVIOUS
<1>3. r = Peep!Second(p)
  BY <1>1, <1>2 DEF Peep!Third, Peep!Second
<1>4. /\ Peep!Decodes(o) /\ Peep!Decodes(p) /\ p \notin Peep!Protected
      /\ r \in DOMAIN code /\ code[r].op = "ADD" /\ r \notin Peep!Protected
      /\ Peep!IsNumber(code[o].value) /\ Peep!IsNumber(code[p].value)
  BY <1>1, <1>2 DEF Peep!Added, Peep!Free, Peep!IsOp, Peep!InCode
<1>5. /\ o \in DOMAIN code /\ o \in Nat /\ code[o].op # "operand" /\ Peep!Size(o) = 2
      /\ code[o].value \in Nat \union {Peep!True, Peep!False}
      /\ p \in Nat /\ p \in o + Peep!Size(o) .. Len(code) + 1
      /\ \A k \in o + 1 .. p - 1 : k \in DOMAIN code /\ (code[k].op = "operand" \/ code[k].op = "NOP")
      /\ \A v \in Int, st \in Seq(Int) :
            Append(st, code[o].value) \in Seq(Int)
            /\ Leads(code, v, At0(o, st), At0(p, Append(st, code[o].value)))
  BY <1>1, <1>4, PushedBefore
<1>6. /\ p \in DOMAIN code /\ Peep!Size(p) \in {1, 2}
      /\ code[p].value \in Nat \union {Peep!True, Peep!False}
      /\ r \in Nat /\ r \in p + Peep!Size(p) .. Len(code) + 1
      /\ \A k \in p + 1 .. r - 1 : k \in DOMAIN code /\ (code[k].op = "operand" \/ code[k].op = "NOP")
      /\ \A v \in Int, st \in Seq(Int) : Leads(code, v, At0(p, st), At0(r, Append(st, code[p].value)))
  BY <1>3, <1>4, PushedBefore
<1>7. code[o].value \in Nat /\ code[p].value \in Nat
  BY <1>4, <1>5, <1>6 DEF Peep!True, Peep!False, Peep!IsNumber
<1>8. PICK x : x = code[o].value + code[p].value
  OBVIOUS
<1>9. x \in Nat
  BY <1>7, <1>8
<1>10. ASSUME NEW v \in Int, NEW st \in Seq(Int)
       PROVE  At(code, r + 1) /\ Leads(code, v, At0(o, st), At0(r + 1, Append(st, x)))
  <2>1. PICK s2 : s2 = Append(st, code[o].value)
    OBVIOUS
  <2>2. s2 \in Seq(Int) /\ Leads(code, v, At0(o, st), At0(p, s2))
    BY <1>5, <2>1
  <2>3. Leads(code, v, At0(p, s2), At0(r, Append(s2, code[p].value)))
    BY <1>6, <2>2
  <2>4. At(code, r + 1) /\ Leads(code, v, At0(r, Append(s2, code[p].value)), At0(r + 1, Append(st, x)))
    BY <1>4, <1>7, <1>8, <2>1, AddStep
  <2> QED
    BY <2>2, <2>3, <2>4, LeadsFrom
<1>11. At(code, r + 1)
  <2>1. 0 \in Int /\ <<>> \in Seq(Int)
    OBVIOUS
  <2> QED
    BY <1>10, <2>1
<1>12. o < r + 1 /\ (r + 1) - 1 = r /\ 2 <= (r + 1) - o
  BY <1>5, <1>6
<1>13. Clear(o, r + 1)
  <2>1. \A k \in o + 1 .. (r + 1) - 1 :
            k \in DOMAIN code /\ (code[k].op = "operand" \/ code[k].op = "NOP" \/ k \notin Peep!Protected)
    <3>1. \A k \in o + 1 .. (r + 1) - 1 : k = p \/ k = r \/ k \in o + 1 .. p - 1 \/ k \in p + 1 .. r - 1
      <4>1. o \in Int /\ p \in Int /\ r \in Int
        BY <1>5, <1>6
      <4> QED
        BY <4>1
    <3> QED
      BY <1>4, <1>5, <1>6, <3>1
  <2>2. end = r + 1
    BY <1>2
  <2>3. \A k \in o + 1 .. end - 1 :
            k \in DOMAIN code /\ (code[k].op = "operand" \/ code[k].op = "NOP" \/ k \notin Peep!Protected)
    BY <2>1, <2>2, Zenon
  <2> QED
    BY <1>5, <2>2, <2>3, Spanned
<1>14. Len(Peep!Push(x)) <= (r + 1) - o
  <2>1. Len(Peep!Push(x)) = 2
    BY <1>9, PushIs
  <2> QED
    BY <1>12, <2>1
<1> QED
  BY <1>1, <1>2, <1>5, <1>8, <1>9, <1>10, <1>11, <1>12, <1>13, <1>14, Folded

-----------------------------------------------------------------------------
(* Chains of jumps                                                         *)

LEMMA JumpIs ==
    ASSUME code \in Seq(Cell), NEW k, Peep!IsOp(k, "JUMP")
    PROVE  /\ k \in DOMAIN code /\ k \in 1 .. Len(code) /\ Len(code) \in Nat /\ code[k].op = "JUMP"
           /\ code[k].by \in Nat /\ Peep!Target(k) \in Nat /\ Peep!Target(k) >= k + 3
<1>1. k \in DOMAIN code /\ code[k].op = "JUMP" /\ DOMAIN code = 1 .. Len(code) /\ Len(code) \in Nat
  BY LenProperties DEF Peep!IsOp, Peep!InCode
<1>2. code[k] \in Cell
  BY <1>1, ElementOfSeq
<1>3. code[k].by \in Nat
  BY <1>1, <1>2, CellFacts DEF JumpOps
<1> QED
  BY <1>1, <1>3 DEF Peep!Target

(* The function that EndOfChain defines exists, since jumps go forward.   *)
LEMMA ChainsEnd ==
    ASSUME code \in Seq(Cell)
    PROVE  \E f : f = [k \in DOMAIN code |-> IF Peep!JumpsToJump(k) THEN f[Peep!Target(k)] ELSE Peep!Target(k)]
<1> DEFINE Good(f, n) == \A k \in DOMAIN code : k > Len(code) - n =>
                            f[k] = IF Peep!JumpsToJump(k) THEN f[Peep!Target(k)] ELSE Peep!Target(k)
           P == {n \in Nat : \E f : f = [k \in DOMAIN code |-> f[k]] /\ Good(f, n)}
<1>1. DOMAIN code = 1 .. Len(code) /\ Len(code) \in Nat
  BY LenProperties
<1>2. 0 \in P
  <2> DEFINE f == [k \in DOMAIN code |-> 0]
  <2>1. f = [k \in DOMAIN code |-> f[k]]
    OBVIOUS
  <2> HIDE DEF f
  <2>2. Good(f, 0)
    BY <1>1
  <2> QED
    BY <2>1, <2>2
<1>3. ASSUME NEW n \in P PROVE n + 1 \in P
  <2>1. PICK f : f = [k \in DOMAIN code |-> f[k]] /\ Good(f, n)
    BY <1>3
  <2>2. PICK m : m = Len(code) - n
    OBVIOUS
  <2>3. n \in Nat /\ m \in Int /\ Len(code) - (n + 1) = m - 1
    BY <1>1, <2>2
  <2> DEFINE g == [k \in DOMAIN code |->
                      IF k = m THEN IF Peep!JumpsToJump(m) THEN f[Peep!Target(m)] ELSE Peep!Target(m) ELSE f[k]]
  <2>4. g = [k \in DOMAIN code |-> g[k]]
    OBVIOUS
  <2>5. ASSUME NEW k \in DOMAIN code, k > m - 1
        PROVE  g[k] = IF Peep!JumpsToJump(k) THEN g[Peep!Target(k)] ELSE Peep!Target(k)
    <3>1. ASSUME Peep!JumpsToJump(k) PROVE g[Peep!Target(k)] = f[Peep!Target(k)]
      <4>1. Peep!Target(k) \in DOMAIN code /\ Peep!IsOp(k, "JUMP")
        BY <3>1 DEF Peep!JumpsToJump, Peep!IsOp, Peep!InCode
      <4>2. Peep!Target(k) \in Nat /\ Peep!Target(k) >= k + 3 /\ k \in 1 .. Len(code)
        BY <4>1, JumpIs
      <4>3. Peep!Target(k) # m
        BY <2>3, <2>5, <4>2
      <4> QED
        BY <4>1, <4>3
    <3>2. CASE k = m
      BY <3>1, <3>2
    <3>3. CASE k # m
      <4>1. k > Len(code) - n
        BY <1>1, <2>2, <2>3, <2>5, <3>3
      <4>2. f[k] = IF Peep!JumpsToJump(k) THEN f[Peep!Target(k)] ELSE Peep!Target(k)
        BY <2>1, <4>1
      <4>3. g[k] = f[k]
        BY <3>3
      <4> QED
        BY <3>1, <4>2, <4>3
    <3> QED
      BY <3>2, <3>3
  <2> HIDE DEF g
  <2>6. Good(g, n + 1)
    BY <2>3, <2>5
  <2> HIDE DEF Good
  <2> QED
    BY <2>3, <2>4, <2>6
<1>4. P = Nat
  <2> HIDE DEF P
  <2> QED
    BY <1>2, <1>3, AllNaturals DEF P
<1>5. PICK f : f = [k \in DOMAIN code |-> f[k]] /\ Good(f, Len(code))
  BY <1>1, <1>4
<1>6. \A k \in DOMAIN code : f[k] = IF Peep!JumpsToJump(k) THEN f[Peep!Target(k)] ELSE Peep!Target(k)
  <2>1. \A k \in DOMAIN code : k > Len(code) - Len(code)
    BY <1>1
  <2> QED
    BY <1>5, <2>1
<1>7. f = [k \in DOMAIN code |-> IF Peep!JumpsToJump(k) THEN f[Peep!Target(k)] ELSE Peep!Target(k)]
  BY <1>5, <1>6
<1> QED
  BY <1>7

LEMMA EndOfChainIs ==
    ASSUME code \in Seq(Cell), NEW o, Peep!JumpsToJump(o)
    PROVE  LET e == Peep!EndOfChain(o)
           IN  /\ e \in Nat /\ e >= o + 3
               /\ Whole(code) => /\ At(code, e)
                                 /\ \A v \in Int, st \in Seq(Int) : Leads(code, v, At0(o, st), At0(e, st))
<1> DEFINE G(f) == [k \in DOMAIN code |-> IF Peep!JumpsToJump(k) THEN f[Peep!Target(k)] ELSE Peep!Target(k)]
           end == CHOOSE f : f = G(f)
<1>1. end = G(end)
  <2>1. \E f : f = G(f)
    BY ChainsEnd
  <2> HIDE DEF G
  <2> QED
    BY <2>1, Zenon
<1>2. Peep!EndOfChain(o) = end[o]
  BY Zenon DEF Peep!EndOfChain, end
<1> HIDE DEF end
<1>3. \A k \in DOMAIN code : end[k] = IF Peep!JumpsToJump(k) THEN end[Peep!Target(k)] ELSE Peep!Target(k)
  BY <1>1
<1>4. DOMAIN code = 1 .. Len(code) /\ Len(code) \in Nat
  BY LenProperties
<1> DEFINE Fine(k) ==
               /\ end[k] \in Nat /\ end[k] >= k + 3
               /\ Whole(code) => /\ At(code, end[k])
                                 /\ \A v \in Int, st \in Seq(Int) : Leads(code, v, At0(k, st), At0(end[k], st))
           P == {n \in Nat : \A k : Peep!IsOp(k, "JUMP") /\ k > Len(code) - n => Fine(k)}
<1>5. 0 \in P
  <2>1. ASSUME NEW k, Peep!IsOp(k, "JUMP"), k > Len(code) - 0 PROVE FALSE
    BY <1>4, <2>1, JumpIs
  <2> QED
    BY <2>1
<1>6. ASSUME NEW n \in P PROVE n + 1 \in P
  <2> SUFFICES ASSUME NEW k, Peep!IsOp(k, "JUMP"), k > Len(code) - (n + 1) PROVE Fine(k)
    OBVIOUS
  <2>1. PICK t : t = Peep!Target(k)
    OBVIOUS
  <2>2. k \in DOMAIN code /\ k \in 1 .. Len(code) /\ code[k].op = "JUMP" /\ t \in Nat /\ t >= k + 3
            /\ n \in Nat
    BY <2>1, JumpIs
  <2>3. ASSUME Whole(code), NEW v \in Int, NEW st \in Seq(Int)
        PROVE  At(code, t) /\ Leads(code, v, At0(k, st), At0(t, st))
    <3>1. At(code, k) /\ At(code, t)
      BY <2>1, <2>2, <2>3 DEF At, Whole, JumpOps, Peep!Target
    <3>2. PICK s \in States(code) : s = At0(k, st)
      BY <2>3, <3>1, IsState
    <3>3. s.at = k /\ s.stack = st /\ s.end = "none" /\ Running(code, s)
      <4>1. ~(k > Len(code))
        BY <1>4, <2>2
      <4> QED
        BY <2>3, <3>1, <3>2, <4>1, IsState DEF Running
    <3>4. Peep!Step(code, v, s) = At0(t, st)
      BY <2>1, <2>2, <3>2, <3>3 DEF Peep!Step, At0, Peep!Target
    <3> QED
      BY <2>3, <3>1, <3>2, <3>3, <3>4, DoIs, OneStep
  <2>4. Whole(code) => At(code, t)
    <3>1. 0 \in Int /\ <<>> \in Seq(Int)
      OBVIOUS
    <3> QED
      BY <2>3, <3>1
  <2>5. CASE Peep!JumpsToJump(k)
    <3>1. end[k] = end[t] /\ Peep!IsOp(t, "JUMP")
      BY <1>3, <2>1, <2>2, <2>5 DEF Peep!JumpsToJump
    <3>2. t > Len(code) - n
      BY <1>4, <2>2
    <3>3. Fine(t)
      BY <1>6, <3>1, <3>2
    <3>4. end[k] \in Nat /\ end[k] >= k + 3
      <4>1. end[t] \in Nat /\ end[t] >= t + 3
        BY <3>3
      <4> QED
        BY <1>4, <2>2, <3>1, <4>1
    <3>5. ASSUME Whole(code) PROVE At(code, end[k])
      BY <3>1, <3>3, <3>5
    <3>6. ASSUME Whole(code), NEW v \in Int, NEW st \in Seq(Int)
          PROVE  Leads(code, v, At0(k, st), At0(end[k], st))
      BY <2>3, <3>1, <3>3, <3>6, LeadsFrom
    <3> QED
      BY <3>4, <3>5, <3>6
  <2>6. CASE ~Peep!JumpsToJump(k)
    <3>1. end[k] = t
      BY <1>3, <2>1, <2>2, <2>6
    <3> QED
      BY <2>2, <2>3, <2>4, <3>1
  <2> QED
    BY <2>5, <2>6
<1>7. P = Nat
  <2> HIDE DEF P
  <2> QED
    BY <1>5, <1>6, AllNaturals DEF P
<1>8. Peep!IsOp(o, "JUMP") /\ o > Len(code) - Len(code)
  <2>1. Peep!IsOp(o, "JUMP")
    BY DEF Peep!JumpsToJump
  <2> QED
    BY <2>1, JumpIs
<1>9. Fine(o)
  BY <1>4, <1>7, <1>8
<1> QED
  BY <1>2, <1>9

(* Two codes that differ in one instruction, which leads to the same. *)
LEMMA OneDiffers ==
    ASSUME Whole(code), NEW o \in 1 .. Len(code),
           NEW d, Whole(d), Len(d) = Len(code), \A p : At(d, p) <=> At(code, p),
           \A p \in DOMAIN code : p # o => d[p] = code[p],
           NEW e \in Nat, e > o, At(code, e), NEW v \in Int,
           \A st \in Seq(Int) : Leads(code, v, At0(o, st), At0(e, st))
               /\ Leads(d, v, At0(o, st), At0(e, st))
    PROVE  Peep!Outcome(code, v) = Peep!Outcome(d, v)
<1>1. States(d) = States(code)
  BY DEF States
<1>2. ASSUME NEW s \in States(code), Running(code, s)
      PROVE  \E g \in States(code) :
                 Leads(code, v, s, g) /\ Leads(d, v, s, g) /\ (g.end = "none" => g.at > s.at)
  <2>1. s.end = "none" /\ s = At0(s.at, s.stack) /\ s.stack \in Seq(Int) /\ s.at \in Nat
    BY <1>2, StateIs DEF Running
  <2>2. CASE s.at = o
    <3>1. PICK g \in States(code) : g = At0(e, s.stack)
      BY <2>1, IsState
    <3>2. Leads(code, v, s, g) /\ Leads(d, v, s, g)
      BY <2>1, <2>2, <3>1
    <3>3. g.at = e
      BY <3>1 DEF At0
    <3> QED
      BY <2>2, <3>2, <3>3
  <2>3. CASE s.at # o
    <3>1. PICK g : g = Peep!Step(code, v, s)
      OBVIOUS
    <3>2. g \in States(code) /\ (g.end = "none" => g.at > s.at) /\ s.at \in 1 .. Len(code)
      BY <1>2, <3>1, StepIs
    <3>3. Do(code, v, s) = g
      BY <1>2, <3>1, DoIs
    <3>4. Len(code) = Len(d) /\ code[s.at] = d[s.at]
      BY <2>3, <3>2, CodeFacts
    <3>5. Do(d, v, s) = g
      BY <1>2, <3>1, <3>4, SameStep
    <3>6. Leads(code, v, s, g) /\ Leads(d, v, s, g)
      BY <1>1, <3>3, <3>5, OneStep
    <3> QED
      BY <3>2, <3>6
  <2> QED
    BY <2>2, <2>3
<1>3. Start \in States(code)
  BY StartIs
<1> QED
  BY <1>1, <1>2, <1>3, SameRuns

LEMMA ThreadJumpIsRight ==
    ASSUME Whole(code), NEW o, Peep!JumpsToJump(o)
    PROVE  LET d == [code EXCEPT ![o].by = Peep!EndOfChain(o) - (o + 3)]
           IN  Whole(d) /\ \A v \in Int : Peep!Outcome(code, v) = Peep!Outcome(d, v)
<1>1. PICK e : e = Peep!EndOfChain(o)
  OBVIOUS
<1>2. /\ code \in Seq(Cell) /\ o \in DOMAIN code /\ o \in 1 .. Len(code) /\ Len(code) \in Nat
      /\ code[o].op = "JUMP" /\ code[o].op \in JumpOps
  BY JumpIs DEF Whole, Peep!JumpsToJump, JumpOps
<1>3. /\ e \in Nat /\ e >= o + 3 /\ At(code, e)
      /\ \A v \in Int, st \in Seq(Int) : Leads(code, v, At0(o, st), At0(e, st))
  BY <1>1, <1>2, EndOfChainIs
<1>4. PICK by : by = e - (o + 3)
  OBVIOUS
<1>5. by \in Nat /\ o + 3 + by = e /\ e > o
  BY <1>2, <1>3, <1>4
<1> DEFINE d == [code EXCEPT ![o].by = by]
<1>6. /\ Whole(d) /\ Len(d) = Len(code) /\ DOMAIN d = DOMAIN code
      /\ \A p : At(d, p) <=> At(code, p)
      /\ \A p \in DOMAIN code : p # o => d[p] = code[p]
      /\ d[o].op = code[o].op /\ d[o].by = by
  <2>1. At(code, o + 3 + by)
    BY <1>3, <1>5
  <2> QED
    BY <1>2, <1>5, <2>1, Retarget
<1> HIDE DEF d
<1>7. ASSUME NEW v \in Int, NEW st \in Seq(Int)
      PROVE  Leads(d, v, At0(o, st), At0(e, st))
  <2>1. At(d, o)
    BY <1>2, <1>6 DEF At, JumpOps
  <2>2. PICK s \in States(d) : s = At0(o, st)
    BY <1>6, <2>1, IsState
  <2>3. s.at = o /\ s.stack = st /\ s.end = "none" /\ Running(d, s)
    <3>1. ~(o > Len(d))
      BY <1>2, <1>6
    <3> QED
      BY <2>2, <3>1 DEF At0, Running
  <2>4. Peep!Step(d, v, s) = At0(e, st)
    <3>1. s.at + 3 + d[s.at].by = e /\ d[s.at].op = "JUMP"
      BY <1>2, <1>5, <1>6, <2>3
    <3> QED
      BY <2>2, <2>3, <3>1 DEF Peep!Step, At0
  <2> QED
    BY <1>6, <2>2, <2>3, <2>4, DoIs, OneStep
<1>8. \A v \in Int : Peep!Outcome(code, v) = Peep!Outcome(d, v)
  BY <1>2, <1>3, <1>5, <1>6, <1>7, OneDiffers
<1> QED
  BY <1>1, <1>4, <1>6, <1>8 DEF d

-----------------------------------------------------------------------------
(* The steps                                                               *)

LEMMA EmitIsRight ==
    ASSUME OptimizerInv, NEW cells, Whole(cells), NEW height, Peep!Emit(cells, height)
    PROVE  OptimizerInv'
<1>1. pass.stage = "compile" /\ ~unsafe /\ Whole(code) /\ code \in Seq(Cell) /\ cells \in Seq(Cell)
  BY DEF OptimizerInv, Peep!Emit, Whole
<1>2. code' = code \o cells /\ pass' = pass /\ unsafe' = unsafe /\ source' = source
  BY DEF Peep!Emit
<1>3. Whole(code') /\ code' \in Seq(Cell)
  <2>1. Whole(code \o cells)
    BY <1>1, Appended
  <2> QED
    BY <1>2, <2>1 DEF Whole
<1>4. \A j \in DOMAIN code : j \in DOMAIN code' /\ code'[j] = code[j]
  <2>1. /\ DOMAIN code = 1 .. Len(code) /\ Len(code) \in Nat /\ Len(cells) \in Nat
        /\ DOMAIN code' = 1 .. Len(code') /\ Len(code') = Len(code) + Len(cells)
    BY <1>1, <1>2, <1>3, LenProperties, ConcatProperties
  <2> QED
    BY <1>1, <1>2, <2>1, ConcatProperties
<1>5. /\ asm' = [height |-> asm'.height, dead |-> asm'.dead, count |-> asm'.count, open |-> asm'.open]
      /\ asm'.open = asm.open
  <2>1. asm = [height |-> asm.height, dead |-> asm.dead, count |-> asm.count, open |-> asm.open]
    BY DEF OptimizerInv
  <2>2. asm' = [height |-> height, dead |-> asm.dead, count |-> asm.count + 1, open |-> asm.open]
    BY <2>1 DEF Peep!Emit
  <2> QED
    BY <2>2
<1> QED
  BY <1>1, <1>2, <1>3, <1>4, <1>5 DEF OptimizerInv

LEMMA EmittedIsWhole ==
    /\ \A v \in {Peep!True, 1} : Whole(Peep!Push(v))
    /\ Whole(<<Peep!Op("GET_GLOBAL"), Peep!Operand>>)
    /\ Whole(<<Peep!Op("POP")>>) /\ Whole(<<Peep!Op("NOT")>>) /\ Whole(<<Peep!Op("ADD")>>)
    /\ \A name \in JumpOps : Whole(<<[op |-> name, by |-> 0], Peep!Operand, Peep!Operand>>)
<1>1. \A v \in {Peep!True, 1} : Whole(Peep!Push(v))
  BY PushIs
<1>2. Whole(<<Peep!Op("GET_GLOBAL"), Peep!Operand>>)
  <2>1. PICK i : i = Peep!Op("GET_GLOBAL")
    OBVIOUS
  <2>2. i \in Cell /\ i.op = "GET_GLOBAL" /\ Width(i) = 2 /\ i.op \notin JumpOps
    BY <2>1, SomeCells DEF Width, JumpOps
  <2>3. /\ <<i, Peep!Operand>> \in Seq(Cell) /\ Len(<<i, Peep!Operand>>) = 2 /\ <<i, Peep!Operand>>[1] = i
        /\ \A k \in 2 .. Len(<<i, Peep!Operand>>) : <<i, Peep!Operand>>[k] = Peep!Operand
    BY <2>2, SomeCells
  <2> QED
    BY <2>1, <2>2, <2>3, OneInstruction
<1>3. ASSUME NEW name \in {"POP", "NOT", "ADD"} PROVE Whole(<<Peep!Op(name)>>)
  <2>1. PICK i : i = Peep!Op(name)
    OBVIOUS
  <2>2. i \in Cell /\ i.op \in {"POP", "NOT", "ADD"} /\ Width(i) = 1 /\ i.op \notin JumpOps
            /\ i.op # "operand"
    BY <2>1, SomeCells DEF Width, JumpOps
  <2>3. <<i>> \in Seq(Cell) /\ Len(<<i>>) = 1 /\ <<i>>[1] = i
            /\ \A k \in 2 .. Len(<<i>>) : <<i>>[k] = Peep!Operand
    BY <2>2
  <2> QED
    BY <2>1, <2>2, <2>3, OneInstruction
<1>4. ASSUME NEW name \in JumpOps PROVE Whole(<<[op |-> name, by |-> 0], Peep!Operand, Peep!Operand>>)
  <2>1. PICK i : i = [op |-> name, by |-> 0]
    OBVIOUS
  <2>2. i \in Cell /\ i.op \in JumpOps /\ i.by = 0 /\ Width(i) = 3 /\ i.op # "operand"
    BY <2>1, SomeCells DEF Width, JumpOps
  <2>3. /\ <<i, Peep!Operand, Peep!Operand>> \in Seq(Cell) /\ Len(<<i, Peep!Operand, Peep!Operand>>) = 3
        /\ <<i, Peep!Operand, Peep!Operand>>[1] = i
        /\ \A k \in 2 .. Len(<<i, Peep!Operand, Peep!Operand>>) : <<i, Peep!Operand, Peep!Operand>>[k] = Peep!Operand
    BY <2>2, SomeCells
  <2> QED
    BY <2>1, <2>2, <2>3, OneInstruction
<1> QED
  BY <1>1, <1>2, <1>3, <1>4

LEMMA EmitJumpIsRight ==
    ASSUME OptimizerInv, NEW name \in JumpOps, Peep!EmitJump(name)
    PROVE  OptimizerInv'
<1>1. PICK cells : cells = <<[op |-> name, by |-> 0], Peep!Operand, Peep!Operand>>
  OBVIOUS
<1>2. pass.stage = "compile" /\ ~unsafe /\ Whole(code) /\ code \in Seq(Cell)
  BY DEF OptimizerInv, Peep!EmitJump
<1>3. code' = code \o cells /\ pass' = pass /\ unsafe' = unsafe /\ source' = source
  BY <1>1 DEF Peep!EmitJump
<1>4. Whole(cells) /\ cells \in Seq(Cell) /\ Len(cells) = 3 /\ cells[1].op = name
  BY <1>1, EmittedIsWhole DEF Whole
<1>5. Whole(code') /\ code' \in Seq(Cell)
  <2>1. Whole(code \o cells)
    BY <1>2, <1>4, Appended
  <2> QED
    BY <1>3, <2>1 DEF Whole
<1>6. /\ \A j \in DOMAIN code : j \in DOMAIN code' /\ code'[j] = code[j]
      /\ Len(code) + 1 \in DOMAIN code' /\ code'[Len(code) + 1].op \in JumpOps
  <2>1. /\ DOMAIN code = 1 .. Len(code) /\ Len(code) \in Nat
        /\ DOMAIN code' = 1 .. Len(code') /\ Len(code') = Len(code) + 3
    <3>1. code \in Seq(Cell) /\ cells \in Seq(Cell) /\ Len(cells) = 3
      BY <1>2, <1>4
    <3>2. Len(code \o cells) = Len(code) + Len(cells)
      BY <3>1, ConcatProperties
    <3> QED
      BY <1>2, <1>3, <1>5, <3>1, <3>2, LenProperties
  <2>2. \A j \in 1 .. Len(code) + 3 : code'[j] = IF j <= Len(code) THEN code[j] ELSE cells[j - Len(code)]
    <3>1. \A j \in 1 .. Len(code) + Len(cells) :
              (code \o cells)[j] = IF j <= Len(code) THEN code[j] ELSE cells[j - Len(code)]
      BY <1>2, <1>4, ConcatProperties
    <3> QED
      BY <1>3, <1>4, <3>1
  <2>3. Len(code) + 1 \in 1 .. Len(code) + 3 /\ ~(Len(code) + 1 <= Len(code))
            /\ (Len(code) + 1) - Len(code) = 1
    BY <2>1
  <2>4. code'[Len(code) + 1] = cells[1]
    BY <2>2, <2>3
  <2> QED
    BY <1>4, <2>1, <2>2, <2>3, <2>4
<1>7. /\ asm' = [height |-> asm'.height, dead |-> asm'.dead, count |-> asm'.count, open |-> asm'.open]
      /\ asm'.open = asm.open \union {[jump |-> Len(code) + 1, height |-> asm.height]}
  <2>1. asm = [height |-> asm.height, dead |-> asm.dead, count |-> asm.count, open |-> asm.open]
    BY DEF OptimizerInv
  <2>2. asm' = [height |-> asm.height, dead |-> name = "JUMP", count |-> asm.count + 1,
                open |-> asm.open \union {[jump |-> Len(code) + 1, height |-> asm.height]}]
    BY <2>1 DEF Peep!EmitJump
  <2> QED
    BY <2>2
<1>8. \A j \in asm'.open : j.jump \in DOMAIN code' /\ code'[j.jump].op \in JumpOps
  <2>1. \A j \in asm.open : j.jump \in DOMAIN code /\ code[j.jump].op \in JumpOps
    BY <1>2 DEF OptimizerInv
  <2> QED
    BY <1>6, <1>7, <2>1
<1> QED
  BY <1>2, <1>3, <1>5, <1>7, <1>8 DEF OptimizerInv

LEMMA PatchJumpIsRight ==
    ASSUME OptimizerInv, NEW j \in asm.open, Peep!PatchJump(j)
    PROVE  OptimizerInv'
<1>1. pass.stage = "compile" /\ ~unsafe /\ Whole(code) /\ code \in Seq(Cell) /\ Len(code) \in Nat
  BY CodeFacts DEF OptimizerInv, Peep!PatchJump, Whole
<1>2. PICK k : k = j.jump
  OBVIOUS
<1>3. k \in DOMAIN code /\ code[k].op \in JumpOps
  BY <1>1, <1>2 DEF OptimizerInv
<1>4. PICK by : by = Len(code) + 1 - (k + 3)
  OBVIOUS
<1>5. by \in Nat /\ At(code, k + 3 + by)
  <2>1. At(code, k + 3)
    BY <1>1, <1>3 DEF Whole, Width, JumpOps
  <2>2. k + 3 \in 1 .. Len(code) + 1 /\ k \in 1 .. Len(code)
    BY <1>1, <1>3, <2>1, CodeFacts
  <2>3. by \in Nat /\ k + 3 + by = Len(code) + 1
    BY <1>1, <1>4, <2>2
  <2> QED
    BY <2>3 DEF At
<1>6. code' = [code EXCEPT ![k].by = by] /\ pass' = pass /\ unsafe' = unsafe /\ source' = source
  BY <1>2, <1>4 DEF Peep!PatchJump
<1>7. LET d == [code EXCEPT ![k].by = by]
      IN  /\ Whole(d) /\ Len(d) = Len(code) /\ DOMAIN d = DOMAIN code
          /\ \A p \in DOMAIN code : p # k => d[p] = code[p]
          /\ d[k].op = code[k].op
  BY <1>1, <1>3, <1>5, Retarget
<1>8. /\ Whole(code') /\ code' \in Seq(Cell) /\ DOMAIN code' = DOMAIN code
      /\ \A p \in DOMAIN code : p # k => code'[p] = code[p]
      /\ code'[k].op = code[k].op
  BY <1>6, <1>7 DEF Whole
<1>9. /\ asm' = [height |-> asm'.height, dead |-> asm'.dead, count |-> asm'.count, open |-> asm'.open]
      /\ asm'.open = asm.open \ {j}
  <2>1. asm = [height |-> asm.height, dead |-> asm.dead, count |-> asm.count, open |-> asm.open]
    BY DEF OptimizerInv
  <2>2. asm' = [height |-> j.height, dead |-> FALSE, count |-> asm.count, open |-> asm.open \ {j}]
    BY <2>1 DEF Peep!PatchJump
  <2> QED
    BY <2>2
<1>10. \A i \in asm'.open : i.jump \in DOMAIN code' /\ code'[i.jump].op \in JumpOps
  <2>1. \A i \in asm.open : i.jump \in DOMAIN code /\ code[i.jump].op \in JumpOps
    BY <1>1 DEF OptimizerInv
  <2>2. \A p \in DOMAIN code : code'[p].op = code[p].op
    BY <1>8
  <2> QED
    BY <1>8, <1>9, <2>1, <2>2
<1> QED
  BY <1>1, <1>6, <1>8, <1>9, <1>10 DEF OptimizerInv

LEMMA BeginPassesIsRight ==
    ASSUME OptimizerInv, Peep!BeginPasses
    PROVE  OptimizerInv'
<1>1. pass.stage = "compile" /\ ~unsafe /\ Whole(code) /\ code \in Seq(Cell)
  BY DEF OptimizerInv, Peep!BeginPasses
<1>2. code' = code /\ asm' = asm /\ unsafe' = unsafe /\ source' = code
  BY DEF Peep!BeginPasses
<1>3. pass' \in [stage : {"compile", "fold", "jumps", "done"}, at : Nat, again : BOOLEAN]
          /\ pass'.stage = "fold"
  BY DEF OptimizerInv, Peep!BeginPasses
<1>4. Peep!SameOutcome'
  BY <1>2 DEF Peep!SameOutcome
<1>5. Whole(code') /\ Len(code') = Len(source')
  BY <1>1, <1>2
<1> QED
  BY <1>1, <1>2, <1>3, <1>4, <1>5 DEF OptimizerInv

(* What a step of the optimizer has to show. *)
LEMMA PassIsRight ==
    ASSUME OptimizerInv, pass.stage # "compile", source' = source, asm' = asm,
           pass' \in [stage : {"fold", "jumps", "done"}, at : Nat, again : BOOLEAN],
           code' \in Seq(Cell), Len(code') = Len(code),
           ~unsafe' => ~unsafe /\ (Whole(code)
               => Whole(code') /\ \A v \in Int : Peep!Outcome(code, v) = Peep!Outcome(code', v))
    PROVE  OptimizerInv'
<1>1. Len(code') = Len(source')
  BY DEF OptimizerInv
<1>2. pass' \in [stage : {"compile", "fold", "jumps", "done"}, at : Nat, again : BOOLEAN]
          /\ pass'.stage # "compile"
  OBVIOUS
<1>3. asm' = [height |-> asm'.height, dead |-> asm'.dead, count |-> asm'.count, open |-> asm'.open]
  BY DEF OptimizerInv
<1>4. ASSUME ~unsafe' PROVE Whole(code') /\ Peep!SameOutcome'
  <2>1. ~unsafe /\ Whole(code) /\ Peep!SameOutcome
    BY <1>4 DEF OptimizerInv
  <2>2. Whole(code') /\ \A v \in Int : Peep!Outcome(code, v) = Peep!Outcome(code', v)
    BY <1>4, <2>1
  <2>3. Peep!Inputs \subseteq Int
    BY DEF Peep!Inputs, Peep!True, Peep!False
  <2> QED
    BY <2>1, <2>2, <2>3 DEF Peep!SameOutcome
<1> QED
  BY <1>1, <1>2, <1>3, <1>4 DEF OptimizerInv

(* Overwriting keeps the number of cells, whatever it does to their meaning. *)
LEMMA OverwriteIs ==
    ASSUME code \in Seq(Cell), NEW o \in Nat, NEW end, NEW cells \in Seq(Cell)
    PROVE  Peep!Overwrite(o, end, cells) \in Seq(Cell) /\ Len(Peep!Overwrite(o, end, cells)) = Len(code)
<1>1. PICK d : d = Peep!Overwrite(o, end, cells)
  OBVIOUS
<1>2. Len(code) \in Nat /\ DOMAIN code = 1 .. Len(code) /\ Len(cells) \in Nat
  BY LenProperties
<1>3. ASSUME NEW p \in 1 .. Len(code) PROVE d[p] \in Cell
  <2>1. CASE p \in o .. o + Len(cells) - 1
    <3>1. d[p] = cells[p - o + 1] \/ (p \in o + Len(cells) .. end - 1 /\ d[p] = Peep!Nop)
      BY <1>1, <1>2, <2>1 DEF Peep!Overwrite
    <3>2. p - o + 1 \in 1 .. Len(cells)
      BY <1>2, <2>1
    <3> QED
      BY <3>1, <3>2, ElementOfSeq, SomeCells
  <2>2. CASE p \notin o .. o + Len(cells) - 1
    <3>1. d[p] = Peep!Nop \/ d[p] = code[p]
      BY <1>1, <1>2, <2>2 DEF Peep!Overwrite
    <3> QED
      BY <1>2, <3>1, ElementOfSeq, SomeCells
  <2> QED
    BY <2>1, <2>2
<1>4. d = [p \in 1 .. Len(code) |-> d[p]]
  BY <1>1, <1>2 DEF Peep!Overwrite
<1>5. d \in [1 .. Len(code) -> Cell]
  BY <1>3, <1>4
<1>6. d \in Seq(Cell)
  BY <1>2, <1>5, IsASeq
<1>7. Len(d) = Len(code)
  BY <1>2, <1>4, <1>6, LenProperties
<1> QED
  BY <1>1, <1>6, <1>7

LEMMA RewriteIsRight ==
    ASSUME OptimizerInv, pass.stage = "fold", NEW o \in DOMAIN code, NEW end, NEW cells \in Seq(Cell),
           Peep!Rewrite(o, end, cells),
           Whole(code) /\ ~(\E t \in Peep!Protected \cap o + 1 .. end - 1 : Peep!IsOp(t, "NOP"))
               => KeepsMeaning(o, end, cells)
    PROVE  OptimizerInv'
<1>1. code \in Seq(Cell) /\ o \in Nat
  BY LenProperties DEF OptimizerInv
<1>2. PICK d : d = Peep!Overwrite(o, end, cells)
  OBVIOUS
<1>3. /\ code' = d /\ source' = source /\ asm' = asm
      /\ pass' = [pass EXCEPT !.at = o + Peep!Size(o), !.again = TRUE]
      /\ unsafe' = (unsafe \/ \E t \in Peep!Protected \cap o + 1 .. end - 1 : Peep!IsOp(t, "NOP"))
  BY <1>2 DEF Peep!Rewrite
<1>4. code' \in Seq(Cell) /\ Len(code') = Len(code)
  BY <1>1, <1>2, <1>3, OverwriteIs
<1>5. pass' \in [stage : {"fold", "jumps", "done"}, at : Nat, again : BOOLEAN]
  <2>1. Peep!Size(o) \in Nat
    BY DEF Peep!Size
  <2>2. pass = [stage |-> "fold", at |-> pass.at, again |-> pass.again]
    BY DEF OptimizerInv
  <2>3. pass' = [stage |-> "fold", at |-> o + Peep!Size(o), again |-> TRUE]
    BY <1>3, <2>2
  <2>4. o + Peep!Size(o) \in Nat
    BY <1>1, <2>1
  <2> HIDE DEF Peep!Size
  <2> QED
    BY <2>3, <2>4
<1>6. ~unsafe' => ~unsafe /\ (Whole(code)
          => Whole(code') /\ \A v \in Int : Peep!Outcome(code, v) = Peep!Outcome(code', v))
  BY <1>2, <1>3 DEF KeepsMeaning
<1> QED
  BY <1>3, <1>4, <1>5, <1>6, PassIsRight

LEMMA DecodedIs ==
    ASSUME code \in Seq(Cell), NEW o, Peep!Decodes(o)
    PROVE  o \in DOMAIN code /\ code[o].value \in Nat \union {Peep!True, Peep!False}
<1>1. o \in DOMAIN code /\ code[o].op \in {"TRUE", "FALSE", "CONSTANT"}
  BY DEF Peep!Decodes, Peep!InCode
<1>2. code[o] \in Cell
  BY <1>1, LenProperties, ElementOfSeq
<1> QED
  BY <1>1, <1>2, CellFacts

LEMMA FoldIsRight ==
    ASSUME OptimizerInv, Peep!RemoveDeadPush \/ Peep!FoldNot \/ Peep!FoldAdd
    PROVE  OptimizerInv'
<1>1. code \in Seq(Cell)
  BY DEF OptimizerInv
<1>2. PICK o : o = Peep!NextFold
  OBVIOUS
<1>3. CASE Peep!RemoveDeadPush
  <2>1. pass.stage = "fold" /\ Peep!PoppedAtOnce(o)
    BY <1>2, <1>3 DEF Peep!RemoveDeadPush, Peep!AtFold
  <2>2. PICK end : end = Peep!Second(o) + 1
    OBVIOUS
  <2>3. Peep!Rewrite(o, end, <<>>)
    BY <1>2, <1>3, <2>2 DEF Peep!RemoveDeadPush
  <2>4. o \in DOMAIN code
    BY <1>1, <2>1, DecodedIs DEF Peep!PoppedAtOnce
  <2>5. Whole(code) /\ ~(\E t \in Peep!Protected \cap o + 1 .. end - 1 : Peep!IsOp(t, "NOP"))
            => KeepsMeaning(o, end, <<>>)
    BY <2>1, <2>2, RemoveDeadPushIsRight
  <2>6. <<>> \in Seq(Cell)
    OBVIOUS
  <2> QED
    BY <2>1, <2>3, <2>4, <2>5, <2>6, RewriteIsRight
<1>4. CASE Peep!FoldNot
  <2>1. pass.stage = "fold" /\ Peep!Negated(o)
    BY <1>2, <1>4 DEF Peep!FoldNot, Peep!AtFold
  <2>2. PICK end : end = Peep!Second(o) + 1
    OBVIOUS
  <2>3. PICK cells : cells = Peep!Push(Peep!Negation(code[o].value))
    OBVIOUS
  <2>4. Peep!Rewrite(o, end, cells)
    BY <1>2, <1>4, <2>2, <2>3 DEF Peep!FoldNot
  <2>5. o \in DOMAIN code
    BY <1>1, <2>1, DecodedIs DEF Peep!Negated
  <2>6. Whole(code) /\ ~(\E t \in Peep!Protected \cap o + 1 .. end - 1 : Peep!IsOp(t, "NOP"))
            => KeepsMeaning(o, end, cells)
    BY <2>1, <2>2, <2>3, FoldNotIsRight
  <2>7. cells \in Seq(Cell)
    <3>1. Peep!Negation(code[o].value) \in {Peep!True, Peep!False}
      BY DEF Peep!Negation
    <3> QED
      BY <2>3, <3>1, PushIs
  <2> QED
    BY <2>1, <2>4, <2>5, <2>6, <2>7, RewriteIsRight
<1>5. CASE Peep!FoldAdd
  <2>1. pass.stage = "fold" /\ Peep!Added(o)
    BY <1>2, <1>5 DEF Peep!FoldAdd, Peep!AtFold
  <2>2. PICK end : end = Peep!Third(o) + 1
    OBVIOUS
  <2>3. PICK cells : cells = Peep!Push(code[o].value + code[Peep!Second(o)].value)
    OBVIOUS
  <2>4. Peep!Rewrite(o, end, cells)
    BY <1>2, <1>5, <2>2, <2>3 DEF Peep!FoldAdd
  <2>5. Peep!Decodes(o) /\ Peep!Decodes(Peep!Second(o)) /\ Peep!IsNumber(code[o].value)
            /\ Peep!IsNumber(code[Peep!Second(o)].value)
    BY <2>1 DEF Peep!Added
  <2>6. o \in DOMAIN code
    BY <1>1, <2>5, DecodedIs
  <2>7. Whole(code) /\ ~(\E t \in Peep!Protected \cap o + 1 .. end - 1 : Peep!IsOp(t, "NOP"))
            => KeepsMeaning(o, end, cells)
    BY <2>1, <2>2, <2>3, FoldAddIsRight
  <2>8. cells \in Seq(Cell)
    <3>1. code[o].value \in Nat \union {Peep!True, Peep!False}
              /\ code[Peep!Second(o)].value \in Nat \union {Peep!True, Peep!False}
      BY <1>1, <2>5, DecodedIs
    <3>2. code[o].value + code[Peep!Second(o)].value \in Nat
      BY <2>5, <3>1 DEF Peep!IsNumber, Peep!True, Peep!False
    <3> QED
      BY <2>3, <3>2, PushIs
  <2> QED
    BY <2>1, <2>4, <2>6, <2>7, <2>8, RewriteIsRight
<1> QED
  BY <1>3, <1>4, <1>5

LEMMA EndPassIsRight ==
    ASSUME OptimizerInv, pass.stage # "compile", NEW next \in {"jumps", "done"}, Peep!EndPass(next)
    PROVE  OptimizerInv'
<1>1. code' = code /\ source' = source /\ asm' = asm /\ unsafe' = unsafe
  BY DEF Peep!EndPass
<1>2. pass' \in [stage : {"fold", "jumps", "done"}, at : Nat, again : BOOLEAN]
  <2>1. pass = [stage |-> pass.stage, at |-> pass.at, again |-> pass.again]
        /\ pass.stage \in {"fold", "jumps", "done"} /\ pass.again \in BOOLEAN
    BY DEF OptimizerInv
  <2>2. pass' = [stage |-> pass.stage, at |-> 1, again |-> FALSE]
        \/ pass' = [stage |-> next, at |-> 1, again |-> pass.again]
    <3>1. pass' = [pass EXCEPT !.at = 1, !.again = FALSE] \/ pass' = [pass EXCEPT !.at = 1, !.stage = next]
      BY DEF Peep!EndPass
    <3> QED
      BY <2>1, <3>1
  <2>3. PICK t, g : t = pass.stage /\ g = pass.again
    OBVIOUS
  <2>4. t \in {"fold", "jumps", "done"} /\ g \in BOOLEAN
    BY <2>1, <2>3
  <2>5. CASE pass' = [stage |-> t, at |-> 1, again |-> FALSE]
    BY <2>4, <2>5
  <2>6. CASE pass' = [stage |-> next, at |-> 1, again |-> g]
    BY <2>4, <2>6
  <2> QED
    BY <2>2, <2>3, <2>5, <2>6
<1>3. code' \in Seq(Cell) /\ Len(code') = Len(code)
  BY <1>1 DEF OptimizerInv
<1>4. ~unsafe' => ~unsafe /\ (Whole(code)
          => Whole(code') /\ \A v \in Int : Peep!Outcome(code, v) = Peep!Outcome(code', v))
  BY <1>1
<1> QED
  BY <1>1, <1>2, <1>3, <1>4, PassIsRight

LEMMA JumpPassIs ==
    ASSUME OptimizerInv, pass.stage = "jumps", NEW o \in DOMAIN code,
           pass' = [pass EXCEPT !.at = o + Peep!Size(o), !.again = TRUE]
    PROVE  pass' \in [stage : {"fold", "jumps", "done"}, at : Nat, again : BOOLEAN]
<1>1. o \in Nat
  BY LenProperties DEF OptimizerInv
<1>2. Peep!Size(o) \in Nat
  BY DEF Peep!Size
<1>3. pass = [stage |-> "jumps", at |-> pass.at, again |-> pass.again]
  BY DEF OptimizerInv
<1>4. pass' = [stage |-> "jumps", at |-> o + Peep!Size(o), again |-> TRUE]
  BY <1>3
<1>5. o + Peep!Size(o) \in Nat
  BY <1>1, <1>2
<1> QED
  BY <1>4, <1>5

LEMMA ThreadJumpStep ==
    ASSUME OptimizerInv, Peep!ThreadJump
    PROVE  OptimizerInv'
<1>1. PICK o : o = Peep!NextJump
  OBVIOUS
<1>2. /\ pass.stage = "jumps" /\ Peep!JumpsToJump(o)
      /\ code' = [code EXCEPT ![o].by = Peep!EndOfChain(o) - (o + 3)]
      /\ pass' = [pass EXCEPT !.at = o + Peep!Size(o), !.again = TRUE]
      /\ source' = source /\ asm' = asm /\ unsafe' = unsafe
  BY <1>1 DEF Peep!ThreadJump
<1>3. code \in Seq(Cell)
  BY DEF OptimizerInv
<1>4. o \in DOMAIN code /\ o \in 1 .. Len(code) /\ code[o].op = "JUMP" /\ code[o] \in Cell
  BY <1>2, <1>3, JumpIs, ElementOfSeq DEF Peep!JumpsToJump
<1>5. pass' \in [stage : {"fold", "jumps", "done"}, at : Nat, again : BOOLEAN]
  BY <1>2, <1>4, JumpPassIs
<1>6. code' \in Seq(Cell) /\ Len(code') = Len(code)
  <2>1. PICK by : by = Peep!EndOfChain(o) - (o + 3)
    OBVIOUS
  <2>2. by \in Nat
    <3>1. Peep!EndOfChain(o) \in Nat /\ Peep!EndOfChain(o) >= o + 3
      BY <1>2, <1>3, EndOfChainIs
    <3> QED
      BY <1>4, <2>1, <3>1
  <2>3. [code[o] EXCEPT !.by = by] \in Cell
    BY <1>4, <2>2 DEF Cell
  <2>4. code' = [code EXCEPT ![o] = [code[o] EXCEPT !.by = by]]
    BY <1>2, <2>1
  <2> QED
    BY <1>3, <1>4, <2>3, <2>4, ExceptSeq
<1>7. Whole(code) => Whole(code') /\ \A v \in Int : Peep!Outcome(code, v) = Peep!Outcome(code', v)
  BY <1>2, ThreadJumpIsRight
<1> QED
  BY <1>2, <1>5, <1>6, <1>7, PassIsRight

LEMMA RemoveBranchStep ==
    ASSUME OptimizerInv, Peep!RemoveBranch
    PROVE  OptimizerInv'
<1>1. PICK o : o = Peep!NextJump
  OBVIOUS
<1>2. /\ pass.stage = "jumps" /\ Peep!Branches(o)
      /\ code' = IF code[o].op = "TRUE" THEN Peep!Overwrite(o, o + 4, <<>>)
                 ELSE [code EXCEPT ![o] = Peep!Nop, ![o + 1].op = "JUMP"]
      /\ pass' = [pass EXCEPT !.at = o + Peep!Size(o), !.again = TRUE]
      /\ source' = source /\ asm' = asm /\ unsafe' = TRUE
  BY <1>1 DEF Peep!RemoveBranch
<1>3. code \in Seq(Cell) /\ DOMAIN code = 1 .. Len(code) /\ Len(code) \in Nat
  BY LenProperties DEF OptimizerInv
<1>4. o \in DOMAIN code /\ o \in Nat /\ o + 1 \in DOMAIN code /\ code[o + 1].op = "JUMP_IF_FALSE"
  BY <1>2, <1>3 DEF Peep!Branches, Peep!InCode, Peep!IsOp
<1>5. pass' \in [stage : {"fold", "jumps", "done"}, at : Nat, again : BOOLEAN]
  BY <1>2, <1>4, JumpPassIs
<1>6. code' \in Seq(Cell) /\ Len(code') = Len(code)
  <2>1. CASE code[o].op = "TRUE"
    <3>1. <<>> \in Seq(Cell)
      OBVIOUS
    <3>2. code' = Peep!Overwrite(o, o + 4, <<>>)
      BY <1>2, <2>1
    <3> QED
      BY <1>3, <1>4, <3>1, <3>2, OverwriteIs
  <2>2. CASE code[o].op # "TRUE"
    <3>1. PICK i : i = [code[o + 1] EXCEPT !.op = "JUMP"]
      OBVIOUS
    <3>2. i \in Cell
      <4>1. code[o + 1] \in Cell
        BY <1>3, <1>4, ElementOfSeq
      <4> QED
        BY <1>4, <3>1, <4>1 DEF Cell
    <3>3. PICK c : c = [code EXCEPT ![o] = Peep!Nop]
      OBVIOUS
    <3>4. c \in Seq(Cell) /\ Len(c) = Len(code) /\ c[o + 1] = code[o + 1]
      BY <1>3, <1>4, <3>3, SomeCells, ExceptSeq
    <3>5. code' = [c EXCEPT ![o + 1] = i]
      BY <1>2, <1>4, <2>2, <3>1, <3>3, <3>4
    <3> QED
      BY <1>3, <1>4, <3>2, <3>4, <3>5, ExceptSeq
  <2> QED
    BY <2>1, <2>2
<1> QED
  BY <1>2, <1>5, <1>6, PassIsRight

LEMMA OptimizerInvIsInductive ==
    ASSUME OptimizerInv, [Peep!Next]_(Peep!vars)
    PROVE  OptimizerInv'
<1>1. CASE Peep!EmitPush
  <2>1. CASE \E v \in {Peep!True, 1} : Peep!Emit(Peep!Push(v), asm.height + 1)
    BY <2>1, EmittedIsWhole, EmitIsRight
  <2>2. CASE Peep!Emit(<<Peep!Op("GET_GLOBAL"), Peep!Operand>>, asm.height + 1)
    BY <2>2, EmittedIsWhole, EmitIsRight
  <2> QED
    BY <1>1, <2>1, <2>2 DEF Peep!EmitPush
<1>2. CASE Peep!EmitUse
  <2>1. CASE Peep!Emit(<<Peep!Op("POP")>>, asm.height - 1)
    BY <2>1, EmittedIsWhole, EmitIsRight
  <2>2. CASE Peep!Emit(<<Peep!Op("NOT")>>, asm.height)
    BY <2>2, EmittedIsWhole, EmitIsRight
  <2>3. CASE Peep!Emit(<<Peep!Op("ADD")>>, asm.height - 1)
    BY <2>3, EmittedIsWhole, EmitIsRight
  <2> QED
    BY <1>2, <2>1, <2>2, <2>3 DEF Peep!EmitUse
<1>3. CASE Peep!EmitJump("JUMP") \/ Peep!EmitJump("JUMP_IF_FALSE")
  BY <1>3, EmitJumpIsRight DEF JumpOps
<1>4. CASE \E j \in asm.open : Peep!PatchJump(j)
  BY <1>4, PatchJumpIsRight
<1>5. CASE Peep!BeginPasses
  BY <1>5, BeginPassesIsRight
<1>6. CASE Peep!RemoveDeadPush \/ Peep!FoldNot \/ Peep!FoldAdd
  BY <1>6, FoldIsRight
<1>7. CASE Peep!EndFold
  BY <1>7, EndPassIsRight DEF Peep!EndFold
<1>8. CASE Peep!ThreadJump
  BY <1>8, ThreadJumpStep
<1>9. CASE Peep!RemoveBranch
  BY <1>9, RemoveBranchStep
<1>10. CASE Peep!EndJumps
  BY <1>10, EndPassIsRight DEF Peep!EndJumps
<1>11. CASE UNCHANGED Peep!vars
  BY <1>11 DEF Peep!vars, OptimizerInv, Peep!SameOutcome
<1> QED
  BY <1>1, <1>2, <1>3, <1>4, <1>5, <1>6, <1>7, <1>8, <1>9, <1>10, <1>11 DEF Peep!Next

LEMMA OptimizerInvHolds == Peep!Spec => []OptimizerInv
<1>1. Peep!Init => OptimizerInv
  <2> SUFFICES ASSUME Peep!Init PROVE OptimizerInv
    OBVIOUS
  <2>1. code \in Seq(Cell) /\ Len(code) = 0 /\ DOMAIN code = {}
    BY DEF Peep!Init
  <2>2. Whole(code)
    BY <2>1 DEF Whole, At
  <2>3. pass = [stage |-> "compile", at |-> 1, again |-> FALSE] /\ ~unsafe
    BY DEF Peep!Init
  <2>4. asm = [height |-> 0, dead |-> FALSE, count |-> 0, open |-> {}]
    BY DEF Peep!Init
  <2> QED
    BY <2>1, <2>2, <2>3, <2>4 DEF OptimizerInv
<1>2. OptimizerInv /\ [Peep!Next]_(Peep!vars) => OptimizerInv'
  BY OptimizerInvIsInductive
<1> QED
  BY <1>1, <1>2, PTL DEF Peep!Spec

(* After every rewriting the code does what it did, unless one has spanned *)
(* a NOP that is the target of a jump, or removed a branch on a constant:  *)
(* whatever the bounds on the chunk (optimizeChunk, optimizeChunkO2).      *)
THEOREM SafeRewritesAreSafe == Peep!Spec => []SafeRewritesKeepMeaning
<1>1. OptimizerInv => SafeRewritesKeepMeaning
  BY DEF OptimizerInv, SafeRewritesKeepMeaning, Peep!SafeRewritesKeepMeaning
<1> QED
  BY <1>1, OptimizerInvHolds, PTL

(* The optimizer keeps every instruction where it is and leaves no byte    *)
(* that is none (optimizeChunk, optimizeChunkO2).                          *)
THEOREM OptimizerTypeCorrect == Peep!Spec => []Peep!TypeOK
<1>1. OptimizerInv => Peep!TypeOK
  <2> SUFFICES ASSUME OptimizerInv PROVE Peep!TypeOK
    OBVIOUS
  <2>1. code \in Seq(Cell)
    BY DEF OptimizerInv
  <2>2. \A o \in DOMAIN code : code[o] \in Cell
    BY <2>1, LenProperties, ElementOfSeq
  <2>3. \A o \in DOMAIN code : code[o].op \in
          {"NOP", "operand", "TRUE", "FALSE", "CONSTANT", "GET_GLOBAL", "POP", "NOT", "ADD",
           "JUMP", "JUMP_IF_FALSE"}
    BY <2>2, CellFacts
  <2> QED
    BY <2>3 DEF OptimizerInv, Peep!TypeOK
<1> QED
  BY <1>1, OptimizerInvHolds, PTL
=============================================================================
