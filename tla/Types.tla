------------------------------- MODULE Types --------------------------------
(***************************************************************************)
(* Types (src/type_system.cpp): what the compiler and the VM say of the    *)
(* arguments of a call (validateStaticCall, VM::validateFunctionArguments),*)
(* and how they know which classes conform to which contracts.             *)
(*                                                                         *)
(* That knowledge is one table of the process, g_subtypeHierarchy: compile *)
(* clears it and fills it again, whichever thread calls it, and what else  *)
(* the compiler keeps is shared by all threads as well.  A thread compiles *)
(* a program, or reads one from a .urc file, and runs it; the first thread *)
(* is a REPL and does so again and again, with the classes it has.  If two *)
(* threads come to use the table at once, the model ends.                  *)
(*                                                                         *)
(* A type is its syntax tree, with one spelling (int, not Int).  Maps are  *)
(* checked as arrays are, and are left out; so are Bool, Function, Task    *)
(* and Class, which are to no other type what Number is to int.  One call  *)
(* is followed at a time.                                                  *)
(***************************************************************************)
EXTENDS Integers, Sequences, SequencesExt, TypeExprs

CONSTANTS
    Threads,        \* the threads that run a VM,
    Repl,           \* and the one that goes on after a program
    ClassPrograms,  \* the classes of programs: sequences of [name, super, contracts]
    MaxCompiles,    \* bound on the programs
    Annotations,    \* types that are written in programs,
    DataValues,     \* values without classes,
    Generic         \* functions with a type parameter T: sequences of the parameters' types

VARIABLES
    hierarchy,  \* g_subtypeHierarchy, as pairs of a type and one above it
    threads,    \* per thread: [pc, todo, body, declared, classes]
    compiles,   \* the number of compilations
    raced,      \* whether two threads have used the table at once
    call        \* a call: [thread, compile, seen, params, given, args, verdict]

vars == <<hierarchy, threads, compiles, raced, call>>

-----------------------------------------------------------------------------
(* A class at run time: the names of it and its superclasses, and, as the  *)
(* reference, the names of all it conforms to by their declarations and    *)
(* the oldest compilation that those come from.                            *)
ClassOf(c, known, n) ==
    LET supers == SelectSeq(known, LAMBDA k : Head(k.chain) = c.super)
    IN  IF c.super = "" THEN [chain |-> <<c.name>>, above |-> {c.name} \union c.contracts, since |-> n]
        ELSE LET s == Last(supers)
             IN  [chain |-> <<c.name>> \o s.chain, above |-> {c.name} \union c.contracts \union s.above,
                  since |-> s.since]

InstanceOf(class) == [Data("Instance") EXCEPT !.chain = class.chain]

BuiltIn == {"Nil", "int", "float", "Number", "String", "Array"}

-----------------------------------------------------------------------------
(* The functions of type_system.cpp. *)

RECURSIVE Above(_)
Above(names) ==
    LET next == names \union {p[2] : p \in {p \in hierarchy : p[1] \in names}}
    IN  IF next = names THEN names ELSE Above(next)

(* isSubtypeOf *)
Subtype(sub, super) == super \in Above({sub})

(* isPrimitiveTypeMatch, which holds of equal names: the comparison of     *)
(* arguments that comes after it is never reached.                         *)
SameName(n, m) == n = m \/ ("Number" \in {n, m} /\ {n, m} \subseteq {"Number", "int", "float"})

MutFits(e, a) ==
    \/ SameName(e.name, a.name)
    \/ a.name = "Nil" /\ e.nullable
    \/ e.name = "Instance" /\ a.name \notin BuiltIn
    \/ Subtype(a.name, e.name)

(* isTypeExprCompatible of types that are neither Any nor unions *)
Fits(e, a) ==
    IF a.name = "Nil" THEN e.nullable \/ e.name = "Nil"
    ELSE
        /\ a.nullable => e.nullable
        /\ \/ SameName(e.name, a.name)
           \/ e.name = "Instance" /\ a.name \notin BuiltIn
           \/ Subtype(a.name, e.name)

(* areTypesCompatible *)
RECURSIVE Compatible(_, _)
Compatible(e, a) ==
    \/ "Any" \in {e.name, a.name}
    \/ /\ a.variants # <<>>
       /\ \A i \in DOMAIN a.variants : Compatible(e, a.variants[i])
    \/ /\ a.variants = <<>> /\ e.variants # <<>>
       /\ \E i \in DOMAIN e.variants : Compatible(e.variants[i], a)
    \/ a.variants = <<>> /\ e.variants = <<>> /\ Fits(e, a)

(* matchesTypeExpr; n is the name of the type, if it is no union *)
MatchesNil(e) ==
    \/ e.name \in {"Any", "Nil"} \/ e.nullable
    \/ \E i \in DOMAIN e.variants : e.variants[i].name = "Nil" \/ e.variants[i].nullable

RECURSIVE Matches(_, _)
Matches(v, e) ==
    IF v.kind = "Nil" THEN MatchesNil(e)
    ELSE
        \/ e.name \in {"Any", v.kind} /\ e.name # "Array"
        \/ e.name = "Number" /\ v.kind \in {"int", "float"}
        \/ /\ e.name = "Array" /\ v.kind = "Array"
           /\ e.args # <<>> => \A i \in DOMAIN v.elements : Matches(v.elements[i], e.args[1])
        \/ v.kind = "Instance" /\ \E i \in DOMAIN v.chain : Subtype(v.chain[i], e.name)
        \/ \E i \in DOMAIN e.variants : Matches(v, e.variants[i])

(* mergeInferredTypes *)
Merge(types) ==
    IF types = <<>> \/ \E i \in DOMAIN types :
           types[i] = AnyType \/ ~Compatible(types[1], types[i]) \/ ~Compatible(types[i], types[1])
    THEN AnyType ELSE types[1]

(* runtimeTypeName, and the type of a literal in the compiler *)
RECURSIVE RuntimeType(_)
RuntimeType(v) ==
    CASE v.kind = "Array" -> ArrayOf(Merge([i \in DOMAIN v.elements |-> RuntimeType(v.elements[i])]))
      [] v.kind = "Instance" -> Plain(v.chain[1])
      [] OTHER -> Plain(v.kind)

(* inferBindingsFromExpr and inferTypeBindings: what T is bound to, as a   *)
(* sequence of no or one type, and whether all agrees.                     *)
RECURSIVE Infer(_, _, _)
Infer(e, a, b) ==
    IF ~b.ok \/ e.name = "Any" THEN b
    ELSE IF e.name = "T" /\ e.args = <<>>
         THEN IF b.T = <<>> THEN [b EXCEPT !.T = <<a>>] ELSE [b EXCEPT !.ok = (b.T[1] = a)]
    ELSE IF e.name # a.name \/ Len(e.args) # Len(a.args) THEN [b EXCEPT !.ok = FALSE]
    ELSE IF e.args = <<>> THEN b
    ELSE Infer(e.args[1], a.args[1], b)

Bindings(params, types) ==
    FoldLeft(LAMBDA b, i : IF AnyType \in {params[i], types[i]} THEN b ELSE Infer(params[i], types[i], b),
             [ok |-> TRUE, T |-> <<>>], [i \in DOMAIN params |-> i])

(* applyBindingsToExpr, which goes into arguments but not into unions and *)
(* forgets that T? may be nil                                              *)
RECURSIVE Substitute(_, _)
Substitute(e, T) ==
    IF T # <<>> /\ e.name = "T" /\ e.args = <<>> THEN T[1]
    ELSE [e EXCEPT !.args = [i \in DOMAIN e.args |-> Substitute(e.args[i], T)]]

-----------------------------------------------------------------------------
(* What is said of a call. *)

IsGeneric(params) == params \in Generic

(* validateStaticCall, which does not look at whether all agrees *)
CompilerAccepts(params, given) ==
    LET T == IF IsGeneric(params) THEN Bindings(params, given).T ELSE <<>>
    IN  \A i \in DOMAIN params : Compatible(Substitute(params[i], T), given[i])

(* VM::maybeSpecializeFunction *)
Specialized(params, args) ==
    LET b == Bindings(params, [i \in DOMAIN args |-> RuntimeType(args[i])])
    IN  IF IsGeneric(params) /\ b.ok THEN [i \in DOMAIN params |-> Substitute(params[i], b.T)]
        ELSE params

(* VM::validateFunctionArguments *)
MachineAccepts(params, args) ==
    \A i \in DOMAIN params : Matches(args[i], Specialized(params, args)[i])

NoCall == [verdict |-> "none"]

(* Calls about data, in a program without classes (a bound); calls with a  *)
(* class or contract, or `this`, whose type is Instance, as the argument.  *)
DataCalls ==
    {<<<<p>>, <<g>>>> : p \in Annotations, g \in Annotations \union {AnyType}}
    \union UNION {{f} \X [DOMAIN f -> {RuntimeType(v) : v \in DataValues} \union {AnyType}] : f \in Generic}

ClassTypes ==
    LET classes == UNION {ToSet(p) : p \in ClassPrograms}
    IN  {Plain(n) : n \in {c.name : c \in classes} \union UNION {c.contracts : c \in classes}}

ClassCalls ==
    {<<<<p>>, <<g>>>> : p \in ClassTypes \union {OrNil(c) : c \in ClassTypes},
                        g \in ClassTypes \union {AnyType, Plain("Nil"), Plain("Instance")}}

-----------------------------------------------------------------------------
(* Compilation, runs and calls. *)

Init ==
    /\ hierarchy = {} /\ compiles = 0 /\ raced = FALSE /\ call = NoCall
    /\ threads = [t \in Threads |-> [pc |-> "idle", todo |-> <<>>, body |-> <<>>, declared |-> <<>>,
                                 classes |-> <<>>]]

Running(t) == threads[t].pc \in {"run", "file"}

(* A program runs when a thread is spawned.  While a call about data is    *)
(* followed, nothing else is compiled (a bound).                           *)
AboutData == call # NoCall /\ (IsGeneric(call.params) \/ call.params[1] \in Annotations)

MayBegin(t) ==
    /\ threads[t].pc = "idle" /\ compiles < MaxCompiles /\ ~AboutData
    /\ t # Repl => \E u \in Threads : Running(u)

Names(classes) == {Head(c.chain) : c \in ToSet(classes)}

(* A superclass stands before its subclasses, or in an earlier program. *)
Extends(p, known) ==
    \A i \in DOMAIN p : p[i].super \in {""} \union known \union {p[j].name : j \in 1..(i - 1)}

MutBeginKeepsTypes(t, p) ==
    /\ MayBegin(t) /\ Extends(p, Names(threads[t].classes))
    /\ \A u \in Threads : threads[u].pc # "compile"
    /\ compiles' = compiles + 1
    /\ threads' = [threads EXCEPT ![t].pc = "compile", ![t].todo = p]
    /\ UNCHANGED <<hierarchy, raced, call>>

BeginCompile(t, p) ==
    /\ MayBegin(t) /\ Extends(p, Names(threads[t].classes))
    /\ \A u \in Threads : threads[u].pc # "compile"
    /\ hierarchy' = {} /\ compiles' = compiles + 1
    /\ threads' = [threads EXCEPT ![t].pc = "compile", ![t].todo = p]
    /\ UNCHANGED <<raced, call>>

(* The parser, the compiler and the table are those of the other thread. *)
CompileTwice(t) ==
    /\ MayBegin(t) /\ \E u \in Threads : threads[u].pc = "compile"
    /\ raced' = TRUE
    /\ UNCHANGED <<hierarchy, threads, compiles, call>>

(* The superclass is noted before the methods are read, the contracts are *)
(* when it is known that these satisfy them.                               *)
BeginClass(t) ==
    LET r == threads[t]
    IN  /\ r.pc = "compile" /\ r.body = <<>> /\ r.todo # <<>>
        /\ hierarchy' = hierarchy \union ({Head(r.todo).name} \X ({Head(r.todo).super} \ {""}))
        /\ threads' = [threads EXCEPT ![t].todo = Tail(@), ![t].body = <<Head(r.todo)>>]
        /\ UNCHANGED <<compiles, raced, call>>

EndClass(t) ==
    LET r == threads[t]
        c == r.body[1]
    IN  /\ r.body # <<>>
        /\ hierarchy' = hierarchy \union ({c.name} \X c.contracts)
        /\ threads' = [threads EXCEPT
               ![t].body = <<>>, ![t].declared = Append(@, ClassOf(c, r.classes \o @, compiles))]
        /\ UNCHANGED <<compiles, raced, call>>

CompileCall(t) ==
    /\ threads[t].pc = "compile" /\ call = NoCall
    /\ \E c \in IF threads[t].declared \o threads[t].body # <<>> THEN ClassCalls
                ELSE IF compiles = 1 /\ threads[t].todo = <<>> THEN DataCalls
                ELSE {} :
           call' = [thread |-> t, compile |-> compiles, seen |-> Names(threads[t].declared),
                    params |-> c[1], given |-> c[2], args |-> <<>>,
                    verdict |-> IF CompilerAccepts(c[1], c[2]) THEN "compiled" ELSE "rejected"]
    /\ UNCHANGED <<hierarchy, threads, compiles, raced>>

OfCall(t) == call # NoCall /\ call.thread = t

After(t) == IF t = Repl THEN "idle" ELSE "done"

(* An error of the compiler is the end of the program. *)
EndCompile(t) ==
    LET r == threads[t]
        refused == OfCall(t) /\ call.verdict = "rejected"
    IN  /\ r.pc = "compile" /\ r.todo = <<>> /\ r.body = <<>>
        /\ threads' = [threads EXCEPT ![t] =
               [pc |-> IF refused THEN After(t) ELSE "run", todo |-> <<>>, body |-> <<>>, declared |-> <<>>,
                classes |-> IF refused THEN r.classes ELSE r.classes \o r.declared]]
        /\ call' = IF refused THEN NoCall ELSE call
        /\ UNCHANGED <<hierarchy, compiles, raced>>

(* A .urc file has the classes and says nothing of what they conform to;   *)
(* the process that runs it is no REPL.                                    *)
RunCompiled(p) ==
    /\ threads[Repl].pc = "idle" /\ compiles = 0 /\ Extends(p, {})
    /\ threads' = [threads EXCEPT ![Repl].pc = "file",
           ![Repl].classes = FoldLeft(LAMBDA known, c : Append(known, ClassOf(c, known, 0)), <<>>, p)]
    /\ UNCHANGED <<hierarchy, compiles, raced, call>>

(* The arguments of a call are literals or variables that were checked     *)
(* against their type when they got their value, as parameters are.        *)
Arguments(t) ==
    LET values == DataValues \union {InstanceOf(c) : c \in ToSet(threads[t].classes)}
    IN  {args \in [DOMAIN call.given -> values] :
            \A i \in DOMAIN args : Matches(args[i], call.given[i]) \/ RuntimeType(args[i]) = call.given[i]}

RunCall(t) ==
    /\ threads[t].pc = "run" /\ OfCall(t) /\ call.verdict = "compiled"
    /\ \E args \in Arguments(t) :
           IF /\ \E u \in Threads : threads[u].pc = "compile"
              /\ \E i \in DOMAIN args : args[i].kind = "Instance"
           THEN raced' = TRUE /\ call' = call
           ELSE /\ raced' = FALSE
                /\ call' = [call EXCEPT !.args = args,
                       !.verdict = IF MachineAccepts(call.params, args) THEN "accepted" ELSE "failed"]
    /\ UNCHANGED <<hierarchy, threads, compiles>>

EndRun(t) ==
    /\ Running(t)
    /\ threads' = [threads EXCEPT ![t].pc = IF @ = "file" THEN "done" ELSE After(t)]
    /\ call' = IF OfCall(t) THEN NoCall ELSE call
    /\ UNCHANGED <<hierarchy, compiles, raced>>

Next ==
    /\ ~raced
    /\ \/ \E t \in Threads :
              \/ \E p \in ClassPrograms : BeginCompile(t, p)
              \/ CompileTwice(t) \/ BeginClass(t) \/ EndClass(t) \/ CompileCall(t) \/ EndCompile(t)
              \/ RunCall(t) \/ EndRun(t)
       \/ \E p \in ClassPrograms : RunCompiled(p)

-----------------------------------------------------------------------------
(* Properties *)

TypeOK ==
    LET types == {c.name : c \in ClassTypes}
        Class == [chain : Seq(types), above : SUBSET types, since : 0..compiles]
    IN  /\ hierarchy \subseteq types \X types
        /\ \A t \in Threads :
               /\ threads[t].pc \in {"idle", "compile", "run", "file", "done"}
               /\ threads[t].todo \o threads[t].body # <<>> => threads[t].pc = "compile"
               /\ \A c \in ToSet(threads[t].classes \o threads[t].declared) : c \in Class
        /\ compiles \in 0..MaxCompiles /\ raced \in BOOLEAN
        /\ call # NoCall => call.thread \in Threads /\ call.compile \in 1..compiles

(* Whether what is declared about a class is what the last compilation read. *)
Current(class) == class.since = compiles /\ compiles > 0

(* An instance belongs to exactly the classes and contracts that stand     *)
(* above its class, if that and its superclasses come from the last        *)
(* compilation, of whatever thread (registerTypeSubtype, isSubtypeOf,      *)
(* clearTypeSubtypes).                                                     *)
TypesAreKnown ==
    \A t \in Threads : \A c \in ToSet(threads[t].classes) :
        Current(c) => \A type \in ClassTypes : Matches(InstanceOf(c), type) <=> type.name \in c.above

(* What the compiler cannot tell of an argument: anything of Any, whether  *)
(* a Number is an int, and what is in an array.                            *)
Unsure(p, g) ==
    \/ g = AnyType \/ p.args # <<>> \/ \E i \in DOMAIN p.variants : p.variants[i].args # <<>>
    \/ "Number" \in {g.name} \union {v.name : v \in ToSet(g.variants)}

Nested(v) == \E i \in DOMAIN v.elements : v.elements[i].kind = "Array"

(* What the compiler accepts the VM accepts, unless the compiler is unsure *)
(* or its table has been cleared since; a literal that the VM would accept *)
(* and an instance whose class conforms are not rejected; and a            *)
(* specialized function accepts the arguments that it was specialized for, *)
(* if no array is in another (validateStaticCall,                          *)
(* validateFunctionArguments, maybeSpecializeFunction).                    *)
ChecksAgree ==
    LET p == call.params
        g == call.given
    IN  /\ call.verdict = "failed" =>
               \/ ~IsGeneric(p) /\ (call.compile # compiles \/ Unsure(p[1], g[1]))
               \/ /\ IsGeneric(p)
                  /\ \/ Specialized(p, call.args) = p
                     \/ \E i \in DOMAIN p : Nested(call.args[i])
        /\ call.verdict = "rejected" /\ ~IsGeneric(p) =>
               /\ \A v \in DataValues : RuntimeType(v) = g[1] => ~Matches(v, p[1])
               /\ \A c \in ToSet(threads[call.thread].declared) :
                      Current(c) /\ Head(c.chain) = g[1].name /\ g[1].name \in call.seen
                      => p[1].name \notin c.above

-----------------------------------------------------------------------------
(* What the documents say, and the code does not                           *)

(* "classes can use `implements`" (process.md:209; the calls of            *)
(* tests/test_interfaces.ur): an instance belongs to what is above its     *)
(* class.  It never does in a program from a .urc file ...                 *)
InstancesConform ==
    \A t \in Threads : \A c \in ToSet(threads[t].classes) :
        Running(t) => \A n \in c.above : Matches(InstanceOf(c), Plain(n))

(* ... and once its class is compiled, it does only until something else   *)
(* is: the next line of the REPL or a script of another thread.            *)
ContractsLast ==
    \A t \in Threads : \A c \in ToSet(threads[t].classes) :
        Running(t) /\ c.since > 0 => \A n \in c.above : Matches(InstanceOf(c), Plain(n))

(* A thread runs a script of its own (doc/language.md:186), which it       *)
(* compiles with the parser, compiler and table of all others.             *)
OneCompiles == ~raced

(* A program that compiles has no argument of a wrong type, and a generic  *)
(* function takes any (process.md:198).                                    *)
CompiledCallsRun == call.verdict # "failed"
=============================================================================
