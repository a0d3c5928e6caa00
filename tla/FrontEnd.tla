------------------------------ MODULE FrontEnd ------------------------------
(***************************************************************************)
(* compileSourceProgram (src/main.cpp): the source loader makes one text   *)
(* of a program, the compiler reads it, and at the end of compile() the    *)
(* optimizer goes over its chunks.                                         *)
(*                                                                         *)
(* The compiler refuses a text that defines a global name twice.  The text *)
(* is abstracted: Exits and Scopes read any constructs in it, and Peephole *)
(* takes any chunk, so it makes no difference which program they come      *)
(* from, and one is enough (a bound).  Exits, Scopes and Types are three   *)
(* sides of one pass that have no state in common, and are taken in turn;  *)
(* Types goes on to the run of the program, and to what other threads      *)
(* compile and run meanwhile, since they all have one table of types.      *)
(***************************************************************************)
EXTENDS SourceLoader, CompilerPasses

CONSTANTS
    Compiled,  \* bound: the programs that are compiled when they load
    Threads, Repl, ClassPrograms, MaxCompiles,  \* what Types is about: the threads,
    Annotations, DataValues, Generic            \* their classes, types and values

ASSUME FrontEndAssumption == Repl \in Threads /\ MaxCompiles \in Nat

VARIABLES
    hierarchy, threads, compiles, raced, call,  \* that of module Types
    compiling             \* "no", "refused", "exits", "names", "types" or "optimize"

typeVars == <<hierarchy, threads, compiles, raced, call>>

allVars == <<vars, exitVars, scopeVars, typeVars, optimizerVars, compiling>>

Type == INSTANCE Types

-----------------------------------------------------------------------------
(* The names of a module that become global variables of the program: the  *)
(* declarations of the entry, under their own names, and those that an     *)
(* import binds, which are written as `let name = symbol`.                 *)
GlobalNames(m) == DOMAIN loaded[m].names \union IF m = Entry THEN Decls(m) ELSE {}

Clash ==
    \E i, j \in DOMAIN emitted :
        i # j /\ GlobalNames(emitted[i]) \intersect GlobalNames(emitted[j]) # {}

Load == Next /\ UNCHANGED <<exitVars, scopeVars, typeVars, optimizerVars, compiling>>

GoTo(from, to) ==
    /\ phase = "done"
    /\ compiling = from /\ compiling' = to
    /\ UNCHANGED <<vars, exitVars, scopeVars, typeVars, optimizerVars>>

Redeclared == Clash /\ GoTo("no", "refused")

BeginCompile == ~Clash /\ program \in Compiled /\ GoTo("no", "exits")

CompileExits ==
    /\ compiling = "exits" /\ ExitsNext
    /\ UNCHANGED <<vars, scopeVars, typeVars, optimizerVars, compiling>>

EndExits == nest = <<>> /\ exit = NoExit /\ GoTo("exits", "names")

CompileNames ==
    /\ compiling = "names" /\ ScopesNext
    /\ UNCHANGED <<vars, exitVars, typeVars, optimizerVars, compiling>>

EndNames == text.length = 0 /\ status = "compile" /\ GoTo("names", "types")

CheckTypes ==
    /\ compiling = "types" /\ Type!Next
    /\ UNCHANGED <<vars, exitVars, scopeVars, optimizerVars, compiling>>

EndTypes == Type!Init /\ GoTo("types", "optimize")

Optimize ==
    /\ compiling = "optimize" /\ Peep!Next
    /\ UNCHANGED <<vars, exitVars, scopeVars, typeVars, compiling>>

FrontEndInit ==
    Init /\ ExitsInit /\ ScopesInit /\ Type!Init /\ Peep!Init /\ compiling = "no"

FrontEndNext ==
    \/ Load
    \/ Redeclared \/ BeginCompile \/ CompileExits \/ EndExits \/ CompileNames \/ EndNames
    \/ CheckTypes \/ EndTypes \/ Optimize

(* The loader is called and runs to its end on one thread. *)
FrontEndSpec == FrontEndInit /\ [][FrontEndNext]_allVars /\ WF_allVars(Load)

-----------------------------------------------------------------------------
(* The states of all are well formed; in the compiler, currentLoop and    *)
(* currentTry are the innermost loop and the innermost try statement whose *)
(* finally block is not reached, when nesting is undone too                *)
(* (whileStatement, forStatement, tryStatement).                           *)
WellFormed ==
    /\ TypeOK /\ ExitsTypeOK /\ ScopesTypeOK /\ Type!TypeOK /\ Peep!TypeOK
    /\ NestingIsTracked

(* As long as nothing is compiled after them, instances belong to exactly  *)
(* what stands above their classes (registerTypeSubtype, isSubtypeOf,      *)
(* clearTypeSubtypes).                                                     *)
TypesAreKnown == Type!TypesAreKnown

(* The compiler and the VM agree about arguments: what the one accepts the *)
(* other does, but for Any, Number and what is in arrays, and as long as   *)
(* nothing else is compiled; literals and instances that the VM would      *)
(* accept are not rejected; specialized functions accept what they were    *)
(* specialized for, but for arrays in arrays (validateStaticCall,          *)
(* validateFunctionArguments, maybeSpecializeFunction).                    *)
ChecksAgree == Type!ChecksAgree

-----------------------------------------------------------------------------
(* What the documents say, and the code does not                           *)

(* "peephole optimizer" (process.md:52), --O1 and --O2 in language.md:215: *)
(* optimized programs mean the same.  See SafeRewritesKeepMeaning.         *)
OptimizedMeansTheSame == Peep!OptimizedMeansTheSame

(* "imports, from ... import ..., aliases" (process.md:37): a program that *)
(* loads is not refused for what its imports bind.  Two modules that       *)
(* import the same name, even of the same symbol, define it twice.         *)
ImportsCompile == compiling # "refused"
=============================================================================
