------------------------------- MODULE Exits --------------------------------
(***************************************************************************)
(* Break, continue, return and throw through loops, functions and try      *)
(* statements, as src/compiler.cpp compiles them.                          *)
(*                                                                         *)
(* The compiler reads a program once, from its beginning to its end, and   *)
(* keeps currentLoop and currentTry, the innermost loop and try statement  *)
(* it is in.  An exit inside a try is not a jump to its target: it is      *)
(* noted in the try statement (a pending transfer), and where that         *)
(* statement ends code is written that goes on with it, in the try         *)
(* statement around or, when there is none, at its target.                 *)
(*                                                                         *)
(* A behaviour is one program, read construct by construct, with one exit  *)
(* in it.  Constructs are known by their depth, which is unique from the   *)
(* exit on because nothing is opened after it.                             *)
(***************************************************************************)
EXTENDS Integers, Sequences, SequencesExt

CONSTANTS MaxDepth   \* bound on the depth of nesting

VARIABLES
    nest,         \* the constructs that are open, outermost first
    currentLoop,  \* the depth of the loop the compiler thinks it is in, or 0
    currentTry,   \* the depth of the try statement likewise
    exit          \* the exit statement: what it means and where it goes

exitVars == <<nest, currentLoop, currentTry, exit>>

Depths == DOMAIN nest

Outside == 0      \* no construct: out of the function, or of the program

Lost == -1        \* a jump that is written into the code of another function

NoExit == [kind |-> "none"]

Clauses == {"body", "catch", "finally"}

-----------------------------------------------------------------------------
(* What the constructs around a statement mean: the reference. *)

Is(d, kind) == nest[d].kind = kind

Deepest(S) == IF S = {} THEN Outside ELSE CHOOSE d \in S : \A k \in S : k <= d

InnermostFn == Deepest({d \in Depths : Is(d, "fn")})

(* The constructs of the function that the compiler is in. *)
Here == {d \in Depths : d > InnermostFn}

(* A try statement whose finally block is still to come. *)
Guards(d) == Is(d, "try") /\ nest[d].clause # "finally"

Owed(d) == Guards(d) /\ nest[d].finally

Catches(d) == Is(d, "try") /\ nest[d].clause = "body" /\ nest[d].catch

Target(kind) ==
    CASE kind = "return"              -> InnermostFn
      [] kind \in {"break", "continue"} -> Deepest({d \in Here : Is(d, "loop")})
      [] kind = "throw"               -> Deepest({d \in Here : Catches(d)})

(* The finally blocks to run on the way. *)
FinallysOnTheWay(kind) == {d \in Here : d > Target(kind) /\ Owed(d)}

(* The exits that are compiled right: nothing guarded stands around the    *)
(* target; a throw does not cross the catch block of a try statement with  *)
(* a finally, and not both a finally and a catch further out.              *)
PlainExit(kind) ==
    IF kind # "throw" THEN \A d \in Depths : Guards(d) => d > Target(kind)
    ELSE /\ \A d \in FinallysOnTheWay(kind) : nest[d].clause = "body"
         /\ FinallysOnTheWay(kind) # {} =>
                \A d \in Depths : Guards(d) => d \in Here /\ ~Catches(d)

-----------------------------------------------------------------------------
(* What the compiler does. *)

Push(c) ==
    /\ Len(nest) < MaxDepth
    /\ exit = NoExit
    /\ nest' = Append(nest, c)
    /\ exit' = exit

(* function() does not put currentLoop and currentTry aside. *)
BeginFunction ==
    /\ Push([kind |-> "fn"])
    /\ UNCHANGED <<currentLoop, currentTry>>

BeginLoop ==
    /\ Push([kind |-> "loop", enclosing |-> currentLoop])
    /\ currentLoop' = Len(nest) + 1
    /\ currentTry' = currentTry

BeginTry(catch, finally) ==
    /\ Push([kind |-> "try", clause |-> "body", catch |-> catch, finally |-> finally,
             enclosing |-> currentTry])
    /\ currentTry' = Len(nest) + 1
    /\ currentLoop' = currentLoop

Pending(x, d) == [x EXCEPT !.state = "pending", !.at = d]

Arrived(x, d) == [x EXCEPT !.state = "done", !.got = d]

(* emitTryTransfer: the exit is noted in currentTry.  Its jump is patched  *)
(* where that try statement ends, in the code of that one's function.      *)
Transfer(x) == IF currentTry \in Here THEN Pending(x, currentTry) ELSE Arrived(x, Lost)

Statement(kind) ==
    [kind |-> kind, want |-> Target(kind), owed |-> FinallysOnTheWay(kind), plain |-> PlainExit(kind),
     loop |-> currentLoop, state |-> "read", at |-> Outside, run |-> <<>>, got |-> Outside]

Exit(x) ==
    /\ exit = NoExit
    /\ exit' = x
    /\ UNCHANGED <<nest, currentLoop, currentTry>>

Return ==
    LET x == Statement("return")
    IN  /\ InnermostFn # Outside
        /\ Exit(IF currentTry # Outside THEN Transfer(x) ELSE Arrived(x, InnermostFn))

(* A break or continue with no loop around it in its function is left out. *)
ToLoop(x, d) == Arrived(x, IF d = Outside \/ d \in Here THEN d ELSE Lost)

BreakOrContinue(kind) ==
    LET x == Statement(kind)
    IN  /\ x.want # Outside
        /\ Exit(IF currentTry # Outside THEN Transfer(x) ELSE ToLoop(x, currentLoop))

(* At run time the innermost handler is that of the innermost try whose    *)
(* body is being run.  Without a catch the exception is noted there.       *)
Throw ==
    LET x == Statement("throw")
        handler == Deepest({d \in Here : Is(d, "try") /\ nest[d].clause = "body"})
    IN  Exit(IF handler = Outside \/ nest[handler].catch THEN Arrived(x, handler)
             ELSE Pending(x, handler))

EndFunctionOrLoop ==
    LET c == Last(nest)
    IN  /\ nest # <<>> /\ c.kind \in {"fn", "loop"}
        /\ nest' = Front(nest)
        /\ currentLoop' = IF c.kind = "loop" THEN c.enclosing ELSE currentLoop
        /\ UNCHANGED <<currentTry, exit>>

InTry(clauses) == nest # <<>> /\ Last(nest).kind = "try" /\ Last(nest).clause \in clauses

BeginCatch ==
    /\ InTry({"body"}) /\ Last(nest).catch
    /\ nest' = [nest EXCEPT ![Len(nest)].clause = "catch"]
    /\ UNCHANGED <<currentLoop, currentTry, exit>>

LastBeforeFinally == IF Last(nest).catch THEN "catch" ELSE "body"

MutBeginFinallyInTry ==
    /\ InTry({LastBeforeFinally}) /\ Last(nest).finally
    /\ nest' = [nest EXCEPT ![Len(nest)].clause = "finally"]
    /\ UNCHANGED <<currentLoop, currentTry, exit>>

BeginFinally ==
    /\ InTry({LastBeforeFinally}) /\ Last(nest).finally
    /\ nest' = [nest EXCEPT ![Len(nest)].clause = "finally"]
    /\ currentTry' = Last(nest).enclosing
    /\ UNCHANGED <<currentLoop, exit>>

MutContinuationJumpsOut(x, outer) ==
    CASE x.kind = "return"   -> Arrived(x, InnermostFn)
      [] x.kind = "break"    -> ToLoop(x, currentLoop)
      [] x.kind = "continue" -> Arrived(x, x.loop)
      [] x.kind = "throw"    -> Arrived(x, Outside)

(* emitTransferContinuation, where try statement d ends: the exit has run  *)
(* its finally block, and goes on in the try statement around if there is  *)
(* one.  A break takes the loop that the compiler is in by then.           *)
Continuation(x, outer) ==
    IF outer # Outside THEN IF outer \in Here THEN Pending(x, outer) ELSE Arrived(x, Lost)
    ELSE CASE x.kind = "return"   -> Arrived(x, InnermostFn)
           [] x.kind = "break"    -> ToLoop(x, currentLoop)
           [] x.kind = "continue" -> Arrived(x, x.loop)
           [] x.kind = "throw"    -> Arrived(x, Outside)

EndTry ==
    LET t == Last(nest)
        d == Len(nest)
        x == IF t.finally THEN [exit EXCEPT !.run = Append(@, d)] ELSE exit
    IN  /\ InTry({IF t.finally THEN "finally" ELSE "catch"})
        /\ nest' = Front(nest)
        /\ currentTry' = t.enclosing
        /\ exit' = IF exit # NoExit /\ exit.state = "pending" /\ exit.at = d
                   THEN Continuation(x, t.enclosing) ELSE exit
        /\ currentLoop' = currentLoop

ExitsInit ==
    /\ nest = <<>>
    /\ currentLoop = Outside
    /\ currentTry = Outside
    /\ exit = NoExit

ExitsNext ==
    \/ BeginFunction \/ BeginLoop
    \/ \E catch, finally \in BOOLEAN : (catch \/ finally) /\ BeginTry(catch, finally)
    \/ Return \/ BreakOrContinue("break") \/ BreakOrContinue("continue") \/ Throw
    \/ EndFunctionOrLoop \/ BeginCatch \/ BeginFinally \/ EndTry

ExitsSpec == ExitsInit /\ [][ExitsNext]_exitVars

-----------------------------------------------------------------------------
ExitsTypeOK ==
    /\ \A d \in Depths : nest[d].kind \in {"fn", "loop", "try"}
    /\ currentLoop \in {Outside} \union Depths
    /\ currentTry \in {Outside} \union Depths
    /\ exit # NoExit => exit.state \in {"pending", "done"} /\ (exit.state = "pending" => exit.at \in Depths)

(* currentLoop and currentTry are the innermost loop and the innermost try *)
(* statement whose finally block is not reached, when nesting is undone    *)
(* too (whileStatement, forStatement, tryStatement).                       *)
NestingIsTracked ==
    /\ currentLoop = Deepest({d \in Depths : Is(d, "loop")})
    /\ currentTry = Deepest({d \in Depths : Guards(d)})

(* It arrives where it is meant to, after exactly the finally blocks that  *)
(* it is owed, each once and innermost first.                              *)
Right(x) ==
    /\ x.got = x.want
    /\ ToSet(x.run) = x.owed
    /\ \A i, j \in DOMAIN x.run : i < j => x.run[i] > x.run[j]

(* An exit that stands in no try statement its target stands in arrives    *)
(* where it is meant to, after exactly the finally blocks on its way, each *)
(* once and innermost first (emitTryTransfer, emitTransferContinuation).   *)
PlainExitsAreRight ==
    exit # NoExit /\ exit.plain /\ exit.state = "done" => Right(exit)

(* "throw, try/catch/finally" (process.md:24): every exit arrives where it *)
(* is meant to.  An exit of a loop or function that stands in a try        *)
(* statement, a throw in a catch block and an exception that a try without *)
(* catch passes on do not.                                                 *)
ExitsAreRight == exit # NoExit /\ exit.state = "done" => Right(exit)
=============================================================================
