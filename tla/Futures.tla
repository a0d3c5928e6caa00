------------------------------- MODULE Futures -------------------------------
(***************************************************************************)
(* What the task scheduler of the Uranium VM promises to scripts, without  *)
(* its queue, its awaiter lists, its timers and its time slices.           *)
(*                                                                         *)
(* A task is a future.  It is pending until it is settled, once, by a      *)
(* result or by a failure.  A task that awaits a pending one is blocked    *)
(* and does nothing until that one is settled; it then has its outcome,    *)
(* the one every other awaiter gets, delivered exactly once: a result is   *)
(* the value of the await, a failure is raised at the await and, when      *)
(* nothing there catches it, becomes the outcome of the awaiting task.     *)
(* A blocked task is failed by force only when nobody can make progress.   *)
(***************************************************************************)
EXTENDS Naturals

CONSTANTS Tasks, NoTask, Outcomes

VARIABLES
    status,     \* "none", "pending", "fulfilled", "rejected" or "discarded"
    value,      \* the outcome of a settled task, as a set of at most one
    blockedOn,  \* the pending task a blocked task awaits
    inbox,      \* the outcome not yet delivered, as a set of at most one
    abandoned   \* pending tasks that will never take another step

vars == <<status, value, blockedOn, inbox, abandoned>>

TypeOK ==
    /\ status \in [Tasks -> {"none", "pending", "fulfilled", "rejected", "discarded"}]
    /\ value \in [Tasks -> SUBSET Outcomes]
    /\ blockedOn \in [Tasks -> Tasks \cup {NoTask}]
    /\ inbox \in [Tasks -> SUBSET Outcomes]
    /\ abandoned \in SUBSET Tasks

Init ==
    /\ status = [t \in Tasks |-> "none"]
    /\ value = [t \in Tasks |-> {}]
    /\ blockedOn = [t \in Tasks |-> NoTask]
    /\ inbox = [t \in Tasks |-> {}]
    /\ abandoned = {}

Pending == {t \in Tasks : status[t] = "pending"}
Blocked == {t \in Pending : blockedOn[t] # NoTask}

\* The task may act: it is pending, not blocked, and has no mail to take first.
Acting(t) ==
    /\ t \in Pending \ (Blocked \cup abandoned)
    /\ inbox[t] = {}

\* An acting task, or the program itself, starts another one.
Start(t) ==
    /\ status[t] = "none"
    /\ status' = [status EXCEPT ![t] = "pending"]
    /\ UNCHANGED <<value, blockedOn, inbox, abandoned>>

\* The task t gets its outcome, and so does everyone blocked on it.
SettleWith(t, o) ==
    /\ status' = [status EXCEPT ![t] = IF o.isException THEN "rejected" ELSE "fulfilled"]
    /\ value' = [value EXCEPT ![t] = {o}]
    /\ blockedOn' = [u \in Tasks |-> IF u = t \/ blockedOn[u] = t THEN NoTask
                                     ELSE blockedOn[u]]
    /\ inbox' = [u \in Tasks |-> IF u = t THEN {}
                                 ELSE IF blockedOn[u] = t THEN {o}
                                 ELSE inbox[u]]
    /\ abandoned' = abandoned \ {t}

Settle(t, o) == Acting(t) /\ SettleWith(t, o)

\* An acting task awaits a pending one.
Block(t, u) ==
    /\ Acting(t)
    /\ u \in Pending \ {t}
    /\ blockedOn' = [blockedOn EXCEPT ![t] = u]
    /\ UNCHANGED <<status, value, inbox, abandoned>>

\* The outcome is delivered: pushed as the value of the await, or caught there.
Receive(t) ==
    /\ inbox[t] # {}
    /\ inbox' = [inbox EXCEPT ![t] = {}]
    /\ UNCHANGED <<status, value, blockedOn, abandoned>>

\* The outcome delivered is a failure and nothing catches it.
ReceiveUncaught(t) ==
    \E o \in inbox[t] : o.isException /\ SettleWith(t, o)

\* Nobody can make progress: one of the tasks is failed.
BreakDeadlock(t, o) ==
    /\ o.isException
    /\ Pending \subseteq Blocked \cup abandoned
    /\ t \in Pending
    /\ SettleWith(t, o)

\* The debugger's user abandons the task that runs.
Abandon(t) ==
    /\ Acting(t)
    /\ abandoned' = abandoned \cup {t}
    /\ UNCHANGED <<status, value, blockedOn, inbox>>

\* A new program: the tasks of the old one are discarded, S are its first
\* tasks, and F those of them that failed before they started.
NewProgram(S, F) ==
    /\ S # {} /\ F \subseteq S
    /\ \A t \in S : status[t] = "none"
    /\ status' = [t \in Tasks |-> IF t \in F THEN "rejected"
                                  ELSE IF t \in S THEN "pending"
                                  ELSE IF status[t] = "none" THEN "none"
                                  ELSE "discarded"]
    /\ \E o \in Outcomes :
          /\ o.isException
          /\ value' = [t \in Tasks |-> IF t \in F THEN {o} ELSE {}]
    /\ blockedOn' = [t \in Tasks |-> NoTask]
    /\ inbox' = [t \in Tasks |-> {}]
    /\ abandoned' = {}

Next ==
    \/ \E t \in Tasks :
          \/ Start(t) \/ Receive(t) \/ ReceiveUncaught(t) \/ Abandon(t)
          \/ \E u \in Tasks : Block(t, u)
          \/ \E o \in Outcomes : Settle(t, o) \/ BreakDeadlock(t, o)
    \/ \E S, F \in SUBSET Tasks : NewProgram(S, F)

Spec == Init /\ [][Next]_vars
=============================================================================
