-------------------------------- MODULE Build --------------------------------
(***************************************************************************)
(* What UMake promises to whoever runs a target, whether it builds one     *)
(* target at a time or several at once: targets are built after all that   *)
(* they need, nothing else is built, nothing is begun after a failure, and *)
(* the result is the truth.                                                *)
(***************************************************************************)
CONSTANTS Targets, Names

VARIABLES
    needs,      \* the names a target needs, those of targets or others
    goal,       \* the name to build
    status,     \* of each target
    result      \* what the run returned

vars == <<needs, goal, status, result>>

Statuses == {"untouched", "building", "built", "broken", "dropped"}
With(s) == {t \in Targets : status[t] = s}

\* The names that are needed, directly or not.
Wanted ==
    {n \in Names :
        \A S \in SUBSET Names :
            goal \in S /\ (\A t \in S \cap Targets : needs[t] \subseteq S) => n \in S}

\* No order of the wanted targets has each of them after what it needs.
Cyclic ==
    \E S \in SUBSET (Wanted \cap Targets) : S # {} /\ \A t \in S : needs[t] \cap S # {}

Init ==
    /\ needs \in [Targets -> SUBSET Names]
    /\ goal \in Names
    /\ status = [t \in Targets |-> "untouched"]
    /\ result = "none"

\* Some targets are begun together.
Begin(S) ==
    /\ result = "none"
    /\ S \subseteq Wanted \cap With("untouched")
    /\ With("broken") = {}
    /\ \A t \in S : needs[t] \subseteq With("built")
    /\ status' = [t \in Targets |-> IF t \in S THEN "building" ELSE status[t]]
    /\ UNCHANGED <<needs, goal, result>>

\* A target is dropped half-built only because another one is broken.
End(t, s) ==
    /\ status[t] = "building"
    /\ s = "dropped" => With("broken") # {}
    /\ status' = [status EXCEPT ![t] = s]
    /\ UNCHANGED <<needs, goal, result>>

\* Nothing goes on after the return.
Return(r) ==
    /\ result = "none"
    /\ With("building") = {}
    /\ \/ r = "ok" /\ goal \in With("built")
       \/ r \in {"command", "expansion"} /\ With("broken") # {}
       \/ r = "cycle" /\ Cyclic
       \/ r = "unknown" /\ Wanted \ Targets # {}
    /\ result' = r
    /\ UNCHANGED <<needs, goal, status>>

Next ==
    \/ \E S \in SUBSET Targets : Begin(S)
    \/ \E t \in Targets, s \in {"built", "broken", "dropped"} : End(t, s)
    \/ \E r \in {"ok", "command", "expansion", "cycle", "unknown"} : Return(r)

Spec == Init /\ [][Next]_vars
=============================================================================
