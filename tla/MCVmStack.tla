----------------------------- MODULE MCVmStack -----------------------------
(* The root task alone, with a deep stack and two upvalues; and a root task  *)
(* with a small task that it spawns, and one upvalue.                        *)
EXTENDS VmStack, TLC

CONSTANTS t1, t2, c1, c2, v1, v2

MCMaxSlots == t1 :> 4 @@ t2 :> 2
MCMaxHandlers == t1 :> 2 @@ t2 :> 0

Size == Len(m.handlers[t1]) + Cardinality(m.used)

(* Bounds: of two handlers and two upvalues at most three at once; and a     *)
(* root task with a spawned task beside it is small.                         *)
AloneOrSmall ==
    IF life[t2] = "unborn" THEN Size <= 3
    ELSE Top(m, t1) <= 3 /\ Len(m.handlers[t1]) <= 1 /\ Cardinality(m.used) <= 1

PairSlots == t1 :> 3 @@ t2 :> 2
PairHandlers == t1 :> 1 @@ t2 :> 0
Symmetry == Permutations({c1, c2})
=============================================================================
