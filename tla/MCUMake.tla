------------------------------- MODULE MCUMake -------------------------------
(***************************************************************************)
(* An instance of UMake with all graphs of three targets, cycles, diamonds *)
(* and repeated or unknown names included, and graphs of four in which the *)
(* goal needs the three others, so that two jobs are not enough for all.   *)
(***************************************************************************)
EXTENDS UMake

CONSTANTS a, b, c, d    \* the targets, a being the goal

Lists(S, n) == UNION {[1 .. k -> S] : k \in 0 .. n}

MCGraphs ==
    {g \in [Targets -> Lists({a, b, c, Unknown}, 2)] : g[d] = <<>>}
      \cup {g \in [Targets -> Lists({b, c, d}, 1) \cup {<<b, c, d>>}] :
                g[a] = <<b, c, d>> /\ \A t \in {b, c, d} : Len(g[t]) < 2}
=============================================================================
