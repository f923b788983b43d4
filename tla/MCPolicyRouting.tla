-------------------------- MODULE MCPolicyRouting --------------------------
(***************************************************************************)
(* Small policies: an application's own rule at high priority, a block and *)
(* an allow that tie, a catch-all without a destination, and filters that  *)
(* outrank the policy or take one of its names.                            *)
(***************************************************************************)
EXTENDS PolicyRouting

R(name, priority, action, dest, entities, apps, min) ==
    [name |-> name, priority |-> priority, action |-> action, destination |-> dest,
     entities |-> entities, applications |-> apps, min_score |-> min]

CatchAll == R(1, 0, "allow", "", {}, {}, 0)
TieAllow == R(2, 50, "allow", "external", {"EMAIL"}, {}, 0)
TieBlock == R(3, 50, "block", "", {"EMAIL"}, {}, 1)
AppRule == R(4, 90, "transform", "external", {}, {"app"}, 0)
LocalRule == R(5, 60, "route_local", "", {"NAME"}, {}, 0)

MCYaml == {CatchAll, TieAllow, TieBlock, AppRule, LocalRule}
MCFilters == {R(7, 95, "transform", "external", {"NAME"}, {}, 0),
              R(3, 100, "block", "", {"NAME"}, {}, 0)}

MCDestinations == Clients \cup {"typo"}
MCInspections == {{}, {[type |-> "EMAIL", score |-> 0]}, {[type |-> "NAME", score |-> 1]},
                  {[type |-> "EMAIL", score |-> 1], [type |-> "NAME", score |-> 0]}}
=============================================================================
