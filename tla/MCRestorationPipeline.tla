----------------------- MODULE MCRestorationPipeline -----------------------
(***************************************************************************)
(* Two requests over small vaults.  "a" and "A" are two spellings of one   *)
(* value, "b" is another.                                                  *)
(***************************************************************************)
EXTENDS RestorationPipeline, TLC

MCSpellings == {"a", "A", "b"}
MCCanons == {"ca", "cb"}
MCCanon == [s \in MCSpellings |-> IF s = "b" THEN "cb" ELSE "ca"]

MCTags == {"ta", "tb"}
DistinctTags == [sc \in Scope \X MCCanons |-> IF sc[2] = "ca" THEN "ta" ELSE "tb"]
\* every value of a scope has the same tag
CollidingTags == [sc \in Scope \X MCCanons |-> "ta"]

OneRing == [n \in Nodes |-> {1}]
OneActive == [n \in Nodes |-> 1]
\* a rolling rotation: n1 still runs with the old ring
RollingRing == [n \in Nodes |-> IF n = "n1" THEN {1} ELSE {1, 2}]
RollingActive == [n \in Nodes |-> IF n = "n1" THEN 1 ELSE 2]

Symmetry == Permutations(Requests)

PairInputs == {<<"a", "A">>, <<"A">>}
CollidingInputs == {<<"a">>, <<"b", "a">>}
OneReply == {<<"ta">>}
PairReply == {<<"tb", "ta">>}
=============================================================================
