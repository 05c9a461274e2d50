----------------------------- MODULE MCFlowRuns -----------------------------
(* Two strategies: one exchange and one symbol in common, one each of its own. *)
EXTENDS FlowRuns

CONSTANTS a, b, e1, e2, s1, s2

MCStrategies == {a, b}
SharedExchange == [st \in MCStrategies |-> IF st = a THEN {e1, e2} ELSE {e1}]
CommonPool == [st \in MCStrategies |-> IF st = a THEN {s1} ELSE {s1, s2}]
=============================================================================
