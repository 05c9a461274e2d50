----------------------------- MODULE MCDailyRuns -----------------------------
(* Two daily strategies on one exchange, with a symbol in common. *)
EXTENDS DailyRuns

CONSTANTS a, b, e1, s1, s2

MCStrategies == {a, b}
MCRequired == [st \in MCStrategies |-> {e1}]
CommonPool == [st \in MCStrategies |-> IF st = a THEN {s1} ELSE {s1, s2}]
=============================================================================
