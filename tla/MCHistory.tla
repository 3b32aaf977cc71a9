----------------------------- MODULE MCHistory -----------------------------
(* History for TLC: four scans, three of one target, one with high findings;  *)
(* two migrations; policies by age, by count, by both, dry, and by neither.   *)
EXTENDS History

CONSTANTS c1, c2, a, b

MCTargetOf == [s \in Scans |-> IF s <= 3 THEN a ELSE b]
MCHigh == {2}

Policy(keep, cutoff, preserve, dry) ==
    [keep |-> keep, cutoff |-> cutoff, preserve |-> preserve, dry |-> dry]

MCPolicies == {Policy(1, None, FALSE, FALSE), Policy(1, 3, TRUE, FALSE),
               Policy(None, 3, FALSE, FALSE), Policy(2, 4, FALSE, FALSE),
               Policy(1, 3, FALSE, TRUE),
               Policy(None, None, FALSE, FALSE)}
=============================================================================
