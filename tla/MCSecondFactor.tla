--------------------------- MODULE MCSecondFactor ---------------------------
(***************************************************************************)
(* Instances of SecondFactor for TLC.                                      *)
(***************************************************************************)
EXTENDS SecondFactor, TLC

CONSTANTS s1, s2, x1, x2, c1, c2, k1, w1, w2

TwoSessions  == {s1, s2}
TwoSecrets   == {x1, x2}
OneSecret    == {x1}
TwoCodes     == {c1, c2}
OneKey       == {k1}
TwoWorkers   == {w1, w2}

Everything   == Answering \cup Managing \cup {"release"}
FactorOnly   == Everything \ {"register", "remove"}
OnAndKeys    == {"enable", "register", "remove"}

Symmetry == Permutations(TwoSessions) \cup Permutations(TwoSecrets)
                \cup Permutations(TwoCodes) \cup Permutations(TwoWorkers)
=============================================================================
