--------------------------- MODULE MCBankConsent ---------------------------
(***************************************************************************)
(* Instances of BankConsent for TLC.                                       *)
(***************************************************************************)
EXTENDS BankConsent, TLC

CONSTANTS c1, c2, w1, w2

TwoAttempts == {c1, c2}
TwoWorkers  == {w1, w2}

Symmetry == Permutations(TwoAttempts) \cup Permutations(TwoWorkers)
=============================================================================
