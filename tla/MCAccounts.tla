----------------------------- MODULE MCAccounts -----------------------------
(***************************************************************************)
(* Instances of Accounts for TLC.                                          *)
(***************************************************************************)
EXTENDS Accounts, TLC

CONSTANTS e1, e2, i1, i2, t1, w1, w2

TwoEmails  == {e1, e2}
OneAllowed == {e1}
OneVerified == {e2}
TwoIds     == {i1, i2}
OneTicket  == {t1}
TwoWorkers == {w1, w2}

Symmetry == Permutations(TwoIds) \cup Permutations(TwoWorkers)
=============================================================================
