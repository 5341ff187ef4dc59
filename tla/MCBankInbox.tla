---------------------------- MODULE MCBankInbox ----------------------------
(***************************************************************************)
(* Instances of BankInbox for TLC.                                         *)
(***************************************************************************)
EXTENDS BankInbox, TLC

CONSTANTS m1, m2, h1, a1, a2, w1, w2

TwoMovements    == {m1, m2}
TwoAutoReceipts == {a1, a2}
TwoWorkers      == {w1, w2}

Symmetry == Permutations(TwoMovements) \cup Permutations(TwoAutoReceipts)
                \cup Permutations(TwoWorkers)
=============================================================================
