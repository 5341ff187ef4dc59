---------------------------- MODULE MCRentLedger ----------------------------
(***************************************************************************)
(* Instances of RentLedger for TLC.                                         *)
(***************************************************************************)
EXTENDS RentLedger, TLC

CONSTANTS r1, r2, w1, w2

TwoReceipts == {r1, r2}
TwoWorkers  == {w1, w2}
OneWorker   == {w1}

\* Receipts are interchangeable, and so are workers: no property names one.
Symmetry        == Permutations(TwoReceipts) \cup Permutations(TwoWorkers)
ReceiptSymmetry == Permutations(TwoReceipts)
=============================================================================
