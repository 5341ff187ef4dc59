----------------------------- MODULE MCBackfill -----------------------------
(***************************************************************************)
(* RentLedger with a record of what the backfill script has done, to state  *)
(* what its header says of its re-runs.                                     *)
(***************************************************************************)
EXTENDS MCRentLedger

VARIABLE backfilled   \* receipts that a run of the script has allocated

ScriptAllocates(r) ==
    request[Script].receipt = r /\ ~HoldsMoney(r) /\ HoldsMoney(r)'

RunsInit == Init /\ backfilled = {}

RunsNext ==
    /\ Next
    /\ backfilled' = backfilled \cup {r \in Receipts : ScriptAllocates(r)}

RunsSpec == RunsInit /\ [][RunsNext]_<<vars, backfilled>>

\* A re-run does nothing (backfill-rent-periods.ts:5-7): of a receipt that a run of the
\* script has allocated and a void has taken off the months, a later run puts no
\* money back.
RerunIsNoOp ==
    [][\A r \in backfilled :
         receipt[r].lifecycle = "voided" => ~ScriptAllocates(r)]_<<vars, backfilled>>
=============================================================================
