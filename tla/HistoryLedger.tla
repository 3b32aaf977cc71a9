--------------------------- MODULE HistoryLedger ---------------------------
(***************************************************************************)
(* What the scan history promises, without processes, transactions or      *)
(* policies: a scan is stored once, at most once deleted, and is in the    *)
(* audit trail exactly when it was deleted.                                *)
(***************************************************************************)
CONSTANT Scans

VARIABLES fate,      \* what became of each scan
          audited    \* the scans the audit trail says were deleted

Init == /\ fate = [s \in Scans |-> "unknown"]
        /\ audited = {}

Store(s) == /\ fate[s] = "unknown"
            /\ fate' = [fate EXCEPT ![s] = "stored"]
            /\ UNCHANGED audited

Discard(gone) == /\ \A s \in gone : fate[s] = "stored"
                 /\ fate' = [s \in Scans |-> IF s \in gone THEN "deleted" ELSE fate[s]]
                 /\ audited' = audited \cup gone

Next == \/ \E s \in Scans : Store(s)
        \/ \E gone \in SUBSET Scans : Discard(gone)

Spec == Init /\ [][Next]_<<fate, audited>>
=============================================================================
