---------------------------- MODULE ScanContract ----------------------------
(***************************************************************************)
(* What a scan promises to whoever asked for it, without its stages: it    *)
(* runs, ends with an outcome, may have that outcome amended while it is   *)
(* being finalized, and is committed once.  CONTEXT.md calls the committed *)
(* report the complete report: its status, findings, exposure and          *)
(* completion time no longer change.                                       *)
(***************************************************************************)

VARIABLES
    accepted,    \* the configuration passed preflight, fixed for a scan
    phase,       \* "running", "ended" (finalization pending or under way), "committed"
    outcome,     \* the report's status
    cancelled,   \* the operator asked to stop
    expired      \* the deadline passed

vars == <<accepted, phase, outcome, cancelled, expired>>

Outcomes == {"completed", "partial", "interrupted", "failed"}

\* Outcomes an ended scan may be left with: only cancellation interrupts, only a
\* stopped scan is amended, and no amendment makes a scan look better.
Amended ==
    {outcome} \cup (IF cancelled /\ accepted THEN {"interrupted"} ELSE {})
              \cup (IF expired /\ outcome \in {"completed", "partial"}
                    THEN {"partial", "failed"} ELSE {})

Init == /\ accepted \in BOOLEAN
        /\ phase = "running" /\ outcome = "not_started"
        /\ cancelled = FALSE /\ expired = FALSE

Request == /\ \/ ~cancelled /\ cancelled' = TRUE /\ UNCHANGED expired
              \/ ~expired /\ expired' = TRUE /\ UNCHANGED cancelled
           /\ UNCHANGED <<accepted, phase, outcome>>

End == /\ phase = "running" /\ phase' = "ended"
       /\ outcome' \in Outcomes
       /\ outcome' = "interrupted" => cancelled
       /\ ~accepted => outcome' = "failed"
       /\ UNCHANGED <<accepted, cancelled, expired>>

Amend == /\ phase = "ended"
         /\ outcome' \in Amended
         /\ UNCHANGED <<accepted, phase, cancelled, expired>>

\* A stop requested before the commit shows in the committed outcome.
Commit == /\ phase = "ended" /\ phase' = "committed"
          /\ outcome' \in Amended
          /\ cancelled /\ accepted => outcome' = "interrupted"
          /\ expired => outcome' # "completed"
          /\ UNCHANGED <<accepted, cancelled, expired>>

Next == Request \/ End \/ Amend \/ Commit

\* What a scan promises of every step; Spec adds that it ends and is committed.
Steps == Init /\ [][Next]_vars
Spec == Steps /\ WF_vars(End) /\ WF_vars(Commit)
=============================================================================
