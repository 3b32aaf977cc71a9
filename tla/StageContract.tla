--------------------------- MODULE StageContract ---------------------------
(***************************************************************************)
(* What the active stages promise the scan they are part of: one after the *)
(* other, each finishes its work unless the scan is being stopped, work    *)
(* that was cut short is never built upon, and the stages end.             *)
(***************************************************************************)
EXTENDS Naturals, Sequences

CONSTANT Stages   \* the scheduled stages, in their order

VARIABLES progress, outcome, cancelled, expired

vars == <<progress, outcome, cancelled, expired>>

Positions == DOMAIN Stages
Init == /\ progress = [i \in Positions |-> "waiting"] /\ outcome = "running"
        /\ ~cancelled /\ ~expired

Begin == /\ outcome = "running"
         /\ \E i \in Positions :
               /\ progress[i] = "waiting" /\ \A j \in 1 .. i - 1 : progress[j] = "full"
               /\ progress' = [progress EXCEPT ![i] = "running"]
         /\ UNCHANGED <<outcome, cancelled, expired>>

End == /\ outcome = "running"
       /\ \E i \in Positions : /\ progress[i] = "running"
                               /\ \/ progress' = [progress EXCEPT ![i] = "full"]
                                  \/ /\ cancelled \/ expired
                                     /\ progress' = [progress EXCEPT ![i] = "cut"]
       /\ UNCHANGED <<outcome, cancelled, expired>>

Stop == /\ outcome = "running" /\ \A i \in Positions : progress[i] # "running"
        /\ \/ cancelled /\ outcome' = "cancelled"
           \/ expired /\ outcome' = "timeout"
        /\ UNCHANGED <<progress, cancelled, expired>>

Settle == /\ outcome = "running" /\ \A i \in Positions : progress[i] = "full"
          /\ ~cancelled /\ outcome' = "settled"
          /\ UNCHANGED <<progress, cancelled, expired>>

Signal == /\ \/ ~cancelled /\ cancelled' = TRUE /\ UNCHANGED expired
             \/ ~expired /\ expired' = TRUE /\ UNCHANGED cancelled
          /\ UNCHANGED <<progress, outcome>>

Work == Begin \/ End \/ Stop \/ Settle

\* What the stages promise of every step; Spec adds that they end.
Steps == Init /\ [][Work \/ Signal]_vars
Spec == Steps /\ WF_vars(Work)
=============================================================================
