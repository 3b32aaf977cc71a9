----------------------------- MODULE ScanProofs -----------------------------
(* Theorems of ScanLifecycle, for every set of error batches, and of         *)
(* ScanCommand, for every set of command lines.  The scan comes first: the   *)
(* command rests on what its invariant says of the report a scan returns.    *)
EXTENDS ScanCommand, TLAPS, SequenceTheorems, FiniteSetTheorems

-----------------------------------------------------------------------------
(* The lifecycle operations keep a report a report. *)

LEMMA AddSkipType ==
    ASSUME NEW r \in Reports, NEW checks, NEW why \in Reasons
    PROVE  AddSkip(r, checks, why) \in Reports
BY DEF AddSkip, Reports

LEMMA AddErrorsType ==
    ASSUME NEW r \in Reports, NEW batch \in Seq(Errors)
    PROVE  AddErrors(r, batch) \in Reports
<1>1. r.errors \o batch \in Seq(Errors)
  BY DEF Reports
<1> QED
  BY <1>1 DEF AddErrors, Reports

LEMMA TerminateType ==
    ASSUME NEW r \in Reports, NEW s \in Stages, NEW sel,
           NEW kind \in {"configuration", "timeout", "cancelled"}
    PROVE  Terminate(r, s, sel, kind) \in Reports
<1> DEFINE verdict == TerminalStatus(r, kind)
           error == [stage |-> s, kind |-> kind, recoverable |-> verdict # "failed"]
           stopped == [r EXCEPT !.status = verdict, !.errors = Append(@, error)]
<1>1. verdict \in Statuses
  BY DEF TerminalStatus, Statuses
<1>2. error \in Errors
  BY DEF Errors, Kinds
<1>3. stopped \in Reports
  <2>1. Append(r.errors, error) \in Seq(Errors)
    BY <1>2 DEF Reports
  <2> QED
    BY <1>1, <2>1 DEF Reports
<1>4. AddSkip(stopped, Unfinished(s, sel), kind) \in Reports
  BY <1>3, AddSkipType DEF Reasons
<1> QED
  BY <1>4 DEF Terminate

LEMMA SettleType ==
    ASSUME NEW r \in Reports
    PROVE  Settle(r) \in Reports
BY DEF Settle, Reports, Statuses

LEMMA SetDnsType ==
    ASSUME NEW r \in Reports, NEW field \in {"dnssec", "wildcard", "dangling"},
           NEW verdict \in Verdicts
    PROVE  SetDns(r, field, verdict) \in Reports
BY DEF SetDns, Reports, DnsObservations

LEMMA InterruptType ==
    ASSUME NEW r \in Reports
    PROVE  Interrupt(r) \in Reports
BY TerminateType DEF Interrupt, Stages

LEMMA AnsweredType ==
    ASSUME report \in Reports, NEW dns \in DnsObservations, NEW errors \in Seq(Errors),
           NEW zone \in BOOLEAN, Answered(dns, errors, zone)
    PROVE  report' \in Reports /\ authority' \in BOOLEAN
<1>1. AddErrors(report, errors) \in Reports
  BY AddErrorsType
<1> QED
  BY <1>1 DEF Answered, Reports

-----------------------------------------------------------------------------
(* Type correctness. *)

LEMMA InitType == Init => TypeOK
<1> SUFFICES ASSUME Init PROVE TypeOK
  OBVIOUS
<1>1. NotStarted \in Reports
  BY DEF NotStarted, Reports, Statuses, Reasons, NoDns, DnsObservations, Verdicts
<1>2. report \in Reports
  BY <1>1, AddSkipType DEF Init, Reasons
<1> QED
  BY <1>2 DEF Init, TypeOK, Locations, Stages, Progress

LEMMA StopType ==
    ASSUME TypeOK, NEW r \in Reports, NEW kind \in {"configuration", "timeout", "cancelled"},
           Stop(r, kind)
    PROVE  report' \in Reports /\ pc' \in Locations /\ stage' \in Stages
BY TerminateType DEF Stop, Goto, TypeOK, Locations

LEMMA CutDnsType ==
    ASSUME TypeOK, NEW r \in Reports, CutDns(r)
    PROVE  TypeOK'
<1>1. report' \in Reports /\ pc' \in Locations /\ stage' \in Stages
  BY StopType DEF CutDns
<1>2. work' \in [WorkStages -> Progress]
  BY DEF CutDns, Cut, TypeOK, Progress
<1> QED
  BY <1>1, <1>2 DEF CutDns, environment, TypeOK

LEMMA ProceedType ==
    ASSUME TypeOK, NEW s, Proceed(s)
    PROVE  pc' \in Locations /\ stage' \in Stages
BY DEF Proceed, TypeOK, Locations, Stages, Scheduled, Selections, Active

LEMMA FinishSelectedType ==
    ASSUME NEW r \in Reports, NEW s \in Stages
    PROVE  FinishSelected(r, s) \in Reports
BY TerminateType, SettleType DEF FinishSelected

LEMMA NotApplicableType ==
    ASSUME TypeOK, NEW location, NEW check, NEW next \in Locations,
           NotApplicable(location, check, next)
    PROVE  TypeOK'
BY AddSkipType DEF NotApplicable, Goto, TypeOK, environment, Reasons

LEMMA UnavailableType ==
    ASSUME TypeOK, NEW check, NEW next \in Locations, Unavailable(check, next),
           authority' \in BOOLEAN
    PROVE  TypeOK'
BY AddSkipType DEF Unavailable, Goto, TypeOK, environment, Reasons

LEMMA ConcludedType ==
    ASSUME TypeOK, NEW check, NEW field \in {"dnssec", "wildcard", "dangling"},
           NEW next \in Locations, Concluded(check, field, next)
    PROVE  TypeOK'
<1>1. report' \in Reports
  BY AddSkipType, SetDnsType DEF Concluded, TypeOK, Reasons, Verdicts
<1> QED
  BY <1>1 DEF Concluded, Goto, TypeOK, environment

LEMMA DnsStepType == TypeOK /\ DnsStep => TypeOK'
<1> SUFFICES ASSUME TypeOK, DnsStep PROVE TypeOK'
  OBVIOUS
<1>1. CASE Preflight
  BY <1>1, StopType DEF Preflight, TypeOK, environment
<1>2. CASE Start
  <2>1. report' \in Reports
    BY <1>2, TerminateType DEF Start, TypeOK, Stages
  <2>2. work' \in [WorkStages -> Progress]
    BY <1>2 DEF Start, TypeOK, Progress
  <2> QED
    BY <1>2, <2>1, <2>2 DEF Start, TypeOK, environment, Locations, Stages
<1>3. CASE Baseline
  <2>1. CASE CutDns(report)
    BY <2>1, CutDnsType DEF TypeOK
  <2>2. CASE Answered(AddressDns, <<>>, FALSE) /\ Goto("dnssec") /\ UNCHANGED <<environment, work>>
    <3>1. AddressDns \in DnsObservations
      BY DEF AddressDns, NoDns, DnsObservations, Verdicts
    <3>2. <<>> \in Seq(Errors)
      OBVIOUS
    <3> QED
      BY <2>2, <3>1, <3>2, AnsweredType DEF Goto, TypeOK, environment, Locations
  <2>3. CASE /\ \E addresses, cnames, zone \in BOOLEAN, batch \in ErrorBatches :
                   Answered([NoDns EXCEPT !.present = TRUE, !.addresses = addresses,
                                          !.cnames = cnames], batch, zone)
             /\ Goto("dnssec") /\ UNCHANGED <<environment, work>>
    <3>1. PICK addresses \in BOOLEAN, cnames \in BOOLEAN, zone \in BOOLEAN, batch \in ErrorBatches :
             Answered([NoDns EXCEPT !.present = TRUE, !.addresses = addresses,
                                    !.cnames = cnames], batch, zone)
      BY <2>3
    <3>2. [NoDns EXCEPT !.present = TRUE, !.addresses = addresses, !.cnames = cnames]
             \in DnsObservations
      BY DEF NoDns, DnsObservations, Verdicts
    <3>3. batch \in Seq(Errors)
      BY ErrorBatchesAssumption
    <3> QED
      BY <2>3, <3>1, <3>2, <3>3, AnsweredType DEF Goto, TypeOK, environment, Locations
  <2>4. CASE /\ Answered(NoDns, <<ResolverError>>, FALSE)
             /\ Goto("dnssec") /\ UNCHANGED <<environment, work>>
    <3>1. NoDns \in DnsObservations /\ <<ResolverError>> \in Seq(Errors)
      BY DEF NoDns, DnsObservations, Verdicts, ResolverError, Errors, Stages, Kinds
    <3> QED
      BY <2>4, <3>1, AnsweredType DEF Goto, TypeOK, environment, Locations
  <2> QED
    BY <1>3, <2>1, <2>2, <2>3, <2>4 DEF Baseline
<1>4. CASE Dnssec
  <2>1. CASE NotApplicable("dnssec", "dnssec_validation", "axfr")
    BY <2>1, NotApplicableType DEF Locations
  <2>2. CASE CutDns(SetDns(report, "dnssec", "indeterminate"))
    BY <2>2, CutDnsType, SetDnsType DEF TypeOK, Verdicts
  <2>3. CASE /\ \E verdict \in Verdicts \ {"none"} :
                   report' = SetDns(IF verdict = "determinate" THEN report
                                    ELSE AddSkip(report, {"dnssec_validation"}, verdict),
                                    "dnssec", verdict)
             /\ Goto("axfr") /\ UNCHANGED <<environment, authority, work>>
    <3>1. report' \in Reports
      BY <2>3, AddSkipType, SetDnsType DEF TypeOK, Reasons, Verdicts
    <3> QED
      BY <2>3, <3>1 DEF Goto, TypeOK, environment, Locations
  <2> QED
    BY <1>4, <2>1, <2>2, <2>3 DEF Dnssec
<1>5. CASE Axfr
  <2>1. CASE NotApplicable("axfr", "authoritative_axfr", "wildcard")
    BY <2>1, NotApplicableType DEF Locations
  <2>2. CASE CutDns(report)
    BY <2>2, CutDnsType DEF TypeOK
  <2>3. CASE Unavailable("authoritative_axfr", "wildcard") /\ authority' = FALSE
    BY <2>3, UnavailableType DEF Locations
  <2>4. CASE /\ \E batch \in ErrorBatches : report' = AddErrors(report, batch)
             /\ Goto("wildcard") /\ authority' = FALSE /\ UNCHANGED <<environment, work>>
    BY <2>4, AddErrorsType, ErrorBatchesAssumption DEF Goto, TypeOK, environment, Locations
  <2> QED
    BY <1>5, <2>1, <2>2, <2>3, <2>4 DEF Axfr
<1>6. CASE Wildcard
  <2>1. CASE NotApplicable("wildcard", "wildcard_dns", "dangling")
    BY <2>1, NotApplicableType DEF Locations
  <2>2. CASE Unavailable("wildcard_dns", "dangling") /\ UNCHANGED authority
    BY <2>2, UnavailableType DEF Locations, TypeOK
  <2>3. CASE CutDns(SetDns(report, "wildcard", "indeterminate"))
    BY <2>3, CutDnsType, SetDnsType DEF TypeOK, Verdicts
  <2>4. CASE Concluded("wildcard_dns", "wildcard", "dangling")
    BY <2>4, ConcludedType DEF Locations
  <2> QED
    BY <1>6, <2>1, <2>2, <2>3, <2>4 DEF Wildcard
<1>7. CASE Dangling
  <2>1. CASE NotApplicable("dangling", "dangling_cname", "addresses")
    BY <2>1, NotApplicableType DEF Locations
  <2>2. CASE Unavailable("dangling_cname", "addresses") /\ UNCHANGED authority
    BY <2>2, UnavailableType DEF Locations, TypeOK
  <2>3. CASE CutDns(SetDns(report, "dangling", "indeterminate"))
    BY <2>3, CutDnsType, SetDnsType DEF TypeOK, Verdicts
  <2>4. CASE Concluded("dangling_cname", "dangling", "addresses")
    BY <2>4, ConcludedType DEF Locations
  <2> QED
    BY <1>7, <2>1, <2>2, <2>3, <2>4 DEF Dangling
<1>8. CASE Addresses
  <2>1. work' \in [WorkStages -> Progress]
    BY <1>8 DEF Addresses, TypeOK, Progress
  <2>2. CASE report.dns.addresses
    BY <1>8, <2>1, <2>2, ProceedType DEF Addresses, TypeOK, environment
  <2>3. CASE ~report.dns.addresses
    <3>1. [report EXCEPT !.status = "partial"] \in Reports
      BY DEF TypeOK, Reports, Statuses
    <3>2. report' \in Reports
      BY <1>8, <2>3, <3>1, FinishSelectedType DEF Addresses, Stages, Active
    <3> QED
      BY <1>8, <2>1, <2>3, <3>2 DEF Addresses, Goto, TypeOK, environment, Locations
  <2> QED
    BY <2>2, <2>3
<1> QED
  BY <1>1, <1>2, <1>3, <1>4, <1>5, <1>6, <1>7, <1>8 DEF DnsStep

LEMMA ActiveStepType == TypeOK /\ ActiveStep => TypeOK'
<1> SUFFICES ASSUME TypeOK, ActiveStep PROVE TypeOK'
  OBVIOUS
<1>1. CASE Gate
  <2>1. CASE Stop(report, "timeout") /\ UNCHANGED <<work, environment, authority>>
    BY <2>1, StopType DEF TypeOK, environment
  <2>2. CASE ~expired
    <3> DEFINE error == [stage |-> stage, kind |-> "other", recoverable |-> TRUE]
    <3>1. <<error>> \in Seq(Errors)
      BY DEF TypeOK, Errors, Kinds
    <3>2. report' \in Reports
      BY <1>1, <2>2, <3>1, AddErrorsType DEF Gate, TypeOK
    <3>3. work' \in [WorkStages -> Progress]
      BY <1>1, <2>2 DEF Gate, TypeOK, Progress
    <3> QED
      BY <1>1, <2>2, <3>2, <3>3 DEF Gate, Goto, TypeOK, environment, Locations
  <2> QED
    BY <1>1, <2>1, <2>2 DEF Gate
<1>2. CASE Run
  <2>1. PICK observed \in BOOLEAN :
           report' = [report EXCEPT !.found = IF observed THEN @ \cup {stage} ELSE @]
    BY <1>2 DEF Run
  <2>2. report' \in Reports
    BY <2>1, <1>2 DEF Run, TypeOK, Reports
  <2>3. work' \in [WorkStages -> Progress]
    BY <1>2 DEF Run, TypeOK, Progress
  <2> QED
    BY <1>2, <2>2, <2>3 DEF Run, Goto, TypeOK, environment, Locations
<1>3. CASE Check
  <2>1. CASE \E kind \in {"cancelled", "timeout"} : Stop(report, kind)
    BY <1>3, <2>1, StopType DEF Check, TypeOK, environment
  <2>2. CASE Goto("ssh") /\ UNCHANGED report
    BY <1>3, <2>2 DEF Check, Goto, TypeOK, environment, Locations
  <2>3. CASE Proceed(stage) /\ UNCHANGED report
    BY <1>3, <2>3, ProceedType DEF Check, TypeOK, environment
  <2> QED
    BY <1>3, <2>1, <2>2, <2>3 DEF Check
<1>4. CASE Ssh
  <2>1. CASE Cut("services") /\ \E kind \in {"cancelled", "timeout"} : Stop(report, kind)
    <3>1. work' \in [WorkStages -> Progress]
      BY <2>1 DEF Cut, TypeOK, Progress
    <3> QED
      BY <1>4, <2>1, <3>1, StopType DEF Ssh, TypeOK, environment
  <2>2. CASE Proceed("services") /\ UNCHANGED <<report, work>>
    BY <1>4, <2>2, ProceedType DEF Ssh, TypeOK, environment
  <2> QED
    BY <1>4, <2>1, <2>2 DEF Ssh
<1>5. CASE Finish
  <2>1. report' \in Reports
    BY <1>5, AddSkipType, FinishSelectedType DEF Finish, TypeOK, Reasons, Stages
  <2> QED
    BY <1>5, <2>1 DEF Finish, Goto, TypeOK, environment, Locations
<1> QED
  BY <1>1, <1>2, <1>3, <1>4, <1>5 DEF ActiveStep

LEMMA FinalStepType == TypeOK /\ FinalStep => TypeOK'
<1> SUFFICES ASSUME TypeOK, FinalStep PROVE TypeOK'
  OBVIOUS
<1>1. CASE Finalize
  <2>1. [report EXCEPT !.completed = TRUE] \in Reports
    BY DEF TypeOK, Reports
  <2>2. report' \in Reports /\ pc' \in Locations /\ stage' \in Stages
    BY <1>1, <2>1, InterruptType, SettleType DEF Finalize, Goto, TypeOK, Locations
  <2> QED
    BY <1>1, <2>2 DEF Finalize, TypeOK, environment
<1>2. CASE Score
  <2>1. report' \in Reports
    BY <1>2 DEF Score, TypeOK, Reports
  <2> QED
    BY <1>2, <2>1 DEF Score, Goto, TypeOK, environment, Locations
<1>3. CASE Recheck
  <2>1. Interrupt(report) \in Reports
    BY InterruptType DEF TypeOK
  <2>2. report' \in Reports
    BY <1>3, <2>1 DEF Recheck, Reports
  <2> QED
    BY <1>3, <2>2 DEF Recheck, Goto, TypeOK, environment, Locations
<1> QED
  BY <1>1, <1>2, <1>3 DEF FinalStep

LEMMA NextType == TypeOK /\ [Next]_vars => TypeOK'
<1> SUFFICES ASSUME TypeOK, [Next]_vars PROVE TypeOK'
  OBVIOUS
<1>1. CASE Cancel
  BY <1>1 DEF Cancel, TypeOK
<1>2. CASE Expire
  BY <1>2 DEF Expire, TypeOK
<1>3. CASE UNCHANGED vars
  BY <1>3 DEF vars, TypeOK
<1> QED
  BY <1>1, <1>2, <1>3, DnsStepType, ActiveStepType, FinalStepType DEF Next

\* Every reachable state is well typed: no step of the engine or of finalization
\* builds a report outside the schema's statuses, stages, kinds and checks.
THEOREM TypeCorrect == Spec => []TypeOK
BY InitType, NextType, PTL DEF Spec

-----------------------------------------------------------------------------
(* What the lifecycle operations leave alone and what they decide. *)

\* No check belongs to the findings stage: stopping there skips nothing.
LEMMA NothingUnfinishedAtFindings ==
    ASSUME NEW sel \in SUBSET Active
    PROVE  Unfinished("findings", sel) = {}
BY DEF Unfinished, CheckStage, Rank, Active, DnsChecks

LEMMA AddSkipFacts ==
    ASSUME NEW r \in Reports, NEW checks, NEW why
    PROVE  LET q == AddSkip(r, checks, why) IN
           /\ q.status = r.status /\ q.errors = r.errors /\ q.dns = r.dns
           /\ q.found = r.found /\ q.score = r.score /\ q.completed = r.completed
           /\ \A c \in Checks : q.skipped[c] = IF c \in checks /\ r.skipped[c] = "none"
                                               THEN why ELSE r.skipped[c]
BY DEF AddSkip, Reports

LEMMA TerminateFacts ==
    ASSUME NEW r \in Reports, NEW s \in Stages, NEW sel \in SUBSET Active,
           NEW kind \in {"configuration", "timeout", "cancelled"}
    PROVE  LET q == Terminate(r, s, sel, kind) IN
           /\ q.dns = r.dns /\ q.found = r.found
           /\ q.score = r.score /\ q.completed = r.completed
           /\ q.status \in {"partial", "interrupted", "failed"}
           /\ q.status = "interrupted" => r.status = "interrupted" \/ kind = "cancelled"
           /\ q.status = "failed" => \/ r.status = "failed" \/ kind = "configuration"
                                     \/ ~HasObservations(r)
           /\ \A c \in Checks : q.skipped[c] =
                IF c \in Unfinished(s, sel) /\ r.skipped[c] = "none" /\ ~Terminated(r, kind)
                THEN kind ELSE r.skipped[c]
           /\ IF Terminated(r, kind) THEN q.errors = r.errors
              ELSE \E e \in Errors : e.stage = s /\ e.kind = kind /\ q.errors = Append(r.errors, e)
<1> DEFINE verdict == TerminalStatus(r, kind)
           error == [stage |-> s, kind |-> kind, recoverable |-> verdict # "failed"]
           stopped == [r EXCEPT !.status = verdict, !.errors = Append(@, error)]
<1>1. CASE Terminated(r, kind)
  <2>1. Terminate(r, s, sel, kind) = r
    BY <1>1 DEF Terminate
  <2> QED
    BY <1>1, <2>1 DEF Terminated
<1>2. CASE ~Terminated(r, kind)
  <2>1. error \in Errors /\ error.stage = s /\ error.kind = kind
    BY DEF Errors, Kinds
  <2>2. stopped \in Reports
    <3>1. Append(r.errors, error) \in Seq(Errors)
      BY <2>1 DEF Reports
    <3> QED
      BY <3>1 DEF Reports, TerminalStatus, Statuses
  <2>3. /\ stopped.status = verdict /\ stopped.errors = Append(r.errors, error)
        /\ stopped.dns = r.dns /\ stopped.found = r.found /\ stopped.score = r.score
        /\ stopped.completed = r.completed /\ stopped.skipped = r.skipped
    BY DEF Reports
  <2>4. verdict \in {"partial", "interrupted", "failed"}
    BY DEF TerminalStatus
  <2>5. /\ verdict = "interrupted" => kind = "cancelled"
        /\ verdict = "failed" => kind = "configuration" \/ ~HasObservations(r)
    BY DEF TerminalStatus
  <2>6. Terminate(r, s, sel, kind) = AddSkip(stopped, Unfinished(s, sel), kind)
    BY <1>2 DEF Terminate
  <2> HIDE DEF verdict, error, stopped
  <2> QED
    BY <1>2, <2>1, <2>2, <2>3, <2>4, <2>5, <2>6, AddSkipFacts
<1> QED
  BY <1>1, <1>2

LEMMA SettleFacts ==
    ASSUME NEW r \in Reports
    PROVE  LET q == Settle(r) IN
           /\ q.dns = r.dns /\ q.found = r.found /\ q.errors = r.errors
           /\ q.score = r.score /\ q.completed = r.completed /\ q.skipped = r.skipped
           /\ q.status # "not_started"
           /\ r.status \in {"interrupted", "failed", "partial"} => q.status = r.status
           /\ r.status \notin {"interrupted", "failed", "partial"} =>
                q.status = IF Conclusive(r) THEN "completed" ELSE "partial"
BY DEF Settle, Reports, Statuses

LEMMA SetDnsFacts ==
    ASSUME NEW r \in Reports, NEW field \in {"dnssec", "wildcard", "dangling"}, NEW verdict
    PROVE  LET q == SetDns(r, field, verdict) IN
           /\ q.status = r.status /\ q.errors = r.errors /\ q.found = r.found
           /\ q.score = r.score /\ q.completed = r.completed /\ q.skipped = r.skipped
           /\ q.dns.present = r.dns.present /\ q.dns.addresses = r.dns.addresses
BY DEF SetDns, Reports, DnsObservations

LEMMA AddErrorsFacts ==
    ASSUME NEW r \in Reports, NEW batch
    PROVE  LET q == AddErrors(r, batch) IN
           /\ q.status = r.status /\ q.dns = r.dns /\ q.found = r.found
           /\ q.score = r.score /\ q.completed = r.completed /\ q.skipped = r.skipped
BY DEF AddErrors, Reports

-----------------------------------------------------------------------------
(* The inductive invariant. *)

\* A scan starts from an empty report that lists the stages left out of it.
LEMMA StartReport ==
    ASSUME TypeOK, report = AddSkip(NotStarted, Active \ selection, "excluded")
    PROVE  /\ report.status = "not_started" /\ report.score = "none" /\ report.completed = FALSE
           /\ report.dns = NoDns /\ report.found = {}
           /\ \A c \in Checks : report.skipped[c] =
                IF c \in Active \ selection THEN "excluded" ELSE "none"
<1>1. NotStarted \in Reports
  <2>1. [c \in Checks |-> "none"] \in [Checks -> Reasons]
    BY DEF Reasons
  <2>2. NoDns \in DnsObservations
    BY DEF NoDns, DnsObservations, Verdicts
  <2>3. <<>> \in Seq(Errors)
    OBVIOUS
  <2> QED
    BY <2>1, <2>2, <2>3 DEF NotStarted, Reports, Statuses
<1>2. /\ NotStarted.status = "not_started" /\ NotStarted.score = "none"
      /\ NotStarted.completed = FALSE /\ NotStarted.dns = NoDns /\ NotStarted.found = {}
      /\ \A c \in Checks : NotStarted.skipped[c] = "none"
  BY DEF NotStarted
<1> QED
  BY <1>1, <1>2, AddSkipFacts

LEMMA InitSafe == Init => IInv
<1> SUFFICES ASSUME Init PROVE IInv
  OBVIOUS
<1>1. TypeOK
  BY InitType
<1>2. report = AddSkip(NotStarted, Active \ selection, "excluded")
  BY DEF Init
<1>3. /\ report.status = "not_started" /\ report.score = "none" /\ report.completed = FALSE
      /\ report.dns = NoDns /\ report.found = {}
      /\ \A c \in Checks : report.skipped[c] = IF c \in Active \ selection THEN "excluded" ELSE "none"
  BY <1>1, <1>2, StartReport
<1>4. pc = "start" /\ stage = "preflight" /\ \A s \in WorkStages : work[s] = "idle"
  BY DEF Init
<1>5. Phased
  BY <1>2, <1>3, <1>4 DEF Phased, Returned, DnsLocations
<1>6. Worked
  BY <1>3, <1>4 DEF Worked, ActiveLocations, NoDns
<1>7. SkipsInOrder
  <2>1. \A c \in Active \ selection : report.skipped[c] # "none"
    BY <1>3 DEF Checks
  <2>2. \A c \in {"dns"} \cup Scheduled : c \in Checks /\ c \notin Active \ selection
    BY <1>1 DEF TypeOK, Selections, Scheduled, Checks, DnsChecks, Active
  <2> QED
    BY <1>3, <1>4, <2>1, <2>2 DEF SkipsInOrder, DnsLocations, ActiveLocations
<1> QED
  BY <1>1, <1>3, <1>4, <1>5, <1>6, <1>7 DEF IInv, CompletedIsEarned, CutIsReported, FailedIsEmpty,
     CompleteScoreIsEarned, InterruptedWasCancelled, Returned

\* A check of the stage a scan is in is unfinished when the scan stops there.
LEMMA StageUnfinished ==
    ASSUME NEW sel \in SUBSET Active, NEW s \in {"dns"} \cup sel
    PROVE  s \in Unfinished(s, sel) /\ s \in Checks
BY DEF Unfinished, CheckStage, Rank, Checks, DnsChecks, Active

\* The engine returns a report: what is left to show about the outcome.
LEMMA ReturnSafe ==
    ASSUME IInv, ~Returned, TypeOK', UNCHANGED environment, pc' = "returned",
           report'.status # "not_started", ~report'.completed, report'.score = "none",
           report'.dns.addresses => report'.dns.present,
           \A c \in Checks : report.skipped[c] # "none" => report'.skipped[c] # "none",
           report'.status = "interrupted" => cancelled,
           report'.status = "completed" => pc = "finish",
           target = "conflict" => PreflightFailed(report'),
           CompletedIsEarned', CutIsReported', FailedIsEmpty'
    PROVE  IInv'
<1>1. Phased'
  BY DEF Phased, Returned, DnsLocations, environment
<1>2. Worked'
  BY DEF Worked, ActiveLocations, Returned
<1>3. SkipsInOrder'
  <2>1. \A c \in Active \ selection : report'.skipped[c] # "none"
    BY DEF IInv, SkipsInOrder, Checks
  <2>2. target = "address" /\ pc = "finish" => report'.skipped["dnssec_validation"] # "none"
    BY DEF IInv, SkipsInOrder, Checks, DnsChecks, ActiveLocations, DnsLocations
  <2> QED
    BY <2>1, <2>2 DEF SkipsInOrder, Returned, environment, DnsLocations, ActiveLocations
<1> QED
  BY <1>1, <1>2, <1>3 DEF IInv, CompleteScoreIsEarned, InterruptedWasCancelled, environment

\* Stopping before any outcome was recorded, at the stage whose work is cut.
LEMMA StopSafe ==
    ASSUME IInv, ~Returned, target # "conflict", TypeOK', UNCHANGED environment,
           NEW s \in {"dns"} \cup Scheduled, pc = "check" => s = stage,
           NEW r \in Reports, NEW kind \in {"timeout", "cancelled"},
           kind = "cancelled" => cancelled,
           r.status = "not_started" /\ r.skipped = report.skipped /\ r.score = report.score,
           r.completed = report.completed,
           r.dns.present = report.dns.present /\ r.dns.addresses = report.dns.addresses,
           report' = Terminate(r, s, selection, kind), pc' = "returned",
           \A w \in WorkStages : work'[w] = work[w] \/ w = s
    PROVE  IInv'
<1>0. selection \in SUBSET Active /\ s \in Stages
  BY DEF IInv, TypeOK, Selections, Scheduled, Stages
<1>1. /\ report'.dns = r.dns /\ report'.found = r.found /\ report'.score = r.score
      /\ report'.completed = r.completed
      /\ report'.status \in {"partial", "interrupted", "failed"}
      /\ report'.status = "interrupted" => cancelled
      /\ report'.status = "failed" => ~HasObservations(r)
      /\ \A c \in Checks : report'.skipped[c] =
            IF c \in Unfinished(s, selection) /\ r.skipped[c] = "none"
            THEN kind ELSE r.skipped[c]
  BY <1>0, TerminateFacts DEF Terminated
<1>2. CutIsReported'
  <2> SUFFICES ASSUME NEW w \in WorkStages, work'[w] = "cut"
               PROVE  report'.skipped[w] \in {"timeout", "cancelled"}
    BY <1>1 DEF CutIsReported
  <2>1. w = s
    BY DEF IInv, Worked
  <2>2. s \in Unfinished(s, selection) /\ s \in Checks
    BY <1>0, StageUnfinished DEF Scheduled
  <2>3. report.skipped[s] = "none"
    BY DEF IInv, SkipsInOrder
  <2> QED
    BY <1>1, <2>1, <2>2, <2>3
<1>3. report'.score = "none" /\ ~report'.completed
  BY <1>1 DEF IInv, Phased, Returned, TypeOK, Reports
<1>4. report'.dns.addresses => report'.dns.present
  BY <1>1 DEF IInv, Worked
<1>5. CompletedIsEarned' /\ FailedIsEmpty'
  BY <1>1 DEF CompletedIsEarned, FailedIsEmpty, HasObservations
<1> QED
  BY <1>1, <1>2, <1>3, <1>4, <1>5, ReturnSafe

\* The next DNS check starts: the report only gains what the last one recorded.
LEMMA DnsAdvance ==
    ASSUME IInv, target # "conflict", TypeOK', UNCHANGED environment,
           pc \in {"start"} \cup DnsLocations, pc' \in DnsLocations, stage' = "dns",
           report'.status = report.status, report'.score = report.score,
           report'.completed = report.completed,
           report'.dns.addresses => report'.dns.present,
           \A c \in Checks : \/ report'.skipped[c] = report.skipped[c]
                             \/ c \in DnsChecks \ {"dns"} /\ report'.skipped[c] # "none",
           target = "address" /\ pc' \notin {"baseline", "dnssec"} =>
                report'.skipped["dnssec_validation"] # "none",
           \A w \in WorkStages : work'[w] = work[w] \/ work'[w] # "cut"
    PROVE  IInv'
<1>1. ~Returned /\ ~Returned'
  BY DEF Returned, DnsLocations
<1>2. report'.status = "not_started" /\ report'.score = "none" /\ ~report'.completed
  BY <1>1 DEF IInv, Phased, Returned
<1>3. Phased'
  BY <1>1, <1>2 DEF Phased, Returned, DnsLocations, environment
<1>4. Worked'
  <2>1. \A w \in WorkStages : work'[w] # "cut"
    BY <1>1 DEF IInv, Worked, DnsLocations
  <2> QED
    BY <2>1 DEF Worked, DnsLocations, ActiveLocations
<1>5. SkipsInOrder'
  <2>1. \A c \in {"dns"} \cup Scheduled : c \in Checks /\ c \notin DnsChecks \ {"dns"}
    BY DEF IInv, TypeOK, Selections, Scheduled, Checks, DnsChecks, Active
  <2>2. \A c \in {"dns"} \cup Scheduled : report'.skipped[c] = "none"
    BY <1>1, <2>1 DEF IInv, SkipsInOrder
  <2>3. \A c \in Active \ selection : report'.skipped[c] # "none"
    BY DEF IInv, SkipsInOrder, Checks
  <2> QED
    BY <1>1, <1>2, <2>2, <2>3 DEF SkipsInOrder, Scheduled, environment
<1> QED
  BY <1>1, <1>2, <1>3, <1>4, <1>5 DEF IInv, CompletedIsEarned, CutIsReported, FailedIsEmpty,
     CompleteScoreIsEarned, InterruptedWasCancelled

\* The active stages advance: the outcome and the skipped checks are not touched.
LEMMA ActiveAdvance ==
    ASSUME IInv, target # "conflict", TypeOK', UNCHANGED environment,
           pc \in {"addresses"} \cup ActiveLocations, pc' \in ActiveLocations,
           pc' \in {"gate", "run", "check"} => stage' \in Scheduled,
           pc' = "ssh" => stage' = "services" /\ "services" \in Scheduled,
           report'.status = report.status, report'.score = report.score,
           report'.completed = report.completed, report'.skipped = report.skipped,
           Worked'
    PROVE  IInv'
<1>1. ~Returned /\ ~Returned'
  BY DEF Returned, ActiveLocations
<1>2. report'.status = "not_started" /\ report'.score = "none" /\ ~report'.completed
  BY <1>1 DEF IInv, Phased, Returned
<1>3. Phased'
  BY <1>1, <1>2 DEF IInv, Phased, Returned, DnsLocations, ActiveLocations, environment, Scheduled
<1>4. SkipsInOrder'
  BY <1>1, <1>2 DEF IInv, SkipsInOrder, Scheduled, environment, DnsLocations, ActiveLocations
<1> QED
  BY <1>1, <1>2, <1>3, <1>4 DEF IInv, CompletedIsEarned, CutIsReported, FailedIsEmpty,
     CompleteScoreIsEarned, InterruptedWasCancelled

\* The stages have distinct ranks, and the DNS stage comes before the active ones.
LEMMA RankFacts ==
    /\ \A s \in Stages : Rank(s) \in Nat
    /\ \A s, t \in {"dns"} \cup Active : Rank(s) = Rank(t) => s = t
    /\ \A s \in Active : Rank("dns") < Rank(s)
<1>1. /\ Rank("preflight") = 0 /\ Rank("dns") = 1 /\ Rank("ports") = 2 /\ Rank("services") = 3
      /\ Rank("http") = 4 /\ Rank("tls") = 5 /\ Rank("findings") = 6
  BY DEF Rank
<1> QED
  BY <1>1 DEF Stages, Active

\* No stage comes before itself, and none comes before the DNS stage.
LEMMA BeforeFacts ==
    ASSUME TypeOK
    PROVE  /\ Before("dns") = {}
           /\ \A s \in Scheduled : s \notin Before(s) /\ s \in Active
           /\ UNCHANGED environment => \A s \in Scheduled : Before(s)' = Before(s)
<1>1. Scheduled \subseteq Active /\ Active \subseteq Stages /\ "dns" \in Stages
  BY DEF TypeOK, Selections, Scheduled, Stages
<1>2. Before("dns") = {}
  <2> SUFFICES ASSUME NEW t \in Scheduled, Rank(t) < Rank("dns") PROVE FALSE
    BY DEF Before
  <2>1. Rank(t) \in Nat /\ Rank("dns") \in Nat /\ Rank("dns") < Rank(t)
    BY <1>1, RankFacts
  <2> QED
    BY <2>1
<1>3. ASSUME NEW s \in Scheduled PROVE s \notin Before(s)
  <2>1. Rank(s) \in Nat
    BY <1>1, RankFacts
  <2>2. ~(Rank(s) < Rank(s))
    BY <2>1
  <2> QED
    BY <2>2 DEF Before
<1>4. UNCHANGED environment => \A s \in Scheduled : Before(s)' = Before(s)
  BY DEF Before, Scheduled, environment
<1> QED
  BY <1>1, <1>2, <1>3, <1>4

\* Proceeding from s skips no scheduled stage.
LEMMA ProceedFacts ==
    ASSUME TypeOK, NEW s \in {"dns"} \cup Scheduled, Proceed(s)
    PROVE  \/ /\ pc' = "finish" /\ stage' = "findings"
              /\ \A t \in Scheduled : t = s \/ t \in Before(s)
           \/ /\ pc' = "gate" /\ stage' \in Scheduled
              /\ \A t \in Before(stage') : t = s \/ t \in Before(s)
<1> DEFINE later == {t \in Scheduled : Rank(t) > Rank(s)}
<1>1. Scheduled \subseteq Active /\ Active \subseteq Stages
  BY DEF TypeOK, Selections, Scheduled, Stages
<1>2. \A t \in Scheduled : t \notin later => t = s \/ t \in Before(s)
  <2> SUFFICES ASSUME NEW t \in Scheduled, ~(Rank(t) > Rank(s)), t # s
               PROVE  Rank(t) < Rank(s)
    BY DEF Before
  <2>1. Rank(s) \in Nat /\ Rank(t) \in Nat
    BY <1>1, RankFacts DEF Stages
  <2>2. Rank(s) # Rank(t)
    BY <1>1, RankFacts
  <2> QED
    BY <2>1, <2>2
<1>3. CASE later = {}
  BY <1>2, <1>3 DEF Proceed
<1>4. CASE later # {}
  <2>1. PICK t \in later : (\A u \in later : Rank(t) <= Rank(u)) /\ stage' = t /\ pc' = "gate"
    BY <1>4 DEF Proceed
  <2>2. \A u \in Before(stage') : u \in Scheduled /\ u \notin later
    BY <1>1, <2>1, RankFacts DEF Before
  <2> QED
    BY <1>2, <2>1, <2>2
<1> QED
  BY <1>3, <1>4

\* Proceeding to the next stage when all before it did their work.
LEMMA ProceedSafe ==
    ASSUME IInv, target # "conflict", TypeOK', UNCHANGED environment,
           pc \in {"addresses"} \cup ActiveLocations, UNCHANGED report,
           NEW s \in {"dns"} \cup Scheduled, Proceed(s), report.dns.present,
           work'["dns"] = "full", work'[s] = "full", \A t \in Before(s) : work'[t] = "full",
           \A w \in WorkStages : work'[w] # "cut"
    PROVE  IInv'
<1>1. /\ pc' \in {"finish", "gate"}
      /\ pc' = "gate" => stage' \in Scheduled
      /\ pc' = "finish" => AllFull(Scheduled)'
      /\ pc' = "gate" => AllFull(Before(stage))'
  BY ProceedFacts DEF IInv, AllFull, Scheduled, Before, environment
<1>2. report' = report /\ (report.dns.addresses => report.dns.present)
  BY DEF IInv, Worked
<1>3. Worked'
  BY <1>1, <1>2 DEF Worked, ActiveLocations
<1>4. pc' \in ActiveLocations /\ pc' \notin {"run", "check", "ssh"}
  BY <1>1 DEF ActiveLocations
<1> QED
  BY <1>1, <1>2, <1>3, <1>4, ActiveAdvance

-----------------------------------------------------------------------------
(* Every step preserves the invariant. *)

LEMMA PreflightSafe ==
    ASSUME IInv, TypeOK', Preflight
    PROVE  IInv'
<1>1. pc = "start" /\ stage = "preflight" /\ ~Returned /\ UNCHANGED <<environment, work>>
  BY DEF Preflight, IInv, Phased, Returned
<1>2. selection \in SUBSET Active /\ stage \in Stages /\ report \in Reports
  BY DEF IInv, TypeOK, Selections
<1>3. /\ report.status = "not_started" /\ report.score = "none" /\ report.completed = FALSE
      /\ report.dns = NoDns
  BY <1>1, StartReport DEF IInv, Phased
<1>4. report' = Terminate(report, stage, selection, "configuration") /\ pc' = "returned"
  BY DEF Preflight, Stop, Goto
<1>5. /\ report'.dns = report.dns /\ report'.found = report.found
      /\ report'.score = report.score /\ report'.completed = report.completed
      /\ report'.status \in {"partial", "interrupted", "failed"}
      /\ report'.status # "interrupted"
      /\ \A c \in Checks : report.skipped[c] # "none" => report'.skipped[c] # "none"
      /\ \E e \in Errors : e.stage = stage /\ report'.errors = Append(report.errors, e)
  BY <1>2, <1>3, <1>4, TerminateFacts DEF Terminated
<1>6. PreflightFailed(report')
  BY <1>1, <1>2, <1>5 DEF PreflightFailed, Reports
<1>7. CutIsReported' /\ CompletedIsEarned'
  BY <1>1, <1>5 DEF IInv, Worked, CutIsReported, CompletedIsEarned
<1>8. FailedIsEmpty'
  <2>1. report.found = {}
    BY <1>1, StartReport DEF IInv, Phased
  <2> QED
    BY <1>3, <1>5, <2>1 DEF FailedIsEmpty, HasObservations, NoDns
<1> QED
  BY <1>1, <1>3, <1>4, <1>5, <1>6, <1>7, <1>8, ReturnSafe DEF NoDns

LEMMA StartSafe ==
    ASSUME IInv, TypeOK', Start
    PROVE  IInv'
<1>1. /\ pc = "start" /\ target # "conflict" /\ stage' = "dns" /\ ~Returned
      /\ UNCHANGED environment
  BY DEF Start, Returned
<1>2. report.status = "not_started" /\ report \in Reports
  BY <1>1 DEF IInv, Phased, Returned, TypeOK
<1>3. CASE expired
  <2>1. /\ report' = Terminate(report, "dns", selection, "timeout")
        /\ pc' = "returned" /\ UNCHANGED work
    BY <1>3 DEF Start
  <2> QED
    BY <1>1, <1>2, <2>1, StopSafe
<1>4. CASE ~expired
  <2>1. pc' = "baseline" /\ UNCHANGED report /\ work' = [work EXCEPT !["dns"] = "running"]
    BY <1>4 DEF Start
  <2>2. \A w \in WorkStages : work'[w] = work[w] \/ work'[w] # "cut"
    BY <2>1 DEF IInv, TypeOK
  <2>3. report.dns.addresses => report.dns.present
    BY DEF IInv, Worked
  <2> QED
    BY <1>1, <2>1, <2>2, <2>3, DnsAdvance DEF DnsLocations
<1> QED
  BY <1>3, <1>4

\* A DNS step cut by the token or the deadline, whatever verdict it leaves behind.
LEMMA CutDnsSafe ==
    ASSUME IInv, TypeOK', target # "conflict", pc \in DnsLocations,
           NEW r \in Reports, CutDns(r),
           r.status = report.status /\ r.skipped = report.skipped /\ r.score = report.score,
           r.completed = report.completed,
           r.dns.present = report.dns.present /\ r.dns.addresses = report.dns.addresses
    PROVE  IInv'
<1>1. ~Returned /\ stage = "dns" /\ report.status = "not_started" /\ UNCHANGED environment
  BY DEF IInv, Phased, Returned, DnsLocations, CutDns
<1>2. \A w \in WorkStages : work'[w] = work[w] \/ w = "dns"
  BY DEF CutDns, Cut, IInv, TypeOK
<1>3. PICK kind \in {"timeout", "cancelled"} : /\ kind = "cancelled" => cancelled
                                               /\ Stop(r, kind)
  BY DEF CutDns
<1>4. report' = Terminate(r, "dns", selection, kind) /\ pc' = "returned"
  BY <1>1, <1>3 DEF Stop, Goto
<1>5. pc # "check"
  BY DEF DnsLocations
<1> QED
  BY <1>1, <1>2, <1>3, <1>4, <1>5, StopSafe

LEMMA NotApplicableSafe ==
    ASSUME IInv, TypeOK', NEW location \in DnsLocations \ {"baseline"},
           NEW check \in DnsChecks \ {"dns"}, NEW next \in DnsLocations,
           NotApplicable(location, check, next),
           location = "dnssec" => check = "dnssec_validation"
    PROVE  IInv'
<1>1. /\ pc = location /\ target = "address" /\ stage' = "dns" /\ pc' = next
      /\ report' = AddSkip(report, {check}, "not_applicable")
      /\ UNCHANGED environment /\ UNCHANGED work
  BY DEF NotApplicable, Goto, IInv, Phased
<1>2. report \in Reports
  BY DEF IInv, TypeOK
<1>3. /\ report'.status = report.status /\ report'.score = report.score
      /\ report'.completed = report.completed /\ report'.dns = report.dns
      /\ \A c \in Checks : report'.skipped[c] =
            IF c \in {check} /\ report.skipped[c] = "none" THEN "not_applicable"
            ELSE report.skipped[c]
  BY <1>1, <1>2, AddSkipFacts
<1>4. \A c \in Checks : \/ report'.skipped[c] = report.skipped[c]
                        \/ c \in DnsChecks \ {"dns"} /\ report'.skipped[c] # "none"
  BY <1>3
<1>5. report'.skipped["dnssec_validation"] # "none"
  <2>1. "dnssec_validation" \in Checks
    BY DEF Checks, DnsChecks
  <2>2. location # "dnssec" => report.skipped["dnssec_validation"] # "none"
    BY <1>1 DEF IInv, SkipsInOrder
  <2> QED
    BY <1>3, <2>1, <2>2
<1>6. report.dns.addresses => report.dns.present
  BY DEF IInv, Worked
<1> QED
  BY <1>1, <1>3, <1>4, <1>5, <1>6, DnsAdvance

\* A hostname check that recorded its answer, or why it has none.
LEMMA HostnameSafe ==
    ASSUME IInv, TypeOK', target = "hostname", pc \in DnsLocations, pc' \in DnsLocations,
           UNCHANGED <<environment, stage, work>>,
           report'.status = report.status, report'.score = report.score,
           report'.completed = report.completed,
           report'.dns.addresses => report'.dns.present,
           \A c \in Checks : \/ report'.skipped[c] = report.skipped[c]
                             \/ c \in DnsChecks \ {"dns"} /\ report'.skipped[c] # "none"
    PROVE  IInv'
<1>1. stage' = "dns"
  BY DEF IInv, Phased
<1> QED
  BY <1>1, DnsAdvance

LEMMA BaselineSafe ==
    ASSUME IInv, TypeOK', Baseline
    PROVE  IInv'
<1>0. /\ pc = "baseline" /\ target # "conflict" /\ stage = "dns" /\ report \in Reports
      /\ UNCHANGED environment
  BY DEF Baseline, CutDns, IInv, Phased, DnsLocations, TypeOK
<1>1. CASE CutDns(report)
  BY <1>0, <1>1, CutDnsSafe DEF DnsLocations
<1>2. CASE ~CutDns(report)
  <2>1. PICK dns \in DnsObservations, batch \in Seq(Errors), zone \in BOOLEAN :
           Answered(dns, batch, zone) /\ (dns.addresses => dns.present)
    <3>1. AddressDns \in DnsObservations /\ (AddressDns.addresses => AddressDns.present)
      BY DEF AddressDns, NoDns, DnsObservations, Verdicts
    <3>2. NoDns \in DnsObservations /\ ~NoDns.addresses
      BY DEF NoDns, DnsObservations, Verdicts
    <3>3. <<>> \in Seq(Errors) /\ <<ResolverError>> \in Seq(Errors)
      BY DEF ResolverError, Errors, Stages, Kinds
    <3>4. ASSUME NEW addresses \in BOOLEAN, NEW cnames \in BOOLEAN
          PROVE  LET dns == [NoDns EXCEPT !.present = TRUE, !.addresses = addresses,
                                          !.cnames = cnames]
                 IN  dns \in DnsObservations /\ dns.present
      BY DEF NoDns, DnsObservations, Verdicts
    <3>5. CASE Answered(AddressDns, <<>>, FALSE)
      BY <3>1, <3>3, <3>5
    <3>6. CASE Answered(NoDns, <<ResolverError>>, FALSE)
      BY <3>2, <3>3, <3>6
    <3>7. CASE \E addresses, cnames, zone \in BOOLEAN, batch \in ErrorBatches :
                  Answered([NoDns EXCEPT !.present = TRUE, !.addresses = addresses,
                                         !.cnames = cnames], batch, zone)
      <4>1. PICK addresses \in BOOLEAN, cnames \in BOOLEAN, zone \in BOOLEAN,
                 batch \in ErrorBatches :
                  Answered([NoDns EXCEPT !.present = TRUE, !.addresses = addresses,
                                         !.cnames = cnames], batch, zone)
        BY <3>7
      <4> QED
        BY <3>4, <4>1, ErrorBatchesAssumption
    <3> QED
      BY <1>2, <3>5, <3>6, <3>7 DEF Baseline
  <2>2. pc' = "dnssec" /\ stage' = stage /\ UNCHANGED work
    BY <1>2 DEF Baseline, Goto
  <2>3. report' = [AddErrors(report, batch) EXCEPT !.dns = dns]
    BY <2>1 DEF Answered
  <2>4. /\ report'.status = report.status /\ report'.score = report.score
        /\ report'.completed = report.completed /\ report'.skipped = report.skipped
        /\ report'.dns = dns
    BY <1>0, <2>3 DEF AddErrors, Reports
  <2> QED
    BY <1>0, <2>1, <2>2, <2>4, DnsAdvance DEF DnsLocations
<1> QED
  BY <1>1, <1>2

\* A hostname check that recorded a verdict, and perhaps itself as skipped.
LEMMA VerdictSafe ==
    ASSUME IInv, TypeOK', target = "hostname", pc \in DnsLocations, pc' \in DnsLocations,
           UNCHANGED <<environment, stage, work>>,
           NEW check \in DnsChecks \ {"dns"}, NEW why \in Reasons \ {"none"}, NEW verdict,
           NEW field \in {"dnssec", "wildcard", "dangling"},
           NEW q, q = report \/ q = AddSkip(report, {check}, why),
           report' = SetDns(q, field, verdict)
    PROVE  IInv'
<1>1. report \in Reports /\ (report.dns.addresses => report.dns.present)
  BY DEF IInv, TypeOK, Worked
<1>2. AddSkip(report, {check}, why) \in Reports
  BY <1>1, AddSkipType DEF Checks
<1>3. q \in Reports
  BY <1>1, <1>2
<1>4. /\ q.status = report.status /\ q.score = report.score
      /\ q.completed = report.completed /\ q.dns = report.dns
      /\ \A c \in Checks : \/ q.skipped[c] = report.skipped[c]
                           \/ c \in DnsChecks \ {"dns"} /\ q.skipped[c] # "none"
  <2>1. CASE q = report
    BY <2>1
  <2>2. CASE q = AddSkip(report, {check}, why)
    BY <1>1, <2>2, AddSkipFacts
  <2> QED
    BY <2>1, <2>2
<1>5. /\ report'.status = q.status /\ report'.score = q.score
      /\ report'.completed = q.completed /\ report'.skipped = q.skipped
      /\ report'.dns.present = q.dns.present /\ report'.dns.addresses = q.dns.addresses
  BY <1>3, SetDnsFacts
<1> QED
  BY <1>1, <1>4, <1>5, HostnameSafe

LEMMA DnssecSafe ==
    ASSUME IInv, TypeOK', Dnssec
    PROVE  IInv'
<1>0. report \in Reports /\ (report.dns.addresses => report.dns.present)
  BY DEF IInv, TypeOK, Worked
<1>1. CASE NotApplicable("dnssec", "dnssec_validation", "axfr")
  BY <1>1, NotApplicableSafe DEF DnsLocations, DnsChecks
<1>2. CASE pc = "dnssec" /\ target = "hostname" /\ CutDns(SetDns(report, "dnssec", "indeterminate"))
  <2>1. SetDns(report, "dnssec", "indeterminate") \in Reports
    BY <1>0, SetDnsType DEF Verdicts
  <2> QED
    BY <1>0, <1>2, <2>1, SetDnsFacts, CutDnsSafe DEF DnsLocations
<1>3. CASE /\ pc = "dnssec" /\ target = "hostname"
           /\ \E verdict \in Verdicts \ {"none"} :
                 report' = SetDns(IF verdict = "determinate" THEN report
                                  ELSE AddSkip(report, {"dnssec_validation"}, verdict),
                                  "dnssec", verdict)
           /\ Goto("axfr")
           /\ UNCHANGED <<environment, authority, work>>
  <2>1. PICK verdict \in Verdicts \ {"none"} :
           report' = SetDns(IF verdict = "determinate" THEN report
                            ELSE AddSkip(report, {"dnssec_validation"}, verdict),
                            "dnssec", verdict)
    BY <1>3
  <2> DEFINE why == IF verdict = "determinate" THEN "indeterminate" ELSE verdict
             q == IF verdict = "determinate" THEN report
                  ELSE AddSkip(report, {"dnssec_validation"}, verdict)
  <2>2. q = report \/ q = AddSkip(report, {"dnssec_validation"}, why)
    OBVIOUS
  <2>3. why \in Reasons \ {"none"} /\ "dnssec_validation" \in DnsChecks \ {"dns"}
    BY DEF Verdicts, Reasons, DnsChecks
  <2>4. report' = SetDns(q, "dnssec", verdict)
    BY <2>1
  <2>5. pc \in DnsLocations /\ pc' \in DnsLocations /\ UNCHANGED <<environment, stage, work>>
    BY <1>3 DEF Goto, DnsLocations
  <2> HIDE DEF why, q
  <2> QED
    BY <1>3, <2>2, <2>3, <2>4, <2>5, VerdictSafe
<1> QED
  BY <1>1, <1>2, <1>3 DEF Dnssec

LEMMA UnavailableSafe ==
    ASSUME IInv, TypeOK', target = "hostname", pc \in DnsLocations,
           NEW check \in DnsChecks \ {"dns"}, NEW next \in DnsLocations,
           Unavailable(check, next)
    PROVE  IInv'
<1>1. report \in Reports /\ (report.dns.addresses => report.dns.present)
  BY DEF IInv, TypeOK, Worked
<1>2. /\ report' = AddSkip(report, {check}, "unavailable") /\ pc' = next
      /\ UNCHANGED environment /\ UNCHANGED stage /\ UNCHANGED work
  BY DEF Unavailable, Goto
<1>3. /\ report'.status = report.status /\ report'.score = report.score
      /\ report'.completed = report.completed /\ report'.dns = report.dns
      /\ \A c \in Checks : report'.skipped[c] =
            IF c \in {check} /\ report.skipped[c] = "none" THEN "unavailable"
            ELSE report.skipped[c]
  BY <1>1, <1>2, AddSkipFacts
<1> QED
  BY <1>1, <1>2, <1>3, HostnameSafe

LEMMA AxfrSafe ==
    ASSUME IInv, TypeOK', Axfr
    PROVE  IInv'
<1>0. report \in Reports /\ (report.dns.addresses => report.dns.present)
  BY DEF IInv, TypeOK, Worked
<1>1. CASE NotApplicable("axfr", "authoritative_axfr", "wildcard")
  BY <1>1, NotApplicableSafe DEF DnsLocations, DnsChecks
<1>2. CASE pc = "axfr" /\ target = "hostname" /\ CutDns(report)
  BY <1>0, <1>2, CutDnsSafe DEF DnsLocations
<1>3. CASE pc = "axfr" /\ target = "hostname" /\ Unavailable("authoritative_axfr", "wildcard")
  BY <1>3, UnavailableSafe DEF DnsLocations, DnsChecks
<1>4. CASE /\ pc = "axfr" /\ target = "hostname"
           /\ \E batch \in ErrorBatches : report' = AddErrors(report, batch)
           /\ Goto("wildcard")
           /\ UNCHANGED <<environment, work>>
  <2>1. /\ report'.status = report.status /\ report'.score = report.score
        /\ report'.completed = report.completed /\ report'.skipped = report.skipped
        /\ report'.dns = report.dns
    BY <1>0, <1>4, AddErrorsFacts
  <2> QED
    BY <1>0, <1>4, <2>1, HostnameSafe DEF Goto, DnsLocations
<1> QED
  BY <1>1, <1>2, <1>3, <1>4 DEF Axfr

LEMMA ConcludedSafe ==
    ASSUME IInv, TypeOK', target = "hostname", pc \in DnsLocations,
           NEW check \in DnsChecks \ {"dns"}, NEW next \in DnsLocations,
           NEW field \in {"dnssec", "wildcard", "dangling"},
           Concluded(check, field, next)
    PROVE  IInv'
<1>1. PICK verdict \in {"determinate", "indeterminate"} :
         report' = SetDns(IF verdict = "determinate" THEN report
                          ELSE AddSkip(report, {check}, verdict), field, verdict)
  BY DEF Concluded
<1> DEFINE q == IF verdict = "determinate" THEN report
                ELSE AddSkip(report, {check}, "indeterminate")
<1>2. report' = SetDns(q, field, verdict)
  BY <1>1
<1>3. q = report \/ q = AddSkip(report, {check}, "indeterminate")
  OBVIOUS
<1>4. "indeterminate" \in Reasons \ {"none"}
  BY DEF Reasons
<1> HIDE DEF q
<1>5. pc' = next /\ UNCHANGED <<environment, stage, work>>
  BY DEF Concluded, Goto
<1> QED
  BY <1>2, <1>3, <1>4, <1>5, VerdictSafe

LEMMA WildcardSafe ==
    ASSUME IInv, TypeOK', Wildcard
    PROVE  IInv'
<1>0. report \in Reports
  BY DEF IInv, TypeOK
<1>1. CASE NotApplicable("wildcard", "wildcard_dns", "dangling")
  BY <1>1, NotApplicableSafe DEF DnsLocations, DnsChecks
<1>2. CASE pc = "wildcard" /\ target = "hostname" /\ Unavailable("wildcard_dns", "dangling")
  BY <1>2, UnavailableSafe DEF DnsLocations, DnsChecks
<1>3. CASE pc = "wildcard" /\ target = "hostname"
           /\ CutDns(SetDns(report, "wildcard", "indeterminate"))
  <2>1. SetDns(report, "wildcard", "indeterminate") \in Reports
    BY <1>0, SetDnsType DEF Verdicts
  <2> QED
    BY <1>0, <1>3, <2>1, SetDnsFacts, CutDnsSafe DEF DnsLocations
<1>4. CASE pc = "wildcard" /\ target = "hostname"
           /\ Concluded("wildcard_dns", "wildcard", "dangling")
  BY <1>4, ConcludedSafe DEF DnsLocations, DnsChecks
<1> QED
  BY <1>1, <1>2, <1>3, <1>4 DEF Wildcard

LEMMA DanglingSafe ==
    ASSUME IInv, TypeOK', Dangling
    PROVE  IInv'
<1>0. report \in Reports
  BY DEF IInv, TypeOK
<1>1. CASE NotApplicable("dangling", "dangling_cname", "addresses")
  BY <1>1, NotApplicableSafe DEF DnsLocations, DnsChecks
<1>2. CASE pc = "dangling" /\ target = "hostname" /\ Unavailable("dangling_cname", "addresses")
  BY <1>2, UnavailableSafe DEF DnsLocations, DnsChecks
<1>3. CASE pc = "dangling" /\ target = "hostname"
           /\ CutDns(SetDns(report, "dangling", "indeterminate"))
  <2>1. SetDns(report, "dangling", "indeterminate") \in Reports
    BY <1>0, SetDnsType DEF Verdicts
  <2> QED
    BY <1>0, <1>3, <2>1, SetDnsFacts, CutDnsSafe DEF DnsLocations
<1>4. CASE pc = "dangling" /\ target = "hostname"
           /\ Concluded("dangling_cname", "dangling", "addresses")
  BY <1>4, ConcludedSafe DEF DnsLocations, DnsChecks
<1> QED
  BY <1>1, <1>2, <1>3, <1>4 DEF Dangling

\* finish_selected_report: before it, no outcome; after it, one that is earned.
LEMMA FinishSelectedFacts ==
    ASSUME NEW r \in Reports, r.status \in {"not_started", "partial"},
           NEW s \in Stages, selection \in SUBSET Active,
           NEW q, q = FinishSelected(r, s)
    PROVE  /\ q.dns = r.dns /\ q.found = r.found /\ q.score = r.score /\ q.completed = r.completed
           /\ q.status \in {"completed", "partial", "interrupted", "failed"}
           /\ q.status = "interrupted" => cancelled
           /\ q.status = "failed" => ~HasObservations(r)
           /\ q.status = "completed" => r.status = "not_started" /\ Conclusive(r) /\ q.errors = r.errors
           /\ \A c \in Checks : r.skipped[c] # "none" => q.skipped[c] # "none"
<1>1. CASE cancelled
  <2>1. FinishSelected(r, s) = Terminate(r, s, selection, "cancelled")
    BY <1>1 DEF FinishSelected
  <2> QED
    BY <1>1, <2>1, TerminateFacts
<1>2. CASE ~cancelled
  <2>1. FinishSelected(r, s) = Settle(r)
    BY <1>2 DEF FinishSelected
  <2> QED
    BY <1>2, <2>1, SettleFacts
<1> QED
  BY <1>1, <1>2

LEMMA AddressesSafe ==
    ASSUME IInv, TypeOK', Addresses
    PROVE  IInv'
<1>1. /\ pc = "addresses" /\ ~Returned /\ target # "conflict" /\ UNCHANGED environment
      /\ work' = [work EXCEPT !["dns"] = "full"]
  BY DEF Addresses, IInv, Phased, Returned
<1>2. /\ report \in Reports /\ report.status = "not_started" /\ report.score = "none"
      /\ ~report.completed /\ selection \in SUBSET Active
      /\ (report.dns.addresses => report.dns.present)
  BY <1>1 DEF IInv, TypeOK, Phased, Returned, Worked, Selections
<1>3. \A w \in WorkStages : work'[w] # "cut" /\ (w = "dns" => work'[w] = "full")
  BY <1>1 DEF IInv, TypeOK, Worked, WorkStages
<1>4. CASE report.dns.addresses
  <2>1. Proceed("dns") /\ UNCHANGED report
    BY <1>4 DEF Addresses
  <2>2. \A t \in Before("dns") : work'[t] = "full"
    BY BeforeFacts DEF IInv
  <2>3. work'["dns"] = "full"
    BY <1>3 DEF WorkStages
  <2> QED
    BY <1>1, <1>2, <1>3, <1>4, <2>1, <2>2, <2>3, ProceedSafe
<1>5. CASE ~report.dns.addresses
  <2> DEFINE r == [report EXCEPT !.status = "partial"]
  <2>1. /\ r \in Reports /\ r.status = "partial" /\ r.dns = report.dns /\ r.found = report.found
        /\ r.score = report.score /\ r.completed = report.completed /\ r.skipped = report.skipped
    BY <1>2 DEF Reports, Statuses
  <2>2. report' = FinishSelected(r, "ports") /\ pc' = "returned"
    BY <1>5 DEF Addresses, Goto
  <2> HIDE DEF r
  <2>3. /\ report'.dns = report.dns /\ report'.score = "none" /\ ~report'.completed
        /\ report'.status \in {"partial", "interrupted", "failed"}
        /\ report'.status = "interrupted" => cancelled
        /\ report'.status = "failed" => ~HasObservations(r)
        /\ report'.found = report.found
        /\ \A c \in Checks : report.skipped[c] # "none" => report'.skipped[c] # "none"
    <3>1. "ports" \in Stages
      BY DEF Stages, Active
    <3> QED
      BY <1>2, <2>1, <2>2, <3>1, FinishSelectedFacts
  <2>4. CompletedIsEarned' /\ CutIsReported' /\ FailedIsEmpty'
    BY <1>3, <2>1, <2>3 DEF CompletedIsEarned, CutIsReported, FailedIsEmpty, HasObservations
  <2> QED
    BY <1>1, <1>2, <2>2, <2>3, <2>4, ReturnSafe
<1> QED
  BY <1>4, <1>5

LEMMA GateSafe ==
    ASSUME IInv, TypeOK', Gate
    PROVE  IInv'
<1>1. /\ pc = "gate" /\ ~Returned /\ stage \in Scheduled /\ target # "conflict"
      /\ UNCHANGED environment /\ report \in Reports
  BY DEF Gate, IInv, Phased, Returned, TypeOK
<1>2. CASE expired /\ Stop(report, "timeout") /\ UNCHANGED work
  <2>1. report' = Terminate(report, stage, selection, "timeout") /\ pc' = "returned"
    BY <1>2 DEF Stop, Goto
  <2>2. report.status = "not_started"
    BY <1>1 DEF IInv, Phased
  <2> QED
    BY <1>1, <1>2, <2>1, <2>2, StopSafe
<1>3. CASE ~(expired /\ Stop(report, "timeout") /\ UNCHANGED work)
  <2>1. /\ work' = [work EXCEPT ![stage] = "running"] /\ pc' = "run" /\ stage' = stage
        /\ \E truncated \in BOOLEAN :
              report' = IF truncated
                        THEN AddErrors(report, <<[stage |-> stage, kind |-> "other",
                                                  recoverable |-> TRUE]>>)
                        ELSE report
    BY <1>3 DEF Gate, Goto
  <2>2. /\ report'.status = report.status /\ report'.score = report.score
        /\ report'.completed = report.completed /\ report'.skipped = report.skipped
        /\ report'.dns = report.dns
    BY <1>1, <2>1, AddErrorsFacts
  <2>3. Before(stage)' = Before(stage) /\ stage \notin Before(stage) /\ stage # "dns"
    BY <1>1, <2>1, BeforeFacts DEF IInv, Active
  <2>4. AllFull(Before(stage)) /\ work["dns"] = "full" /\ report.dns.present
    BY <1>1 DEF IInv, Worked, ActiveLocations
  <2>5. Before(stage) \subseteq WorkStages /\ "dns" \in WorkStages /\ work \in [WorkStages -> Progress]
    BY DEF IInv, TypeOK, Selections, Scheduled, Before, WorkStages
  <2>6. AllFull(Before(stage))' /\ work'["dns"] = "full"
    BY <2>1, <2>3, <2>4, <2>5 DEF AllFull
  <2>7. \A w \in WorkStages : work'[w] # "cut"
    BY <1>1, <2>1, <2>5 DEF IInv, Worked
  <2>8. Worked'
    BY <2>1, <2>2, <2>4, <2>6, <2>7 DEF Worked, ActiveLocations
  <2>9. stage' \in Scheduled' /\ stage' \in Scheduled
    BY <1>1, <2>1 DEF Scheduled, environment
  <2> QED
    BY <1>1, <2>1, <2>2, <2>8, <2>9, ActiveAdvance DEF ActiveLocations
<1> QED
  BY <1>2, <1>3

LEMMA RunSafe ==
    ASSUME IInv, TypeOK', Run
    PROVE  IInv'
<1>1. /\ pc = "run" /\ ~Returned /\ stage \in Scheduled /\ target # "conflict"
      /\ UNCHANGED environment /\ report \in Reports /\ pc' = "check" /\ stage' = stage
  BY DEF Run, Goto, IInv, Phased, Returned, TypeOK
<1>2. PICK progress \in {"full", "cut"} : /\ progress = "cut" => cancelled \/ expired
                                          /\ work' = [work EXCEPT ![stage] = progress]
  BY DEF Run
<1>3. /\ report'.status = report.status /\ report'.score = report.score
      /\ report'.completed = report.completed /\ report'.skipped = report.skipped
      /\ report'.dns = report.dns
  BY <1>1 DEF Run, Reports
<1>4. Before(stage)' = Before(stage) /\ stage \notin Before(stage) /\ stage # "dns"
  BY <1>1, BeforeFacts DEF IInv, Active
<1>5. AllFull(Before(stage)) /\ work["dns"] = "full" /\ report.dns.present
  BY <1>1 DEF IInv, Worked, ActiveLocations
<1>6. /\ Before(stage) \subseteq WorkStages /\ "dns" \in WorkStages /\ stage \in WorkStages
      /\ work \in [WorkStages -> Progress]
  BY <1>1 DEF IInv, TypeOK, Selections, Scheduled, Before, WorkStages
<1>7. AllFull(Before(stage))' /\ work'["dns"] = "full"
  BY <1>2, <1>4, <1>5, <1>6 DEF AllFull
<1>8. \/ work'[stage] = "full"
      \/ work'[stage] = "cut" /\ (cancelled \/ expired)
  BY <1>2, <1>6
<1>9. \A w \in WorkStages : work'[w] = "cut" => w = stage
  BY <1>1, <1>2, <1>6 DEF IInv, Worked
<1>10. Worked'
  BY <1>1, <1>3, <1>5, <1>7, <1>8, <1>9 DEF Worked, ActiveLocations, environment
<1> QED
  BY <1>1, <1>3, <1>10, ActiveAdvance DEF ActiveLocations

LEMMA CheckSafe ==
    ASSUME IInv, TypeOK', Check
    PROVE  IInv'
<1>1. /\ pc = "check" /\ ~Returned /\ stage \in Scheduled /\ target # "conflict"
      /\ UNCHANGED environment /\ UNCHANGED work /\ report \in Reports
      /\ report.status = "not_started"
  BY DEF Check, IInv, Phased, Returned, TypeOK
<1>2. CASE \E kind \in {"timeout", "cancelled"} : (kind = "cancelled" => cancelled) /\ Stop(report, kind)
  <2>1. PICK kind \in {"timeout", "cancelled"} : (kind = "cancelled" => cancelled) /\ Stop(report, kind)
    BY <1>2
  <2>2. report' = Terminate(report, stage, selection, kind) /\ pc' = "returned"
    BY <2>1 DEF Stop, Goto
  <2> QED
    BY <1>1, <2>1, <2>2, StopSafe
<1>3. CASE /\ ~cancelled /\ ~expired
           /\ IF stage = "services" THEN Goto("ssh") ELSE Proceed(stage)
           /\ UNCHANGED report
  <2>1. work[stage] = "full" /\ AllFull(Before(stage)) /\ work["dns"] = "full" /\ report.dns.present
    BY <1>1, <1>3 DEF IInv, Worked, ActiveLocations
  <2>2. Before(stage) \subseteq WorkStages /\ stage \in WorkStages
    BY <1>1 DEF IInv, TypeOK, Selections, Scheduled, Before, WorkStages
  <2>3. \A w \in WorkStages : work'[w] # "cut"
    BY <1>1, <2>1 DEF IInv, Worked
  <2>4. CASE stage = "services"
    <3>1. pc' = "ssh" /\ stage' = "services" /\ "services" \in Scheduled
      BY <1>1, <1>3, <2>4 DEF Goto
    <3>2. AllFull(Before(stage))'
      <4>1. Before(stage)' = Before(stage)
        BY <1>1, <2>4, <3>1, BeforeFacts DEF IInv
      <4> QED
        BY <1>1, <2>1, <4>1 DEF AllFull
    <3>3. Worked'
      BY <1>1, <1>3, <2>1, <2>3, <2>4, <3>1, <3>2 DEF IInv, Worked, ActiveLocations
    <3> QED
      BY <1>1, <1>3, <3>1, <3>3, ActiveAdvance DEF ActiveLocations
  <2>5. CASE stage # "services"
    <3>1. Proceed(stage) /\ report' = report
      BY <1>3, <2>5
    <3>2. \A t \in Before(stage) : work'[t] = "full"
      BY <1>1, <2>1 DEF AllFull
    <3>3. work'["dns"] = "full" /\ work'[stage] = "full" /\ pc \in ActiveLocations
      BY <1>1, <2>1 DEF ActiveLocations
    <3> QED
      BY <1>1, <2>1, <2>3, <3>1, <3>2, <3>3, ProceedSafe
  <2> QED
    BY <2>4, <2>5
<1> QED
  BY <1>2, <1>3 DEF Check

LEMMA SshSafe ==
    ASSUME IInv, TypeOK', Ssh
    PROVE  IInv'
<1>1. /\ pc = "ssh" /\ ~Returned /\ stage = "services" /\ "services" \in Scheduled
      /\ target # "conflict" /\ UNCHANGED environment /\ report \in Reports
      /\ report.status = "not_started"
  BY DEF Ssh, IInv, Phased, Returned, TypeOK
<1>2. CASE \E kind \in {"timeout", "cancelled"} : /\ kind = "cancelled" => cancelled
                                                  /\ Stop(report, kind) /\ Cut("services")
  <2>1. PICK kind \in {"timeout", "cancelled"} : /\ kind = "cancelled" => cancelled
                                                 /\ Stop(report, kind) /\ Cut("services")
    BY <1>2
  <2>2. report' = Terminate(report, "services", selection, kind) /\ pc' = "returned"
    BY <1>1, <2>1 DEF Stop, Goto
  <2>3. \A w \in WorkStages : work'[w] = work[w] \/ w = "services"
    BY <2>1 DEF Cut, IInv, TypeOK
  <2> QED
    BY <1>1, <2>1, <2>2, <2>3, StopSafe
<1>3. CASE Proceed("services") /\ UNCHANGED <<report, work>>
  <2>1. /\ work["services"] = "full" /\ AllFull(Before("services")) /\ work["dns"] = "full"
        /\ report.dns.present
    BY <1>1 DEF IInv, Worked, ActiveLocations
  <2>2. \A w \in WorkStages : work'[w] # "cut"
    BY <1>1, <1>3 DEF IInv, Worked
  <2>3. /\ work'["dns"] = "full" /\ work'["services"] = "full"
        /\ \A t \in Before("services") : work'[t] = "full"
    BY <1>3, <2>1 DEF AllFull
  <2>4. pc \in ActiveLocations /\ report' = report
    BY <1>1, <1>3 DEF ActiveLocations
  <2> QED
    BY <1>1, <1>3, <2>1, <2>2, <2>3, <2>4, ProceedSafe
<1> QED
  BY <1>2, <1>3 DEF Ssh

LEMMA FinishSafe ==
    ASSUME IInv, TypeOK', Finish
    PROVE  IInv'
<1> DEFINE r == IF "tls" \in selection \ Scheduled
                THEN AddSkip(report, {"tls"}, "not_applicable") ELSE report
<1>1. /\ pc = "finish" /\ ~Returned /\ target # "conflict" /\ pc' = "returned"
      /\ UNCHANGED environment /\ UNCHANGED work
      /\ report' = FinishSelected(r, "findings")
  BY DEF Finish, Goto, IInv, Phased, Returned
<1>2. /\ report \in Reports /\ report.status = "not_started" /\ report.score = "none"
      /\ ~report.completed /\ selection \in SUBSET Active /\ report.dns.present
  BY <1>1 DEF IInv, TypeOK, Phased, Returned, Worked, Selections, ActiveLocations
<1>3. /\ r \in Reports /\ r.status = "not_started" /\ r.score = report.score
      /\ r.completed = report.completed /\ r.dns = report.dns /\ r.found = report.found
      /\ \A c \in Checks : report.skipped[c] # "none" => r.skipped[c] # "none"
  <2>1. CASE "tls" \in selection \ Scheduled
    <3>1. r = AddSkip(report, {"tls"}, "not_applicable")
      BY <2>1
    <3>2. r \in Reports
      BY <1>2, <3>1, AddSkipType DEF Checks, Active, Reasons
    <3> QED
      BY <1>2, <3>1, <3>2, AddSkipFacts
  <2>2. CASE "tls" \notin selection \ Scheduled
    BY <1>2, <2>2
  <2> QED
    BY <2>1, <2>2
<1> HIDE DEF r
<1>4. /\ report'.dns = r.dns /\ report'.found = r.found /\ report'.score = "none"
      /\ ~report'.completed
      /\ report'.status \in {"completed", "partial", "interrupted", "failed"}
      /\ report'.status = "interrupted" => cancelled
      /\ report'.status = "failed" => ~HasObservations(r)
      /\ report'.status = "completed" => Conclusive(r) /\ report'.errors = r.errors
      /\ \A c \in Checks : r.skipped[c] # "none" => report'.skipped[c] # "none"
  <2>1. "findings" \in Stages
    BY DEF Stages
  <2> QED
    BY <1>1, <1>2, <1>3, <2>1, FinishSelectedFacts
<1>5. AllFull(Scheduled) /\ work["dns"] = "full" /\ \A w \in WorkStages : work[w] # "cut"
  BY <1>1 DEF IInv, Worked, ActiveLocations
<1>6. CompletedIsEarned'
  <2>1. \A s \in {"dns"} \cup Scheduled : work'[s] = "full"
    BY <1>1, <1>5 DEF AllFull
  <2>2. Scheduled' = Scheduled
    BY <1>1 DEF Scheduled, environment
  <2>3. Conclusive(r) /\ report'.errors = r.errors => Conclusive(report')
    BY <1>4 DEF Conclusive
  <2> QED
    BY <1>2, <1>3, <1>4, <2>1, <2>2, <2>3 DEF CompletedIsEarned
<1>7. CutIsReported' /\ FailedIsEmpty'
  BY <1>1, <1>4, <1>5 DEF CutIsReported, FailedIsEmpty, HasObservations
<1> QED
  BY <1>1, <1>2, <1>3, <1>4, <1>6, <1>7, ReturnSafe

\* What the two interruption checks of finalize can do to a report with an outcome:
\* they record that the scan was stopped, and touch no observation and no check.
LEMMA InterruptFacts ==
    ASSUME NEW r \in Reports, r.status \in {"completed", "partial", "interrupted", "failed"},
           NEW q, q = Interrupt(r)
    PROVE  /\ q \in Reports
           /\ q.dns = r.dns /\ q.found = r.found /\ q.score = r.score
           /\ q.completed = r.completed /\ q.skipped = r.skipped
           /\ q.status \in {"completed", "partial", "interrupted", "failed"}
           /\ q.status = "interrupted" => r.status = "interrupted" \/ cancelled
           /\ q.status = "failed" => r.status = "failed" \/ ~HasObservations(r)
           /\ q.status = "completed" => q = r
           /\ q.status # "completed" => q = r \/ cancelled \/ expired
           /\ r.status = "interrupted" /\ cancelled => q = r
           /\ r.status # "completed" => q.status # "completed"
           /\ q.errors = r.errors \/ \E e \in Errors : e.stage = "findings" /\ q.errors = Append(r.errors, e)
<1>1. /\ Active \in SUBSET Active /\ "findings" \in Stages
      /\ \A c \in Checks : c \notin Unfinished("findings", Active)
  BY NothingUnfinishedAtFindings DEF Stages
<1>2. ASSUME NEW kind \in {"timeout", "cancelled"}, kind = "cancelled" => cancelled,
             kind = "timeout" => ~cancelled /\ expired,
             q = Terminate(r, "findings", Active, kind)
      PROVE  /\ q.dns = r.dns /\ q.found = r.found /\ q.score = r.score
             /\ q.completed = r.completed
             /\ \A c \in Checks : q.skipped[c] = r.skipped[c]
             /\ q.status \in {"partial", "interrupted", "failed"}
             /\ q.status = "interrupted" => r.status = "interrupted" \/ cancelled
             /\ q.status = "failed" => r.status = "failed" \/ ~HasObservations(r)
             /\ q.errors = r.errors \/ \E e \in Errors : e.stage = "findings"
                                                         /\ q.errors = Append(r.errors, e)
             /\ r.status = "interrupted" /\ cancelled => q = r
  <2>1. r.status = "interrupted" /\ cancelled => q = r
    BY <1>2 DEF Terminate, Terminated
  <2> QED
    BY <1>1, <1>2, <2>1, TerminateFacts
<1>3. q \in Reports
  BY InterruptType
<1>4. CASE \E kind \in {"timeout", "cancelled"} :
              /\ kind = "cancelled" => cancelled
              /\ kind = "timeout" => ~cancelled /\ expired
              /\ q = Terminate(r, "findings", Active, kind)
  <2>1. PICK kind \in {"timeout", "cancelled"} :
              /\ kind = "cancelled" => cancelled
              /\ kind = "timeout" => ~cancelled /\ expired
              /\ q = Terminate(r, "findings", Active, kind)
    BY <1>4
  <2>2. \A c \in Checks : q.skipped[c] = r.skipped[c]
    BY <1>2, <2>1
  <2>3. q.skipped = r.skipped
    BY <1>3, <2>2 DEF Reports
  <2> QED
    BY <1>2, <1>3, <2>1, <2>3
<1>5. CASE q = r
  BY <1>5
<1> QED
  BY <1>4, <1>5 DEF Interrupt

\* Finalization works on a report with an outcome; the scan's work is over.
LEMMA FinalSafe ==
    ASSUME IInv, TypeOK', UNCHANGED <<environment, work>>,
           pc \in {"returned", "score", "recheck"}, pc' \in {"score", "recheck", "done"},
           report'.completed <=> pc' = "done",
           report'.score # "none" => pc' \in {"recheck", "done"},
           target = "conflict" => pc' = "done" /\ PreflightFailed(report'),
           report'.dns = report.dns, report'.found = report.found,
           report'.skipped = report.skipped,
           report'.status \in {"completed", "partial", "interrupted", "failed"},
           report'.status = "interrupted" => report.status = "interrupted" \/ cancelled,
           report'.status = "failed" => report.status = "failed" \/ ~HasObservations(report),
           report'.status = "completed" => report.status = "completed" /\ report'.errors = report.errors,
           CompleteScoreIsEarned'
    PROVE  IInv'
<1>1. Returned /\ Returned'
  BY DEF Returned
<1>2. Phased'
  BY <1>1 DEF Phased, Returned, DnsLocations, environment
<1>3. Worked'
  BY <1>1 DEF IInv, Worked, ActiveLocations, environment
<1>4. SkipsInOrder'
  <2>1. \A c \in Active \ selection : report'.skipped[c] # "none"
    BY DEF IInv, SkipsInOrder
  <2>2. target = "address" /\ report'.status = "completed" =>
           report'.skipped["dnssec_validation"] # "none"
    BY DEF IInv, SkipsInOrder
  <2> QED
    BY <1>1, <2>1, <2>2 DEF SkipsInOrder, Returned, environment, DnsLocations, ActiveLocations
<1>5. CompletedIsEarned'
  <2>1. Scheduled' = Scheduled
    BY DEF Scheduled, environment
  <2> QED
    BY <2>1 DEF IInv, CompletedIsEarned, Conclusive
<1>6. CutIsReported'
  BY <1>1 DEF IInv, CutIsReported
<1>7. FailedIsEmpty'
  BY DEF IInv, FailedIsEmpty, HasObservations
<1> QED
  BY <1>2, <1>3, <1>4, <1>5, <1>6, <1>7 DEF IInv, InterruptedWasCancelled, environment

LEMMA FinalizeSafe ==
    ASSUME IInv, TypeOK', Finalize
    PROVE  IInv'
<1>1. report \in Reports /\ UNCHANGED <<environment, authority, work>>
  BY DEF Finalize, IInv, TypeOK
<1>2. CASE Committed(report) /\ UNCHANGED <<report, pc, stage>>
  <2>1. UNCHANGED vars
    BY <1>1, <1>2 DEF vars, environment
  <2> QED
    BY <2>1 DEF vars, IInv, TypeOK, Phased, Worked, SkipsInOrder, CompletedIsEarned, CutIsReported,
       FailedIsEmpty, CompleteScoreIsEarned, InterruptedWasCancelled, Returned, Scheduled,
       AllFull, Before, HasObservations, Conclusive
<1>3. ASSUME ~Committed(report)
      PROVE  /\ pc = "returned" /\ report.score = "none" /\ ~report.completed
             /\ report.status \in {"completed", "partial", "interrupted", "failed"}
  BY <1>1, <1>3 DEF Finalize, Committed, IInv, Phased, Returned, Reports, Statuses
<1>4. CASE /\ ~Committed(report) /\ PreflightFailed(report)
           /\ report' = [report EXCEPT !.completed = TRUE]
           /\ Goto("done")
  <2>1. /\ report'.dns = report.dns /\ report'.found = report.found /\ report'.score = report.score
        /\ report'.skipped = report.skipped /\ report'.status = report.status
        /\ report'.errors = report.errors /\ report'.completed /\ pc' = "done"
    BY <1>1, <1>4 DEF Reports, Goto
  <2>2. PreflightFailed(report') /\ CompleteScoreIsEarned'
    BY <1>3, <1>4, <2>1 DEF PreflightFailed, CompleteScoreIsEarned
  <2> QED
    BY <1>1, <1>3, <1>4, <2>1, <2>2, FinalSafe
<1>5. CASE /\ ~Committed(report) /\ ~PreflightFailed(report)
           /\ report' = IF cancelled \/ expired THEN Interrupt(report) ELSE Settle(report)
           /\ Goto("score")
  <2>1. pc' = "score" /\ target # "conflict"
    BY <1>3, <1>5 DEF Goto, IInv, Phased, Returned
  <2>2. /\ report'.dns = report.dns /\ report'.found = report.found
        /\ report'.score = report.score /\ report'.completed = report.completed
        /\ report'.skipped = report.skipped
        /\ report'.status \in {"completed", "partial", "interrupted", "failed"}
        /\ report'.status = "interrupted" => report.status = "interrupted" \/ cancelled
        /\ report'.status = "failed" => report.status = "failed" \/ ~HasObservations(report)
        /\ report'.status = "completed" => report.status = "completed" /\ report'.errors = report.errors
    <3>1. CASE cancelled \/ expired
      BY <1>1, <1>3, <1>5, <3>1, InterruptFacts
    <3>2. CASE ~(cancelled \/ expired)
      <4>1. report' = Settle(report)
        BY <1>5, <3>2
      <4>2. report.status = "completed" => Conclusive(report)
        BY DEF IInv, CompletedIsEarned
      <4> QED
        BY <1>1, <1>3, <1>5, <4>1, <4>2, SettleFacts
    <3> QED
      BY <3>1, <3>2
  <2>3. CompleteScoreIsEarned'
    BY <1>3, <1>5, <2>2 DEF CompleteScoreIsEarned
  <2> QED
    BY <1>1, <1>3, <1>5, <2>1, <2>2, <2>3, FinalSafe
<1> QED
  BY <1>2, <1>4, <1>5 DEF Finalize

LEMMA ScoreSafe ==
    ASSUME IInv, TypeOK', Score
    PROVE  IInv'
<1>1. /\ pc = "score" /\ report \in Reports /\ UNCHANGED <<environment, authority, work>>
      /\ report' = [report EXCEPT !.score = IF Incomplete(report) THEN "incomplete" ELSE "complete"]
      /\ pc' = "recheck"
  BY DEF Score, Goto, IInv, TypeOK
<1>2. /\ report'.dns = report.dns /\ report'.found = report.found
      /\ report'.completed = report.completed /\ report'.skipped = report.skipped
      /\ report'.status = report.status /\ report'.errors = report.errors
      /\ report'.score = IF Incomplete(report) THEN "incomplete" ELSE "complete"
  BY <1>1 DEF Reports
<1>3. /\ Returned /\ ~report.completed /\ target # "conflict"
      /\ report.status \in {"completed", "partial", "interrupted", "failed"}
  BY <1>1 DEF Returned, IInv, Phased, Reports, Statuses
<1>4. ASSUME ~Incomplete(report)
      PROVE  /\ \A c \in Checks : report.skipped[c] = "none"
             /\ \A s \in {"dns"} \cup Active : work[s] = "full"
             /\ report.errors = <<>>
  <2>1. report.status = "completed" /\ \A c \in Checks : report.skipped[c] = "none"
    BY <1>4 DEF Incomplete
  <2>2. /\ \A s \in {"dns"} \cup Scheduled : work[s] = "full"
        /\ Conclusive(report)
    BY <2>1 DEF IInv, CompletedIsEarned
  <2>3. Active \subseteq selection
    BY <2>1 DEF IInv, SkipsInOrder, Checks
  <2>4. target # "address"
    BY <2>1 DEF IInv, SkipsInOrder, Checks, DnsChecks
  <2>5. target = "hostname"
    BY <1>3, <2>4 DEF IInv, TypeOK, Targets
  <2>6. Active \subseteq Scheduled
    BY <2>3, <2>5 DEF Scheduled
  <2> QED
    BY <2>1, <2>2, <2>6 DEF Conclusive
<1>5. CompleteScoreIsEarned'
  BY <1>1, <1>2, <1>4 DEF CompleteScoreIsEarned
<1> QED
  BY <1>1, <1>2, <1>3, <1>5, FinalSafe

LEMMA RecheckSafe ==
    ASSUME IInv, TypeOK', Recheck
    PROVE  IInv'
<1> DEFINE q == Interrupt(report)
<1>1. /\ pc = "recheck" /\ report \in Reports /\ UNCHANGED <<environment, authority, work>>
      /\ report' = [q EXCEPT !.completed = TRUE] /\ pc' = "done"
  BY DEF Recheck, Goto, IInv, TypeOK
<1>2. /\ Returned /\ target # "conflict"
      /\ report.status \in {"completed", "partial", "interrupted", "failed"}
  BY <1>1 DEF Returned, IInv, Phased, Reports, Statuses
<1>3. /\ q \in Reports
      /\ q.dns = report.dns /\ q.found = report.found /\ q.score = report.score
      /\ q.skipped = report.skipped
      /\ q.status \in {"completed", "partial", "interrupted", "failed"}
      /\ q.status = "interrupted" => report.status = "interrupted" \/ cancelled
      /\ q.status = "failed" => report.status = "failed" \/ ~HasObservations(report)
      /\ q.status = "completed" => q = report
      /\ q.errors = report.errors \/ \E e \in Errors : e.stage = "findings"
                                                       /\ q.errors = Append(report.errors, e)
  BY <1>1, <1>2, InterruptFacts
<1> HIDE DEF q
<1>4. /\ report'.dns = q.dns /\ report'.found = q.found /\ report'.completed
      /\ report'.skipped = q.skipped /\ report'.status = q.status /\ report'.errors = q.errors
      /\ report'.score = q.score
  BY <1>1, <1>3 DEF Reports
<1>5. CompleteScoreIsEarned'
  <2> SUFFICES ASSUME report'.score = "complete"
               PROVE  \A i \in DOMAIN report'.errors : report'.errors[i].stage = "findings"
    BY <1>1, <1>3, <1>4 DEF IInv, CompleteScoreIsEarned
  <2>1. \A i \in DOMAIN report.errors : report.errors[i].stage = "findings"
    BY <1>3, <1>4 DEF IInv, CompleteScoreIsEarned
  <2>2. report.errors \in Seq(Errors)
    BY <1>1 DEF Reports
  <2> QED
    BY <1>3, <1>4, <2>1, <2>2
<1> QED
  BY <1>1, <1>2, <1>3, <1>4, <1>5, FinalSafe

\* A step that only moves the environment, or nothing at all.
LEMMA EnvironmentSafe ==
    ASSUME IInv, TypeOK', UNCHANGED <<target, selection, pc, stage, authority, report, work>>,
           cancelled => cancelled', expired => expired'
    PROVE  IInv'
<1>1. Phased' /\ SkipsInOrder'
  BY DEF IInv, Phased, SkipsInOrder, Returned, Scheduled
<1>2. Worked'
  BY DEF IInv, Worked, AllFull, Before, Scheduled, Returned
<1>3. CompletedIsEarned' /\ CutIsReported' /\ FailedIsEmpty'
  BY DEF IInv, CompletedIsEarned, CutIsReported, FailedIsEmpty, Returned, Scheduled, Conclusive, HasObservations
<1> QED
  BY <1>1, <1>2, <1>3 DEF IInv, CompleteScoreIsEarned, InterruptedWasCancelled

LEMMA NextSafe == IInv /\ [Next]_vars => IInv'
<1> SUFFICES ASSUME IInv, [Next]_vars PROVE IInv'
  OBVIOUS
<1>1. TypeOK'
  BY NextType DEF IInv
<1>2. CASE DnsStep
  BY <1>1, <1>2, PreflightSafe, StartSafe, BaselineSafe, DnssecSafe, AxfrSafe, WildcardSafe,
     DanglingSafe, AddressesSafe DEF DnsStep
<1>3. CASE ActiveStep
  BY <1>1, <1>3, GateSafe, RunSafe, CheckSafe, SshSafe, FinishSafe DEF ActiveStep
<1>4. CASE FinalStep
  BY <1>1, <1>4, FinalizeSafe, ScoreSafe, RecheckSafe DEF FinalStep
<1>5. CASE Cancel \/ Expire \/ UNCHANGED vars
  BY <1>1, <1>5, EnvironmentSafe DEF Cancel, Expire, vars
<1> QED
  BY <1>2, <1>3, <1>4, <1>5 DEF Next

LEMMA Inductive == Spec => []IInv
BY InitSafe, NextSafe, PTL DEF Spec

-----------------------------------------------------------------------------
(* What the report claims holds in every reachable state. *)

\* A report says "completed" only when the DNS stage and every scheduled stage
\* did all their work, conclusively and without an error.
THEOREM CompletedTheorem == Spec => []CompletedIsEarned
<1>1. IInv => CompletedIsEarned
  BY DEF IInv
<1> QED
  BY <1>1, Inductive, PTL

\* A stage cut off by the token or the deadline is reported as skipped for that reason.
THEOREM CutTheorem == Spec => []CutIsReported
<1>1. IInv => CutIsReported
  BY DEF IInv
<1> QED
  BY <1>1, Inductive, PTL

\* A failed report holds no observation.
THEOREM FailedTheorem == Spec => []FailedIsEmpty
<1>1. IInv => FailedIsEmpty
  BY DEF IInv
<1> QED
  BY <1>1, Inductive, PTL

\* A score that does not call itself incomplete was computed on a scan without gaps.
THEOREM ScoreTheorem == Spec => []CompleteScoreIsEarned
<1>1. IInv => CompleteScoreIsEarned
  BY DEF IInv
<1> QED
  BY <1>1, Inductive, PTL

-----------------------------------------------------------------------------
(* What a step may never do to a report. *)

\* Before the engine returns there is no outcome, whatever step is taken.
LEMMA OutcomeAtReturn ==
    ASSUME IInv, IInv', [Next]_vars, report.status # "not_started"
    PROVE  \/ UNCHANGED report
           \/ report.completed # TRUE /\ FinalStep
<1>1. Returned
  BY DEF IInv, Phased
<1>2. ~DnsStep
  BY <1>1 DEF Returned, DnsStep, Preflight, Start, Baseline, Dnssec, Axfr, Wildcard, Dangling,
     Addresses, NotApplicable
<1>3. ~ActiveStep
  BY <1>1 DEF Returned, ActiveStep, Gate, Run, Check, Ssh, Finish
<1>4. CASE FinalStep
  <2>1. CASE report.completed = TRUE
    <3>1. pc = "done"
      BY <2>1 DEF IInv, Phased
    <3> QED
      BY <1>4, <2>1, <3>1 DEF FinalStep, Finalize, Score, Recheck, Committed
  <2> QED
    BY <1>4, <2>1
<1> QED
  BY <1>2, <1>3, <1>4 DEF Next, Cancel, Expire, vars

\* A completed report is final: finalizing it again, cancelling, or running into
\* the deadline afterwards leaves it as it is.
THEOREM CommittedTheorem == Spec => CommittedIsFinal
<1>1. IInv /\ IInv' /\ [Next]_vars => [report.completed => UNCHANGED report]_vars
  <2> SUFFICES ASSUME IInv, IInv', [Next]_vars, report.completed PROVE UNCHANGED report
    OBVIOUS
  <2>1. report.status # "not_started"
    BY DEF IInv, Phased, Returned
  <2> QED
    BY <2>1, OutcomeAtReturn DEF IInv, TypeOK, Reports
<1> QED
  BY <1>1, Inductive, PTL DEF Spec, CommittedIsFinal

\* No step of the scan makes the status of a report look better.
LEMMA StepNoRecovery ==
    ASSUME IInv, IInv', [Next]_vars
    PROVE  /\ report.status = "interrupted" => report'.status = "interrupted"
           /\ report.status \in {"partial", "failed"} => report'.status # "completed"
           /\ report.status # "not_started" => report'.status # "not_started"
<1> DEFINE Kept == /\ report.status = "interrupted" => report'.status = "interrupted"
                   /\ report.status \in {"partial", "failed"} => report'.status # "completed"
                   /\ report.status # "not_started" => report'.status # "not_started"
<1> SUFFICES ASSUME report.status # "not_started" PROVE Kept
  OBVIOUS
<1>1. /\ report \in Reports /\ report.status \in {"completed", "partial", "interrupted", "failed"}
      /\ report.status = "interrupted" => cancelled
  BY DEF IInv, TypeOK, Reports, Statuses, InterruptedWasCancelled
<1>2. CASE UNCHANGED report
  BY <1>2
<1>3. CASE FinalStep
  <2>1. report'.status = report.status \/ report'.status = Interrupt(report).status
        \/ (~cancelled /\ ~expired /\ report'.status = Settle(report).status)
    <3>1. CASE Finalize
      BY <1>1, <3>1 DEF Finalize, Reports
    <3>2. CASE Score
      BY <1>1, <3>2 DEF Score, Reports
    <3>3. CASE Recheck
      <4>1. Interrupt(report) \in Reports
        BY <1>1, InterruptType
      <4> QED
        BY <3>3, <4>1 DEF Recheck, Reports
    <3> QED
      BY <1>3, <3>1, <3>2, <3>3 DEF FinalStep
  <2>2. /\ Settle(report).status # "not_started"
        /\ report.status \in {"interrupted", "failed", "partial"} =>
              Settle(report).status = report.status
    BY <1>1, SettleFacts
  <2>3. /\ Interrupt(report).status # "not_started"
        /\ report.status # "completed" => Interrupt(report).status # "completed"
        /\ report.status = "interrupted" => Interrupt(report).status = "interrupted"
    BY <1>1, InterruptFacts
  <2> QED
    BY <2>1, <2>2, <2>3
<1> QED
  BY <1>2, <1>3, OutcomeAtReturn

\* A stopped report never looks better again: neither the first finalization, nor
\* the second look at the token and the clock, takes back an interruption.
THEOREM NoRecoveryTheorem == Spec => NoRecovery
<1> DEFINE Kept == /\ report.status = "interrupted" => report'.status = "interrupted"
                   /\ report.status \in {"partial", "failed"} => report'.status # "completed"
                   /\ report.status # "not_started" => report'.status # "not_started"
<1>1. IInv /\ IInv' /\ [Next]_vars => [Kept]_vars
  BY StepNoRecovery
<1> QED
  BY <1>1, Inductive, PTL DEF Spec, NoRecovery

-----------------------------------------------------------------------------
(***************************************************************************)
(* What happens to the report over a whole scan: every step only adds to   *)
(* it, and adds the cancellation once.  From these follow that nothing is  *)
(* taken back and that a report accounts for itself, however it ended.     *)
(***************************************************************************)

\* q says all that r says, and perhaps more.
Grows(r, q) ==
    /\ Len(r.errors) <= Len(q.errors)
    /\ \A i \in 1 .. Len(r.errors) : q.errors[i] = r.errors[i]
    /\ r.found \subseteq q.found
    /\ r.dns.present => q.dns.present
    /\ \A c \in Checks : r.skipped[c] # "none" => q.skipped[c] = r.skipped[c]

CancelledAt(r) == {i \in 1 .. Len(r.errors) : r.errors[i].kind = "cancelled"}

\* q grew from r without a cancellation, or by one in a report that had none to show.
Extends(r, q) == /\ Grows(r, q) /\ CancelledAt(q) = CancelledAt(r)
                 /\ q.status = "interrupted" <=> r.status = "interrupted"
Interrupts(r, q) == /\ Grows(r, q) /\ cancelled
                    /\ r.status # "interrupted" /\ q.status = "interrupted"
                    /\ \E i \in Nat : CancelledAt(q) = CancelledAt(r) \cup {i}
Moves(r, q) == Extends(r, q) \/ Interrupts(r, q)

-----------------------------------------------------------------------------
(* The lifecycle operations move a report.                                 *)

LEMMA GrowsTransitive ==
    ASSUME NEW p \in Reports, NEW q \in Reports, NEW r \in Reports, Grows(p, q), Grows(q, r)
    PROVE  Grows(p, r)
<1>1. Len(p.errors) \in Nat /\ Len(q.errors) \in Nat /\ Len(r.errors) \in Nat
  BY DEF Reports
<1>2. Len(p.errors) <= Len(r.errors)
  BY <1>1 DEF Grows
<1>3. \A i \in 1 .. Len(p.errors) : r.errors[i] = p.errors[i]
  <2> SUFFICES ASSUME NEW i \in 1 .. Len(p.errors) PROVE r.errors[i] = p.errors[i]
    OBVIOUS
  <2>1. i \in 1 .. Len(q.errors)
    BY <1>1 DEF Grows
  <2> QED
    BY <2>1 DEF Grows
<1>4. \A c \in Checks : p.skipped[c] # "none" => r.skipped[c] = p.skipped[c]
  BY DEF Grows
<1> QED
  BY <1>2, <1>3, <1>4 DEF Grows

LEMMA ExtendsThenMoves ==
    ASSUME NEW p \in Reports, NEW q \in Reports, NEW r \in Reports, Extends(p, q), Moves(q, r)
    PROVE  Moves(p, r) /\ (Extends(q, r) => Extends(p, r))
BY GrowsTransitive DEF Moves, Extends, Interrupts

\* Changes of other fields than the errors.
LEMMA FieldsExtend ==
    ASSUME NEW r \in Reports, NEW q \in Reports, q.errors = r.errors, q.skipped = r.skipped,
           r.found \subseteq q.found, r.dns.present => q.dns.present,
           q.status = "interrupted" <=> r.status = "interrupted"
    PROVE  Extends(r, q)
<1>1. Len(r.errors) \in Nat
  BY DEF Reports
<1> QED
  BY <1>1 DEF Extends, Grows, CancelledAt

LEMMA AddSkipExtends ==
    ASSUME NEW r \in Reports, NEW checks, NEW why \in Reasons
    PROVE  Extends(r, AddSkip(r, checks, why))
<1> DEFINE q == AddSkip(r, checks, why)
<1>1. /\ q.status = r.status /\ q.errors = r.errors /\ q.dns = r.dns /\ q.found = r.found
      /\ \A c \in Checks : q.skipped[c] = IF c \in checks /\ r.skipped[c] = "none"
                                          THEN why ELSE r.skipped[c]
  BY AddSkipFacts
<1>2. Len(r.errors) \in Nat
  BY DEF Reports
<1> HIDE DEF q
<1> QED
  BY <1>1, <1>2 DEF Extends, Grows, CancelledAt, q

LEMMA AppendedKinds ==
    ASSUME NEW r \in Reports, NEW q \in Reports, NEW batch \in Seq(Errors), q.errors = r.errors \o batch
    PROVE  /\ Len(r.errors) <= Len(q.errors)
           /\ \A i \in 1 .. Len(r.errors) : q.errors[i] = r.errors[i]
           /\ \A i \in 1 .. Len(q.errors) : i > Len(r.errors) =>
                 i - Len(r.errors) \in 1 .. Len(batch) /\ q.errors[i] = batch[i - Len(r.errors)]
<1>1. r.errors \in Seq(Errors) /\ Len(r.errors) \in Nat /\ Len(batch) \in Nat
  BY DEF Reports
<1>2. /\ Len(q.errors) = Len(r.errors) + Len(batch)
      /\ \A i \in 1 .. Len(r.errors) + Len(batch) :
            q.errors[i] = IF i <= Len(r.errors) THEN r.errors[i] ELSE batch[i - Len(r.errors)]
  BY <1>1, ConcatProperties
<1> QED
  BY <1>1, <1>2

LEMMA AddErrorsExtends ==
    ASSUME NEW r \in Reports, NEW batch \in Seq(Errors),
           \A i \in DOMAIN batch : batch[i].kind # "cancelled"
    PROVE  Extends(r, AddErrors(r, batch))
<1> DEFINE q == AddErrors(r, batch)
<1>1. q \in Reports
  BY AddErrorsType
<1>2. /\ q.status = r.status /\ q.dns = r.dns /\ q.found = r.found /\ q.skipped = r.skipped
      /\ q.errors = r.errors \o batch
  BY AddErrorsFacts DEF AddErrors, Reports
<1> HIDE DEF q
<1>3. /\ Len(r.errors) <= Len(q.errors)
      /\ \A i \in 1 .. Len(r.errors) : q.errors[i] = r.errors[i]
      /\ \A i \in 1 .. Len(q.errors) : i > Len(r.errors) => q.errors[i].kind # "cancelled"
  BY <1>1, <1>2, AppendedKinds
<1>4. CancelledAt(q) = CancelledAt(r)
  <2>1. Len(r.errors) \in Nat /\ Len(q.errors) \in Nat
    BY <1>1 DEF Reports
  <2> QED
    BY <1>3, <2>1 DEF CancelledAt
<1> QED
  BY <1>2, <1>3, <1>4 DEF Extends, Grows, q

\* A stop is a cancellation that interrupts, or changes nothing of an interrupted report.
LEMMA TerminateMoves ==
    ASSUME NEW r \in Reports, NEW s \in Stages, NEW sel \in SUBSET Active,
           NEW kind \in {"configuration", "timeout", "cancelled"},
           kind = "cancelled" => cancelled,
           kind # "cancelled" => r.status # "interrupted"
    PROVE  Moves(r, Terminate(r, s, sel, kind))
<1> DEFINE q == Terminate(r, s, sel, kind)
<1>0. r.errors \in Seq(Errors) /\ Len(r.errors) \in Nat
  BY DEF Reports
<1>1. CASE Terminated(r, kind)
  <2>1. q = r
    BY <1>1 DEF Terminate
  <2> QED
    BY <2>1, FieldsExtend DEF Moves
<1>2. CASE ~Terminated(r, kind)
  <2>1. /\ q.dns = r.dns /\ q.found = r.found
        /\ \A c \in Checks : r.skipped[c] # "none" => q.skipped[c] = r.skipped[c]
    BY TerminateFacts
  <2>2. PICK e \in Errors : e.kind = kind /\ q.errors = Append(r.errors, e)
    BY <1>2, TerminateFacts
  <2>3. /\ kind = "cancelled" => q.status = "interrupted" /\ r.status # "interrupted"
        /\ kind # "cancelled" => q.status # "interrupted"
    <3> DEFINE error == [stage |-> s, kind |-> kind, recoverable |-> TerminalStatus(r, kind) # "failed"]
               stopped == [r EXCEPT !.status = TerminalStatus(r, kind), !.errors = Append(@, error)]
    <3>1. q = AddSkip(stopped, Unfinished(s, sel), kind)
      BY <1>2 DEF Terminate
    <3>2. q.status = TerminalStatus(r, kind)
      BY <3>1 DEF AddSkip, Reports
    <3> HIDE DEF q
    <3> QED
      BY <1>2, <3>2 DEF TerminalStatus, Terminated
  <2> HIDE DEF q
  <2>4. /\ Len(q.errors) = Len(r.errors) + 1
        /\ \A i \in 1 .. Len(r.errors) : q.errors[i] = r.errors[i]
        /\ q.errors[Len(r.errors) + 1].kind = kind
    BY <1>0, <2>2, AppendProperties
  <2>5. Grows(r, q)
    BY <1>0, <2>1, <2>4 DEF Grows
  <2>6. CASE kind = "cancelled"
    <3>1. CancelledAt(q) = CancelledAt(r) \cup {Len(r.errors) + 1}
      BY <1>0, <2>4, <2>6 DEF CancelledAt
    <3> QED
      BY <1>0, <2>3, <2>5, <2>6, <3>1 DEF Moves, Interrupts, q
  <2>7. CASE kind # "cancelled"
    <3>1. CancelledAt(q) = CancelledAt(r)
      BY <1>0, <2>4, <2>7 DEF CancelledAt
    <3> QED
      BY <2>3, <2>5, <2>7, <3>1 DEF Moves, Extends, q
  <2> QED
    BY <2>6, <2>7
<1> QED
  BY <1>1, <1>2

LEMMA SetDnsExtends ==
    ASSUME NEW r \in Reports, NEW field \in {"dnssec", "wildcard", "dangling"}, NEW verdict \in Verdicts
    PROVE  Extends(r, SetDns(r, field, verdict))
<1> DEFINE q == SetDns(r, field, verdict)
<1>1. q \in Reports
  BY SetDnsType
<1>2. /\ q.status = r.status /\ q.errors = r.errors /\ q.found = r.found
      /\ q.skipped = r.skipped /\ q.dns.present = r.dns.present
  BY SetDnsFacts
<1> HIDE DEF q
<1>3. Extends(r, q)
  BY <1>1, <1>2, FieldsExtend
<1> QED
  BY <1>3 DEF q

\* A DNS check that concludes: perhaps a reason to skip it, then its verdict.
LEMMA VerdictExtends ==
    ASSUME NEW r \in Reports, NEW check, NEW field \in {"dnssec", "wildcard", "dangling"},
           NEW verdict \in Verdicts \cap Reasons, NEW q,
           q = SetDns(IF verdict = "determinate" THEN r ELSE AddSkip(r, {check}, verdict), field, verdict)
    PROVE  Moves(r, q)
<1> DEFINE p == IF verdict = "determinate" THEN r ELSE AddSkip(r, {check}, verdict)
<1>1. p \in Reports /\ Extends(r, p)
  BY AddSkipType, AddSkipExtends, FieldsExtend
<1> HIDE DEF p
<1>2. q = SetDns(p, field, verdict)
  BY DEF p
<1>3. q \in Reports /\ Extends(p, q)
  BY <1>1, <1>2, SetDnsType, SetDnsExtends
<1> QED
  BY <1>1, <1>3, ExtendsThenMoves DEF Moves

LEMMA SettleExtends ==
    ASSUME NEW r \in Reports
    PROVE  Extends(r, Settle(r))
<1>1. r.status \in Statuses
  BY DEF Reports
<1>2. Settle(r).status = "interrupted" <=> r.status = "interrupted"
  BY <1>1, SettleFacts DEF Statuses
<1> QED
  BY <1>2, SettleType, SettleFacts, FieldsExtend

LEMMA InterruptMoves ==
    ASSUME NEW r \in Reports, r.status = "interrupted" => cancelled
    PROVE  Moves(r, Interrupt(r))
<1>1. "findings" \in Stages /\ Active \in SUBSET Active
  BY DEF Stages
<1>2. CASE cancelled
  BY <1>1, <1>2, TerminateMoves DEF Interrupt
<1>3. CASE ~cancelled /\ expired
  BY <1>1, <1>3, TerminateMoves DEF Interrupt
<1>4. CASE ~cancelled /\ ~expired
  BY <1>4, FieldsExtend DEF Interrupt, Moves
<1> QED
  BY <1>2, <1>3, <1>4

LEMMA FinishSelectedMoves ==
    ASSUME NEW r \in Reports, NEW s \in Stages, selection \in SUBSET Active
    PROVE  Moves(r, FinishSelected(r, s))
BY TerminateMoves, SettleExtends DEF FinishSelected, Moves

LEMMA StopMoves ==
    ASSUME TypeOK, ~(report.status = "interrupted"), NEW r \in Reports, Extends(report, r),
           NEW kind \in {"configuration", "timeout", "cancelled"}, kind = "cancelled" => cancelled, Stop(r, kind)
    PROVE  Moves(report, report')
<1>1. report' = Terminate(r, stage, selection, kind) /\ stage \in Stages /\ selection \in SUBSET Active
  BY DEF Stop, TypeOK, Selections
<1>2. r.status # "interrupted"
  BY DEF Extends
<1>3. report' \in Reports /\ Moves(r, report')
  BY <1>1, <1>2, TerminateType, TerminateMoves
<1> QED
  BY <1>3, ExtendsThenMoves DEF TypeOK

-----------------------------------------------------------------------------
(* Every step moves the report.                                            *)

\* The baseline is what first puts a DNS observation into the report.
Unasked == pc \in {"start", "baseline"} => ~report.dns.present

LEMMA CutDnsMoves ==
    ASSUME TypeOK, report.status = "not_started", NEW r \in Reports, Extends(report, r), CutDns(r)
    PROVE  Moves(report, report')
BY StopMoves DEF CutDns

LEMMA BaselineMoves ==
    ASSUME TypeOK, Unasked, report.status = "not_started", Baseline
    PROVE  Moves(report, report')
<1>1. report \in Reports /\ ~report.dns.present
  BY DEF TypeOK, Unasked, Baseline
<1>2. ASSUME NEW dns \in DnsObservations, NEW errors \in Seq(Errors), NEW zone,
             \A i \in DOMAIN errors : errors[i].kind # "cancelled", Answered(dns, errors, zone)
      PROVE  Moves(report, report')
  <2> DEFINE q == AddErrors(report, errors)
  <2>1. q \in Reports /\ Extends(report, q) /\ q.dns = report.dns
    BY <1>1, <1>2, AddErrorsType, AddErrorsExtends, AddErrorsFacts
  <2>2. report' = [q EXCEPT !.dns = dns]
    BY <1>2 DEF Answered
  <2> HIDE DEF q
  <2>3. report' \in Reports /\ Extends(q, report')
    <3>1. /\ report'.errors = q.errors /\ report'.skipped = q.skipped /\ report'.found = q.found
          /\ report'.status = q.status /\ report' \in Reports
      BY <2>1, <2>2, <1>2 DEF Reports
    <3> QED
      BY <1>1, <2>1, <3>1, FieldsExtend
  <2> QED
    BY <1>1, <2>1, <2>3, ExtendsThenMoves DEF Moves
<1>3. CASE CutDns(report)
  BY <1>1, <1>3, CutDnsMoves, FieldsExtend
<1>4. CASE Answered(AddressDns, <<>>, FALSE)
  <2>1. AddressDns \in DnsObservations
    BY DEF AddressDns, NoDns, DnsObservations, Verdicts
  <2>2. <<>> \in Seq(Errors) /\ \A i \in DOMAIN <<>> : <<>>[i].kind # "cancelled"
    OBVIOUS
  <2> QED
    BY <1>2, <1>4, <2>1, <2>2
<1>5. CASE Answered(NoDns, <<ResolverError>>, FALSE)
  <2>1. NoDns \in DnsObservations /\ <<ResolverError>> \in Seq(Errors)
    BY DEF NoDns, DnsObservations, Verdicts, ResolverError, Errors, Stages, Kinds
  <2>2. \A i \in DOMAIN <<ResolverError>> : <<ResolverError>>[i].kind # "cancelled"
    BY DEF ResolverError
  <2> QED
    BY <1>2, <1>5, <2>1, <2>2
<1>6. CASE \E addresses, cnames, zone \in BOOLEAN, batch \in ErrorBatches :
              Answered([NoDns EXCEPT !.present = TRUE, !.addresses = addresses, !.cnames = cnames], batch, zone)
  <2>1. PICK addresses \in BOOLEAN, cnames \in BOOLEAN, zone \in BOOLEAN, batch \in ErrorBatches :
             Answered([NoDns EXCEPT !.present = TRUE, !.addresses = addresses, !.cnames = cnames], batch, zone)
    BY <1>6
  <2>2. [NoDns EXCEPT !.present = TRUE, !.addresses = addresses, !.cnames = cnames] \in DnsObservations
    BY DEF NoDns, DnsObservations, Verdicts
  <2>3. batch \in Seq(Errors) /\ \A i \in DOMAIN batch : batch[i].kind # "cancelled"
    BY ErrorBatchesAssumption
  <2> QED
    BY <1>2, <2>1, <2>2, <2>3
<1> QED
  BY <1>3, <1>4, <1>5, <1>6 DEF Baseline

LEMMA DnsStepMoves ==
    ASSUME IInv, Unasked, DnsStep
    PROVE  Moves(report, report')
<1>1. /\ TypeOK /\ report \in Reports /\ report.status = "not_started" /\ selection \in SUBSET Active
      /\ Extends(report, report) /\ "dns" \in Stages
  <2>1. ~Returned
    BY DEF Returned, DnsStep, Preflight, Start, Baseline, Dnssec, Axfr, Wildcard, Dangling,
       Addresses, NotApplicable
  <2> QED
    BY <2>1, FieldsExtend DEF IInv, Phased, TypeOK, Selections, Stages
<1>2. CASE Preflight
  BY <1>1, <1>2, StopMoves DEF Preflight
<1>3. CASE Start
  BY <1>1, <1>3, TerminateMoves DEF Start, Moves
<1>4. CASE Baseline
  BY <1>1, <1>4, BaselineMoves
<1>5. ASSUME NEW location, NEW check, NEW next, NotApplicable(location, check, next)
      PROVE  Moves(report, report')
  BY <1>1, <1>5, AddSkipExtends DEF NotApplicable, Moves, Reasons
<1>6. ASSUME NEW check, NEW next, Unavailable(check, next)
      PROVE  Moves(report, report')
  BY <1>1, <1>6, AddSkipExtends DEF Unavailable, Moves, Reasons
<1>7. ASSUME NEW field \in {"dnssec", "wildcard", "dangling"}, CutDns(SetDns(report, field, "indeterminate"))
      PROVE  Moves(report, report')
  BY <1>1, <1>7, SetDnsExtends, SetDnsType, CutDnsMoves DEF Verdicts
<1>8. ASSUME NEW check, NEW field \in {"wildcard", "dangling"}, NEW next, Concluded(check, field, next)
      PROVE  Moves(report, report')
  <2>1. PICK verdict \in {"determinate", "indeterminate"} :
           report' = SetDns(IF verdict = "determinate" THEN report ELSE AddSkip(report, {check}, verdict), field, verdict)
    BY <1>8 DEF Concluded
  <2>2. CASE verdict = "indeterminate"
    BY <1>1, <2>1, <2>2, VerdictExtends DEF Verdicts, Reasons
  <2>3. CASE verdict = "determinate"
    BY <1>1, <2>1, <2>3, SetDnsExtends DEF Verdicts, Moves
  <2> QED
    BY <2>2, <2>3
<1>9. CASE Dnssec
  <2>1. ASSUME NEW verdict \in Verdicts \ {"none"},
               report' = SetDns(IF verdict = "determinate" THEN report
                                ELSE AddSkip(report, {"dnssec_validation"}, verdict), "dnssec", verdict)
        PROVE  Moves(report, report')
    <3>1. CASE verdict = "determinate"
      BY <1>1, <2>1, <3>1, SetDnsExtends DEF Verdicts, Moves
    <3>2. CASE verdict # "determinate"
      BY <1>1, <2>1, <3>2, VerdictExtends DEF Verdicts, Reasons
    <3> QED
      BY <3>1, <3>2
  <2> QED
    BY <1>5, <1>7, <1>9, <2>1 DEF Dnssec
<1>10. CASE Axfr
  <2>1. CASE CutDns(report)
    BY <1>1, <2>1, CutDnsMoves
  <2>2. CASE \E batch \in ErrorBatches : report' = AddErrors(report, batch)
    BY <1>1, <2>2, AddErrorsExtends, ErrorBatchesAssumption DEF Moves
  <2> QED
    BY <1>5, <1>6, <1>10, <2>1, <2>2 DEF Axfr
<1>11. CASE Wildcard
  BY <1>5, <1>6, <1>7, <1>8, <1>11 DEF Wildcard
<1>12. CASE Dangling
  BY <1>5, <1>6, <1>7, <1>8, <1>12 DEF Dangling
<1>13. CASE Addresses
  <2> DEFINE p == [report EXCEPT !.status = "partial"]
  <2>1. p \in Reports /\ Extends(report, p)
    <3>1. /\ p \in Reports /\ p.errors = report.errors /\ p.skipped = report.skipped
          /\ p.found = report.found /\ p.dns = report.dns /\ p.status = "partial"
      BY <1>1 DEF Reports, Statuses
    <3> QED
      BY <1>1, <3>1, FieldsExtend
  <2> HIDE DEF p
  <2>2. CASE report' = FinishSelected(p, "ports")
    <3>1. "ports" \in Stages
      BY DEF Stages, Active
    <3>2. report' \in Reports /\ Moves(p, report')
      BY <1>1, <2>1, <2>2, <3>1, FinishSelectedType, FinishSelectedMoves
    <3> QED
      BY <1>1, <2>1, <3>2, ExtendsThenMoves
  <2>3. CASE UNCHANGED report
    BY <1>1, <2>3 DEF Moves
  <2> QED
    BY <1>13, <2>2, <2>3 DEF Addresses, p
<1> QED
  BY <1>2, <1>3, <1>4, <1>9, <1>10, <1>11, <1>12, <1>13 DEF DnsStep

LEMMA ActiveStepMoves ==
    ASSUME IInv, ActiveStep
    PROVE  Moves(report, report')
<1>1. /\ TypeOK /\ report \in Reports /\ report.status = "not_started" /\ selection \in SUBSET Active
      /\ Extends(report, report)
  <2>1. ~Returned
    BY DEF Returned, ActiveStep, Gate, Run, Check, Ssh, Finish
  <2> QED
    BY <2>1, FieldsExtend DEF IInv, Phased, TypeOK, Selections
<1>2. ASSUME NEW kind \in {"timeout", "cancelled"}, kind = "cancelled" => cancelled, Stop(report, kind)
      PROVE  Moves(report, report')
  BY <1>1, <1>2, StopMoves
<1>3. CASE Gate
  <2> DEFINE error == [stage |-> stage, kind |-> "other", recoverable |-> TRUE]
  <2>1. <<error>> \in Seq(Errors) /\ \A i \in DOMAIN <<error>> : <<error>>[i].kind # "cancelled"
    BY <1>1 DEF TypeOK, Errors, Kinds
  <2>2. CASE report' = AddErrors(report, <<error>>)
    BY <1>1, <2>1, <2>2, AddErrorsExtends DEF Moves
  <2> QED
    BY <1>1, <1>2, <1>3, <2>2 DEF Gate, Moves
<1>4. CASE Run
  <2>1. PICK observed \in BOOLEAN :
           report' = [report EXCEPT !.found = IF observed THEN @ \cup {stage} ELSE @]
    BY <1>4 DEF Run
  <2>2. /\ report' \in Reports /\ report'.errors = report.errors /\ report'.skipped = report.skipped
        /\ report.found \subseteq report'.found /\ report'.dns = report.dns /\ report'.status = report.status
    BY <1>1, <2>1 DEF Reports, TypeOK
  <2> QED
    BY <1>1, <2>2, FieldsExtend DEF Moves
<1>5. CASE Check
  BY <1>1, <1>2, <1>5 DEF Check, Moves
<1>6. CASE Ssh
  BY <1>1, <1>2, <1>6 DEF Ssh, Moves
<1>7. CASE Finish
  <2> DEFINE p == IF "tls" \in selection \ Scheduled THEN AddSkip(report, {"tls"}, "not_applicable") ELSE report
  <2>1. p \in Reports /\ Extends(report, p)
    BY <1>1, AddSkipType, AddSkipExtends DEF Reasons
  <2> HIDE DEF p
  <2>2. report' = FinishSelected(p, "findings")
    BY <1>7 DEF Finish, p
  <2>3. report' \in Reports /\ Moves(p, report')
    BY <1>1, <2>1, <2>2, FinishSelectedType, FinishSelectedMoves DEF Stages
  <2> QED
    BY <1>1, <2>1, <2>3, ExtendsThenMoves
<1> QED
  BY <1>3, <1>4, <1>5, <1>6, <1>7 DEF ActiveStep

LEMMA FinalStepMoves ==
    ASSUME IInv, FinalStep
    PROVE  Moves(report, report')
<1>1. report \in Reports /\ (report.status = "interrupted" => cancelled) /\ Extends(report, report)
  BY FieldsExtend DEF IInv, TypeOK, InterruptedWasCancelled
<1>2. ASSUME NEW q \in Reports, NEW score, NEW completed,
             report' = [q EXCEPT !.score = score, !.completed = completed], report' \in Reports
      PROVE  Extends(q, report')
  <2>1. /\ report'.errors = q.errors /\ report'.skipped = q.skipped /\ report'.found = q.found
        /\ report'.dns = q.dns /\ report'.status = q.status
    BY <1>2 DEF Reports
  <2> QED
    BY <1>2, <2>1, FieldsExtend
<1>3. report' \in Reports
  BY FinalStepType DEF IInv, TypeOK
<1>4. CASE Finalize
  <2>1. CASE report' = [report EXCEPT !.completed = TRUE]
    <3>1. report' = [report EXCEPT !.score = report.score, !.completed = TRUE]
      BY <1>1, <2>1 DEF Reports
    <3> QED
      BY <1>1, <1>2, <1>3, <3>1 DEF Moves
  <2> QED
    BY <1>1, <1>4, <2>1, InterruptMoves, SettleExtends DEF Finalize, Moves
<1>5. CASE Score
  <2>1. \E score : report' = [report EXCEPT !.score = score, !.completed = report.completed]
    BY <1>1, <1>5 DEF Score, Reports
  <2> QED
    BY <1>1, <1>2, <1>3, <2>1 DEF Moves
<1>6. CASE Recheck
  <2> DEFINE q == Interrupt(report)
  <2>1. q \in Reports /\ Moves(report, q)
    BY <1>1, InterruptType, InterruptMoves
  <2>2. report' = [q EXCEPT !.completed = TRUE]
    BY <1>6 DEF Recheck
  <2> HIDE DEF q
  <2>3. report' = [q EXCEPT !.score = q.score, !.completed = TRUE]
    BY <2>1, <2>2 DEF Reports
  <2>4. Extends(q, report')
    BY <1>2, <1>3, <2>1, <2>3
  <2>5. Grows(report, report')
    BY <1>1, <1>3, <2>1, <2>4, GrowsTransitive DEF Moves, Extends, Interrupts
  <2> QED
    BY <2>1, <2>4, <2>5 DEF Moves, Extends, Interrupts
<1> QED
  BY <1>4, <1>5, <1>6 DEF FinalStep

LEMMA StepMoves ==
    ASSUME IInv, Unasked, [Next]_vars
    PROVE  Moves(report, report')
<1>1. CASE UNCHANGED report
  BY <1>1, FieldsExtend DEF IInv, TypeOK, Moves
<1> QED
  BY <1>1, DnsStepMoves, ActiveStepMoves, FinalStepMoves DEF Next, Cancel, Expire, vars

LEMMA UnaskedInvariant ==
    /\ Init => Unasked
    /\ IInv /\ IInv' /\ Unasked /\ [Next]_vars => Unasked'
<1>1. Init => Unasked
  BY InitType, StartReport DEF Init, Unasked, NoDns
<1>2. ASSUME IInv, IInv', Unasked, [Next]_vars PROVE Unasked'
  <2> SUFFICES ASSUME pc' \in {"start", "baseline"} PROVE ~report'.dns.present
    BY DEF Unasked
  <2>1. UNCHANGED report /\ pc \in {"start", "baseline"}
    <3>1. ~ActiveStep
      BY DEF ActiveStep, Gate, Run, Check, Ssh, Finish, Stop, Goto, Proceed
    <3>2. ~FinalStep
      BY DEF FinalStep, Finalize, Score, Recheck, Goto
    <3>3. DnsStep => Start
      BY DEF DnsStep, Preflight, Baseline, Dnssec, Axfr, Wildcard, Dangling, Addresses, NotApplicable,
         Unavailable, Concluded, CutDns, Stop, Goto, Proceed
    <3>4. CASE Start
      BY <3>4 DEF Start
    <3> QED
      BY <1>2, <3>1, <3>2, <3>3, <3>4 DEF Next, Cancel, Expire, vars
  <2> QED
    BY <1>2, <2>1 DEF Unasked
<1> QED
  BY <1>1, <1>2

\* A scan only ever adds to its report, and a committed report is final: neither a stop,
\* nor a second finalization, takes an error, an observation or a reason back.
THEOREM TakenBackTheorem == Spec => NothingIsTakenBack
<1> DEFINE More == /\ Len(report.errors) <= Len(report'.errors)
                   /\ SubSeq(report'.errors, 1, Len(report.errors)) = report.errors
                   /\ report.found \subseteq report'.found
                   /\ report.dns.present => report'.dns.present
                   /\ \A c \in Checks : report.skipped[c] # "none" => report'.skipped[c] = report.skipped[c]
<1>1. IInv /\ IInv' /\ Unasked /\ [Next]_vars => [More]_vars
  <2> SUFFICES ASSUME IInv, IInv', Unasked, [Next]_vars PROVE More
    OBVIOUS
  <2>1. Grows(report, report')
    BY StepMoves DEF Moves, Extends, Interrupts
  <2>2. report.errors \in Seq(Errors) /\ report'.errors \in Seq(Errors)
    BY DEF IInv, TypeOK, Reports
  <2>3. SubSeq(report'.errors, 1, Len(report.errors)) = report.errors
    <3> DEFINE s == report.errors  t == report'.errors  n == Len(s)
    <3>1. n \in Nat /\ Len(t) \in Nat /\ n <= Len(t) /\ s \in Seq(Errors) /\ t \in Seq(Errors)
      BY <2>1, <2>2 DEF Grows
    <3>2. \A i \in 1 .. n : t[i] \in Errors /\ t[i] = s[i]
      BY <2>1, <3>1, ElementOfSeq DEF Grows
    <3> HIDE DEF s, t, n
    <3>3. /\ SubSeq(t, 1, n) \in Seq(Errors)
          /\ Len(SubSeq(t, 1, n)) = IF 1 <= n THEN n - 1 + 1 ELSE 0
          /\ \A i \in 1 .. n - 1 + 1 : SubSeq(t, 1, n)[i] = t[1 + i - 1]
      BY <3>1, <3>2, SubSeqProperties
    <3>4. Len(SubSeq(t, 1, n)) = n /\ \A i \in 1 .. n : SubSeq(t, 1, n)[i] = s[i]
      BY <3>1, <3>2, <3>3
    <3>5. Len(s) = n
      BY DEF n
    <3>6. SubSeq(t, 1, n) = s
      BY <3>1, <3>3, <3>4, <3>5, SeqEqual
    <3> QED
      BY <3>6 DEF s, t, n
  <2> QED
    BY <2>1, <2>3 DEF Grows
<1>2. Spec => []Unasked
  BY UnaskedInvariant, Inductive, PTL DEF Spec
<1>3. Spec => ReportOnlyGrows
  BY <1>1, <1>2, Inductive, PTL DEF Spec, ReportOnlyGrows
<1> QED
  BY <1>3, CommittedTheorem DEF NothingIsTakenBack

-----------------------------------------------------------------------------
(* A report accounts for itself.                                           *)

\* The cancellation is in an interrupted report once, and in no other.
CancelledOnce ==
    IF report.status = "interrupted" THEN cancelled /\ \E i \in Nat : CancelledAt(report) = {i}
    ELSE CancelledAt(report) = {}

\* What PreflightDoesNoWork rests on before the scan returns.
Rejected ==
    target = "conflict" =>
        /\ report.score = "none" /\ ~HasObservations(report)
        /\ \A s \in WorkStages : work[s] = "idle"
        /\ pc = "start" => report.errors = <<>>
        /\ Returned => report.status = "failed" /\ Len(report.errors) = 1

Accounted == Unasked /\ CancelledOnce /\ Rejected /\ NothingMissingInSilence

LEMMA InitAccounted == Init => Accounted
<1> SUFFICES ASSUME Init PROVE Accounted
  OBVIOUS
<1>1. /\ report.status = "not_started" /\ report.score = "none" /\ report.dns = NoDns /\ report.found = {}
  BY InitType, StartReport DEF Init
<1>2. report.errors = <<>>
  <2>1. NotStarted \in Reports /\ NotStarted.errors = <<>>
    BY DEF NotStarted, Reports, Statuses, Reasons, NoDns, DnsObservations, Verdicts
  <2> QED
    BY <2>1, AddSkipFacts DEF Init
<1>3. Unasked
  BY UnaskedInvariant
<1>4. CancelledOnce
  BY <1>1, <1>2 DEF CancelledOnce, CancelledAt
<1>5. ~Returned
  BY DEF Init, Returned
<1>6. Rejected
  <2>1. ~HasObservations(report)
    <3>1. ~NoDns.present
      BY DEF NoDns
    <3> QED
      BY <1>1, <3>1 DEF HasObservations
  <2>2. \A s \in WorkStages : work[s] = "idle"
    BY DEF Init
  <2> QED
    BY <1>1, <1>2, <1>5, <2>1, <2>2 DEF Rejected
<1>7. NothingMissingInSilence
  BY <1>5 DEF NothingMissingInSilence
<1> QED
  BY <1>3, <1>4, <1>6, <1>7 DEF Accounted

LEMMA CancelledOnceSafe ==
    ASSUME IInv, Unasked, CancelledOnce, [Next]_vars
    PROVE  CancelledOnce'
<1>1. Moves(report, report')
  BY StepMoves
<1>2. cancelled => cancelled'
  BY DEF Next, DnsStep, ActiveStep, FinalStep, Preflight, Start, Baseline, Dnssec, Axfr, Wildcard, Dangling,
     Addresses, NotApplicable, Unavailable, Concluded, CutDns, Gate, Run, Check, Ssh, Finish, Finalize,
     Score, Recheck, Cancel, Expire, environment, vars
<1>3. CancelledAt(report)' = CancelledAt(report')
  BY DEF CancelledAt
<1>4. CASE Extends(report, report')
  BY <1>2, <1>3, <1>4 DEF CancelledOnce, Extends
<1>5. CASE Interrupts(report, report')
  BY <1>2, <1>3, <1>5 DEF CancelledOnce, Interrupts
<1> QED
  BY <1>1, <1>4, <1>5 DEF Moves

LEMMA RejectedSafe ==
    ASSUME IInv, IInv', Rejected, [Next]_vars
    PROVE  Rejected'
<1> SUFFICES ASSUME target' = "conflict" PROVE Rejected'
  BY DEF Rejected
<1>1. report \in Reports /\ selection \in SUBSET Active
  BY DEF IInv, TypeOK, Selections
<1>2. target = "conflict"
  BY DEF Next, DnsStep, ActiveStep, FinalStep, Preflight, Start, Baseline, Dnssec, Axfr, Wildcard, Dangling,
     Addresses, NotApplicable, Unavailable, Concluded, CutDns, Gate, Run, Check, Ssh, Finish, Finalize,
     Score, Recheck, Cancel, Expire, environment, vars
<1>3. pc \in {"start", "returned", "done"} /\ (Returned => PreflightFailed(report))
  BY <1>2 DEF IInv, Phased
<1>4. CASE Preflight
  <2>1. /\ pc = "start" /\ stage \in Stages /\ UNCHANGED work
        /\ report' = Terminate(report, stage, selection, "configuration") /\ pc' = "returned"
    BY <1>4 DEF Preflight, Stop, Goto, IInv, TypeOK
  <2>2. report.status = "not_started" /\ report.errors = <<>>
    BY <1>2, <2>1 DEF Rejected, IInv, Phased, Returned
  <2>3. /\ report'.dns = report.dns /\ report'.found = report.found /\ report'.score = report.score
        /\ \E e \in Errors : report'.errors = Append(report.errors, e)
    BY <1>1, <2>1, <2>2, TerminateFacts DEF Terminated
  <2>4. Len(report'.errors) = 1
    BY <2>2, <2>3
  <2>5. report'.status = "failed"
    <3>1. report'.status = TerminalStatus(report, "configuration")
      BY <1>1, <2>1, <2>2 DEF Terminate, Terminated, AddSkip, Reports
    <3> QED
      BY <3>1 DEF TerminalStatus
  <2> QED
    BY <1>2, <2>1, <2>3, <2>4, <2>5 DEF Rejected, HasObservations
<1>5. CASE Finalize
  <2>1. Returned /\ Returned'
    BY <1>5, <1>3 DEF Finalize, Goto, Returned
  <2>2. UNCHANGED <<report, work>> \/ (report' = [report EXCEPT !.completed = TRUE] /\ UNCHANGED work)
    BY <1>3, <1>5, <2>1 DEF Finalize
  <2>3. /\ report'.dns = report.dns /\ report'.found = report.found /\ report'.score = report.score
        /\ report'.errors = report.errors /\ report'.status = report.status /\ work' = work
    BY <1>1, <2>2 DEF Reports
  <2>4. pc' # "start"
    BY <2>1 DEF Returned
  <2> QED
    BY <1>2, <2>1, <2>3, <2>4 DEF Rejected, HasObservations
<1>6. CASE UNCHANGED <<target, report, work, pc>>
  BY <1>2, <1>6 DEF Rejected, HasObservations, Returned
<1>7. \/ Preflight \/ Finalize \/ UNCHANGED <<target, report, work, pc>>
  <2>1. ~ActiveStep
    BY <1>3 DEF ActiveStep, Gate, Run, Check, Ssh, Finish
  <2>2. FinalStep => Finalize
    BY <1>3 DEF FinalStep, Score, Recheck
  <2>3. DnsStep => Preflight
    BY <1>2, <1>3 DEF DnsStep, Start, Baseline, Dnssec, Axfr, Wildcard, Dangling, Addresses, NotApplicable
  <2> QED
    BY <2>1, <2>2, <2>3 DEF Next, Cancel, Expire, vars
<1> QED
  BY <1>4, <1>5, <1>6, <1>7

\* Stopping at a stage gives a reason to every selected check that does not come before it.
LEMMA StopListsRest ==
    ASSUME TypeOK, NEW r \in Reports, r.status = "not_started", NEW s \in {"dns"} \cup Active,
           NEW kind \in {"timeout", "cancelled"}, report' = Terminate(r, s, selection, kind)
    PROVE  /\ report'.dns = r.dns
           /\ \A c \in selection : Rank(c) >= Rank(s) => report'.skipped[c] # "none"
<1>1. selection \in SUBSET Active /\ s \in Stages /\ ~Terminated(r, kind)
  BY DEF TypeOK, Selections, Stages, Terminated
<1>2. /\ report'.dns = r.dns
      /\ \A c \in Checks : report'.skipped[c] =
            IF c \in Unfinished(s, selection) /\ r.skipped[c] = "none" THEN kind ELSE r.skipped[c]
  BY <1>1, TerminateFacts
<1>3. \A c \in selection : c \in Checks /\ (Rank(c) >= Rank(s) => c \in Unfinished(s, selection))
  BY <1>1 DEF Unfinished, CheckStage, Checks, DnsChecks, Active
<1> QED
  BY <1>2, <1>3

\* Only TLS may be selected and not be scheduled, and no stage comes after it.
LEMMA UnscheduledIsTls ==
    ASSUME TypeOK, NEW c \in selection \ Scheduled
    PROVE  c = "tls" /\ \A s \in {"dns"} \cup Active : Rank(c) >= Rank(s)
<1>1. c = "tls"
  BY DEF Scheduled
<1>2. /\ Rank("dns") = 1 /\ Rank("ports") = 2 /\ Rank("services") = 3
      /\ Rank("http") = 4 /\ Rank("tls") = 5
  BY DEF Rank
<1> QED
  BY <1>1, <1>2 DEF Active

\* Nothing is missing when the scan stops at a stage before which all did their work.
LEMMA StopLeavesNoGap ==
    ASSUME IInv, TypeOK', UNCHANGED environment, report.status = "not_started",
           NEW s \in {"dns"} \cup Scheduled, \A t \in Before(s) : work'[t] = "full",
           NEW r \in Reports, r.status = "not_started",
           NEW kind \in {"timeout", "cancelled"}, report' = Terminate(r, s, selection, kind)
    PROVE  NothingMissingInSilence'
<1>1. TypeOK /\ Scheduled \subseteq Active /\ Active \subseteq Stages /\ "dns" \in Stages
  BY DEF IInv, TypeOK, Selections, Scheduled, Stages
<1>2. \A c \in selection : Rank(c) >= Rank(s) => report'.skipped[c] # "none"
  BY <1>1, StopListsRest
<1>3. ASSUME NEW c \in selection, work'[c] # "full"
      PROVE  report'.skipped[c] # "none"
  <2>1. CASE c \notin Scheduled
    BY <1>1, <1>2, <2>1, UnscheduledIsTls
  <2>2. CASE c \in Scheduled
    <3>1. c \notin Before(s)
      BY <1>3
    <3>2. Rank(c) \in Nat /\ Rank(s) \in Nat
      BY <1>1, <2>2, RankFacts
    <3>3. Rank(c) >= Rank(s)
      BY <2>2, <3>1, <3>2 DEF Before
    <3> QED
      BY <1>2, <3>3
  <2> QED
    BY <2>1, <2>2
<1> QED
  BY <1>3 DEF NothingMissingInSilence, environment

LEMMA DnsStepLeavesNoGap ==
    ASSUME IInv, TypeOK', DnsStep
    PROVE  NothingMissingInSilence'
<1>0. ~Returned
  BY DEF Returned, DnsStep, Preflight, Start, Baseline, Dnssec, Axfr, Wildcard, Dangling,
     Addresses, NotApplicable
<1>1. TypeOK /\ report \in Reports /\ report.status = "not_started" /\ Before("dns") = {}
  BY <1>0, BeforeFacts DEF IInv, Phased, TypeOK
<1>2. ASSUME NEW r \in Reports, r.status = "not_started", CutDns(r), stage = "dns"
      PROVE  NothingMissingInSilence'
  <2>1. \E kind \in {"timeout", "cancelled"} : report' = Terminate(r, "dns", selection, kind)
    BY <1>2 DEF CutDns, Stop
  <2>2. UNCHANGED environment
    BY <1>2 DEF CutDns
  <2> QED
    BY <1>1, <1>2, <2>1, <2>2, StopLeavesNoGap
<1>3. ASSUME NEW field \in {"dnssec", "wildcard", "dangling"}, CutDns(SetDns(report, field, "indeterminate")),
             stage = "dns"
      PROVE  NothingMissingInSilence'
  <2>1. SetDns(report, field, "indeterminate") \in Reports
    BY <1>1, SetDnsType DEF Verdicts
  <2>2. SetDns(report, field, "indeterminate").status = "not_started"
    BY <1>1, SetDnsFacts
  <2> QED
    BY <1>2, <1>3, <2>1, <2>2
<1>4. CASE ~Returned'
  BY <1>4 DEF NothingMissingInSilence
<1>5. CASE Preflight
  <2>1. report.dns.addresses = FALSE /\ report' = Terminate(report, stage, selection, "configuration")
    BY <1>1, <1>5, StartReport DEF Preflight, Stop, IInv, Phased, NoDns
  <2>2. report'.dns = report.dns
    BY <1>1, <2>1, TerminateFacts DEF TypeOK, Selections
  <2> QED
    BY <2>1, <2>2 DEF NothingMissingInSilence
<1>6. CASE Start
  BY <1>1, <1>4, <1>6, StopLeavesNoGap DEF Start, Returned
<1>7. CASE Addresses
  <2>1. CASE report.dns.addresses
    BY <1>4, <1>7, <2>1 DEF Addresses, Proceed, Returned
  <2>2. CASE ~report.dns.addresses
    <3> DEFINE p == [report EXCEPT !.status = "partial"]
    <3>1. p \in Reports /\ p.dns = report.dns
      BY <1>1 DEF Reports, Statuses
    <3>2. report' = FinishSelected(p, "ports")
      BY <1>7, <2>2 DEF Addresses
    <3> HIDE DEF p
    <3>3. "ports" \in Stages /\ selection \in SUBSET Active
      BY <1>1 DEF Stages, Active, TypeOK, Selections
    <3>4. report'.dns = report.dns
      BY <3>1, <3>2, <3>3, TerminateFacts, SettleFacts DEF FinishSelected
    <3> QED
      BY <2>2, <3>4 DEF NothingMissingInSilence
  <2> QED
    BY <2>1, <2>2
<1>8. CASE Baseline \/ Dnssec \/ Axfr \/ Wildcard \/ Dangling
  <2>1. stage = "dns"
    BY <1>8 DEF IInv, Phased, DnsLocations, Baseline, Dnssec, Axfr, Wildcard, Dangling, NotApplicable
  <2>2. \/ ~Returned' \/ CutDns(report)
        \/ \E field \in {"dnssec", "wildcard", "dangling"} : CutDns(SetDns(report, field, "indeterminate"))
    BY <1>8 DEF Baseline, Dnssec, Axfr, Wildcard, Dangling, NotApplicable, Unavailable, Concluded, Goto, Returned
  <2> QED
    BY <1>1, <1>2, <1>3, <1>4, <2>1, <2>2
<1> QED
  BY <1>5, <1>6, <1>7, <1>8 DEF DnsStep

LEMMA ActiveStepLeavesNoGap ==
    ASSUME IInv, TypeOK', ActiveStep
    PROVE  NothingMissingInSilence'
<1>0. ~Returned
  BY DEF Returned, ActiveStep, Gate, Run, Check, Ssh, Finish
<1>1. TypeOK /\ report \in Reports /\ report.status = "not_started" /\ UNCHANGED environment
  BY <1>0 DEF IInv, Phased, TypeOK, ActiveStep, Gate, Run, Check, Ssh, Finish
<1>2. CASE ~Returned'
  BY <1>2 DEF NothingMissingInSilence
<1>3. CASE Finish
  <2> DEFINE p == IF "tls" \in selection \ Scheduled THEN AddSkip(report, {"tls"}, "not_applicable") ELSE report
  <2>1. /\ p \in Reports /\ selection \in SUBSET Active
        /\ "tls" \in selection \ Scheduled => p.skipped["tls"] # "none"
    BY <1>1, AddSkipType, AddSkipFacts DEF Reasons, Checks, Active, TypeOK, Selections
  <2> HIDE DEF p
  <2>2. report' = FinishSelected(p, "findings") /\ AllFull(Scheduled) /\ work' = work
    BY <1>3 DEF Finish, p, IInv, Worked
  <2>3. Grows(p, report')
    BY <2>1, <2>2, FinishSelectedMoves DEF Stages, Moves, Extends, Interrupts
  <2>4. \A c \in selection : work'[c] # "full" => c = "tls" /\ c \notin Scheduled
    BY <1>1, <2>2, UnscheduledIsTls DEF AllFull
  <2>5. \A c \in selection : work'[c] # "full" => report'.skipped[c] # "none"
    BY <2>1, <2>3, <2>4 DEF Grows, Checks, Active
  <2> QED
    BY <1>1, <2>5 DEF NothingMissingInSilence, environment
<1>4. CASE Gate \/ Check \/ Ssh
  <2>1. stage \in Scheduled /\ AllFull(Before(stage)) /\ stage \notin Before(stage)
    BY <1>1, <1>4, BeforeFacts DEF Gate, Check, Ssh, IInv, Phased, Worked
  <2>2. CASE Returned'
    <3>1. \E kind \in {"timeout", "cancelled"} : report' = Terminate(report, stage, selection, kind)
      BY <1>4, <2>2 DEF Gate, Check, Ssh, Stop, Goto, Proceed, Returned
    <3>2. \A w \in WorkStages : work'[w] = work[w] \/ w = stage
      <4>1. CASE Gate
        BY <2>2, <4>1 DEF Gate, Stop, Goto, Returned
      <4>2. CASE Check
        BY <4>2 DEF Check
      <4>3. CASE Ssh
        <5>1. stage = "services"
          BY <4>3 DEF Ssh, IInv, Phased
        <5> QED
          BY <1>1, <4>3, <5>1 DEF Ssh, Cut, TypeOK
      <4> QED
        BY <1>4, <4>1, <4>2, <4>3
    <3>3. Before(stage) \subseteq WorkStages
      BY <1>1 DEF Before, Scheduled, WorkStages, TypeOK, Selections
    <3>4. \A t \in Before(stage) : work'[t] = "full"
      BY <2>1, <3>2, <3>3 DEF AllFull
    <3> QED
      BY <1>1, <2>1, <3>1, <3>4, StopLeavesNoGap
  <2> QED
    BY <1>2, <2>2
<1>5. CASE Run
  BY <1>2, <1>5 DEF Run, Goto, Returned
<1> QED
  BY <1>3, <1>4, <1>5 DEF ActiveStep

LEMMA GapsSafe ==
    ASSUME IInv, IInv', Unasked, NothingMissingInSilence, [Next]_vars
    PROVE  NothingMissingInSilence'
<1>1. TypeOK' /\ report \in Reports /\ selection \in SUBSET Active /\ Grows(report, report')
  BY StepMoves DEF IInv, TypeOK, Selections, Moves, Extends, Interrupts
<1>2. CASE FinalStep
  <2>1. Returned /\ work' = work /\ selection' = selection
    BY <1>2 DEF FinalStep, Finalize, Score, Recheck, Returned, environment
  <2>2. report'.dns = report.dns
    <3>1. report.status \in {"completed", "partial", "interrupted", "failed"}
      BY <1>1, <2>1 DEF IInv, Phased, Reports, Statuses
    <3>2. Interrupt(report) \in Reports /\ Interrupt(report).dns = report.dns
      BY <1>1, <3>1, InterruptFacts
    <3>3. Settle(report).dns = report.dns
      BY <1>1, SettleFacts
    <3>4. CASE Finalize
      BY <1>1, <3>2, <3>3, <3>4 DEF Finalize, Reports
    <3>5. CASE Score
      BY <1>1, <3>5 DEF Score, Reports
    <3>6. CASE Recheck
      BY <3>2, <3>6 DEF Recheck, Reports
    <3> QED
      BY <1>2, <3>4, <3>5, <3>6 DEF FinalStep
  <2>3. \A c \in selection : c \in Checks
    BY <1>1 DEF Checks
  <2> QED
    BY <1>1, <2>1, <2>2, <2>3 DEF NothingMissingInSilence, Grows
<1>3. CASE Cancel \/ Expire \/ UNCHANGED vars
  BY <1>3 DEF Cancel, Expire, vars, NothingMissingInSilence, Returned
<1> QED
  BY <1>1, <1>2, <1>3, DnsStepLeavesNoGap, ActiveStepLeavesNoGap DEF Next

LEMMA AccountedInvariant == Spec => []Accounted
<1>1. IInv /\ IInv' /\ Accounted /\ [Next]_vars => Accounted'
  BY UnaskedInvariant, CancelledOnceSafe, RejectedSafe, GapsSafe DEF Accounted
<1> QED
  BY <1>1, InitAccounted, Inductive, PTL DEF Spec

\* However a scan ended, its report accounts for it: no selected check is missing in
\* silence, a failed report is empty, a cancellation is recorded once and a rejected
\* target caused no work.
THEOREM AccountsTheorem == Spec => []AccountsForItself
<1>1. IInv /\ Accounted => AccountsForItself
  <2> SUFFICES ASSUME IInv, Accounted PROVE AccountsForItself
    OBVIOUS
  <2>1. DOMAIN report.errors = 1 .. Len(report.errors)
    BY DEF IInv, TypeOK, Reports
  <2>2. Errored("cancelled") = CancelledAt(report)
    BY <2>1 DEF Errored, CancelledAt
  <2>3. InterruptedOnce
    BY <2>2, FS_Singleton DEF Accounted, CancelledOnce, InterruptedOnce
  <2>4. PreflightDoesNoWork
    BY DEF Accounted, Rejected, PreflightDoesNoWork
  <2> QED
    BY <2>3, <2>4 DEF AccountsForItself, Accounted, IInv
<1> QED
  BY <1>1, AccountedInvariant, Inductive, PTL

-----------------------------------------------------------------------------
(* The staged scan implements its contract.                                *)

\* Only preflight rejects a scan: its error is in no report of an accepted target.
RejectedAtPreflight == PreflightFailed(report) => target = "conflict"

LEMMA SameErrorsAdmit ==
    ASSUME NEW r, NEW q, q.errors = r.errors, PreflightFailed(q)
    PROVE  PreflightFailed(r)
BY DEF PreflightFailed

LEMMA AddErrorsAdmits ==
    ASSUME NEW r \in Reports, NEW batch \in Seq(Errors),
           \A i \in DOMAIN batch : batch[i].stage # "preflight",
           NEW q, q.errors = r.errors \o batch, PreflightFailed(q)
    PROVE  PreflightFailed(r)
<1>1. r.errors \in Seq(Errors)
  BY DEF Reports
<1>2. PICK i \in DOMAIN q.errors : q.errors[i].stage = "preflight"
  BY DEF PreflightFailed
<1>3. /\ DOMAIN q.errors = 1 .. Len(r.errors) + Len(batch) /\ DOMAIN r.errors = 1 .. Len(r.errors)
      /\ DOMAIN batch = 1 .. Len(batch) /\ Len(r.errors) \in Nat /\ Len(batch) \in Nat
      /\ q.errors[i] = IF i <= Len(r.errors) THEN r.errors[i] ELSE batch[i - Len(r.errors)]
  BY <1>1, <1>2
<1>4. i <= Len(r.errors)
  <2>1. CASE ~(i <= Len(r.errors))
    <3>1. i - Len(r.errors) \in DOMAIN batch
      BY <1>2, <1>3, <2>1
    <3> QED
      BY <1>2, <1>3, <2>1, <3>1
  <2> QED
    BY <2>1
<1> QED
  BY <1>2, <1>3, <1>4 DEF PreflightFailed

LEMMA TerminateAdmits ==
    ASSUME NEW r \in Reports, NEW s \in Stages \ {"preflight"}, NEW sel \in SUBSET Active,
           NEW kind \in {"configuration", "timeout", "cancelled"},
           PreflightFailed(Terminate(r, s, sel, kind))
    PROVE  PreflightFailed(r)
<1> DEFINE q == Terminate(r, s, sel, kind)
<1>1. CASE q.errors = r.errors
  BY <1>1, SameErrorsAdmit
<1>2. CASE q.errors # r.errors
  <2>1. PICK e \in Errors : e.stage = s /\ q.errors = Append(r.errors, e)
    BY <1>2, TerminateFacts
  <2>2. <<e>> \in Seq(Errors) /\ \A i \in DOMAIN <<e>> : <<e>>[i].stage # "preflight"
    BY <2>1
  <2>3. q.errors = r.errors \o <<e>>
    BY <2>1 DEF Reports
  <2> HIDE DEF q
  <2> QED
    BY <2>2, <2>3, AddErrorsAdmits DEF q
<1> QED
  BY <1>1, <1>2

LEMMA InterruptAdmits ==
    ASSUME NEW r \in Reports, PreflightFailed(Interrupt(r))
    PROVE  PreflightFailed(r)
<1>1. "findings" \in Stages \ {"preflight"} /\ Active \in SUBSET Active
  BY DEF Stages, Active
<1> QED
  BY <1>1, TerminateAdmits DEF Interrupt

LEMMA FinishSelectedAdmits ==
    ASSUME NEW r \in Reports, NEW s \in Stages \ {"preflight"}, selection \in SUBSET Active,
           PreflightFailed(FinishSelected(r, s))
    PROVE  PreflightFailed(r)
BY TerminateAdmits, SettleFacts, SameErrorsAdmit DEF FinishSelected

LEMMA StopAdmits ==
    ASSUME report \in Reports, NEW r \in Reports, r.errors = report.errors, stage \in Stages \ {"preflight"},
           selection \in SUBSET Active, NEW kind \in {"timeout", "cancelled"}, Stop(r, kind), PreflightFailed(report')
    PROVE  PreflightFailed(report)
BY TerminateAdmits, SameErrorsAdmit DEF Stop

LEMMA CutDnsAdmits ==
    ASSUME report \in Reports, NEW r \in Reports, r.errors = report.errors, stage \in Stages \ {"preflight"},
           selection \in SUBSET Active, CutDns(r), PreflightFailed(report')
    PROVE  PreflightFailed(report)
BY StopAdmits DEF CutDns

LEMMA BaselineAdmits ==
    ASSUME TypeOK, stage = "dns", Baseline, PreflightFailed(report')
    PROVE  PreflightFailed(report)
<1>1. report \in Reports /\ selection \in SUBSET Active /\ stage \in Stages \ {"preflight"}
  BY DEF TypeOK, Selections
<1>2. ASSUME NEW dns \in DnsObservations, NEW errors \in Seq(Errors), NEW zone,
             \A i \in DOMAIN errors : errors[i].stage # "preflight", Answered(dns, errors, zone)
      PROVE  PreflightFailed(report)
  <2> DEFINE q == AddErrors(report, errors)
  <2>1. q \in Reports /\ q.errors = report.errors \o errors
    <3>1. q \in Reports
      BY <1>1, <1>2, AddErrorsType
    <3> QED
      BY <1>1, <3>1 DEF AddErrors, Reports
  <2>2. report' = [q EXCEPT !.dns = dns]
    BY <1>2 DEF Answered
  <2> HIDE DEF q
  <2>3. report'.errors = report.errors \o errors
    BY <2>1, <2>2 DEF Reports
  <2> QED
    BY <1>1, <1>2, <2>3, AddErrorsAdmits
<1>3. CASE CutDns(report)
  BY <1>1, <1>3, CutDnsAdmits
<1>4. CASE Answered(AddressDns, <<>>, FALSE)
  <2>1. AddressDns \in DnsObservations
    BY DEF AddressDns, NoDns, DnsObservations, Verdicts
  <2>2. <<>> \in Seq(Errors) /\ \A i \in DOMAIN <<>> : <<>>[i].stage # "preflight"
    OBVIOUS
  <2> QED
    BY <1>2, <1>4, <2>1, <2>2
<1>5. CASE Answered(NoDns, <<ResolverError>>, FALSE)
  <2>1. NoDns \in DnsObservations /\ <<ResolverError>> \in Seq(Errors)
    BY DEF NoDns, DnsObservations, Verdicts, ResolverError, Errors, Stages, Kinds
  <2>2. \A i \in DOMAIN <<ResolverError>> : <<ResolverError>>[i].stage # "preflight"
    BY DEF ResolverError
  <2> QED
    BY <1>2, <1>5, <2>1, <2>2
<1>6. CASE \E addresses, cnames, zone \in BOOLEAN, batch \in ErrorBatches :
              Answered([NoDns EXCEPT !.present = TRUE, !.addresses = addresses, !.cnames = cnames], batch, zone)
  <2>1. PICK addresses \in BOOLEAN, cnames \in BOOLEAN, zone \in BOOLEAN, batch \in ErrorBatches :
             Answered([NoDns EXCEPT !.present = TRUE, !.addresses = addresses, !.cnames = cnames], batch, zone)
    BY <1>6
  <2>2. [NoDns EXCEPT !.present = TRUE, !.addresses = addresses, !.cnames = cnames] \in DnsObservations
    BY DEF NoDns, DnsObservations, Verdicts
  <2>3. batch \in Seq(Errors) /\ \A i \in DOMAIN batch : batch[i].stage # "preflight"
    BY ErrorBatchesAssumption
  <2> QED
    BY <1>2, <2>1, <2>2, <2>3
<1> QED
  BY <1>3, <1>4, <1>5, <1>6 DEF Baseline

LEMMA DnsStepAdmits ==
    ASSUME IInv, target # "conflict", DnsStep, PreflightFailed(report')
    PROVE  PreflightFailed(report)
<1>1. /\ TypeOK /\ report \in Reports /\ selection \in SUBSET Active
      /\ {"dns", "ports"} \subseteq Stages \ {"preflight"}
  BY DEF IInv, TypeOK, Selections, Stages, Active
<1>2. CASE Start
  BY <1>1, <1>2, TerminateAdmits DEF Start
<1>3. CASE pc \in DnsLocations
  <2>1. stage = "dns" /\ stage \in Stages \ {"preflight"}
    BY <1>1, <1>3 DEF IInv, Phased
  <2>2. CASE report'.errors = report.errors
    BY <2>2, SameErrorsAdmit
  <2>3. ASSUME NEW checks, NEW why, NEW field \in {"dnssec", "wildcard", "dangling"}, NEW verdict,
               why \in Reasons
        PROVE  /\ AddSkip(report, checks, why).errors = report.errors
               /\ SetDns(report, field, verdict).errors = report.errors
               /\ SetDns(AddSkip(report, checks, why), field, verdict).errors = report.errors
    BY <1>1, <2>3, AddSkipFacts, AddSkipType, SetDnsFacts
  <2>4. ASSUME NEW location, NEW check, NEW next, NotApplicable(location, check, next)
        PROVE  report'.errors = report.errors
    BY <1>1, <2>4, AddSkipFacts DEF NotApplicable
  <2>5. ASSUME NEW check, NEW next, Unavailable(check, next)
        PROVE  report'.errors = report.errors
    BY <1>1, <2>5, AddSkipFacts DEF Unavailable
  <2>6. ASSUME NEW field \in {"dnssec", "wildcard", "dangling"}, CutDns(SetDns(report, field, "indeterminate"))
        PROVE  PreflightFailed(report)
    <3>1. SetDns(report, field, "indeterminate") \in Reports
      BY <1>1, SetDnsType DEF Verdicts
    <3>2. SetDns(report, field, "indeterminate").errors = report.errors
      BY <1>1, SetDnsFacts
    <3> QED
      BY <1>1, <2>1, <2>6, <3>1, <3>2, CutDnsAdmits
  <2>7. ASSUME NEW check, NEW field \in {"wildcard", "dangling"}, NEW next, Concluded(check, field, next)
        PROVE  report'.errors = report.errors
    <3>1. PICK verdict \in {"determinate", "indeterminate"} :
             report' = SetDns(IF verdict = "determinate" THEN report ELSE AddSkip(report, {check}, verdict), field, verdict)
      BY <2>7 DEF Concluded
    <3>2. "indeterminate" \in Reasons
      BY DEF Reasons
    <3> QED
      BY <2>3, <3>1, <3>2
  <2>8. CASE Baseline
    BY <1>1, <2>1, <2>8, BaselineAdmits
  <2>9. CASE Dnssec
    <3>1. CASE \E verdict \in Verdicts \ {"none"} :
                   report' = SetDns(IF verdict = "determinate" THEN report
                                    ELSE AddSkip(report, {"dnssec_validation"}, verdict), "dnssec", verdict)
      <4>1. PICK verdict \in Verdicts \ {"none"} :
                   report' = SetDns(IF verdict = "determinate" THEN report
                                    ELSE AddSkip(report, {"dnssec_validation"}, verdict), "dnssec", verdict)
        BY <3>1
      <4>2. verdict # "determinate" => verdict \in Reasons
        BY DEF Verdicts, Reasons
      <4>3. SetDns(report, "dnssec", verdict).errors = report.errors
        BY <1>1, SetDnsFacts
      <4> QED
        BY <2>2, <2>3, <4>1, <4>2, <4>3
    <3> QED
      BY <2>2, <2>4, <2>6, <2>9, <3>1 DEF Dnssec
  <2>10. CASE Axfr
    <3>1. CASE CutDns(report)
      BY <1>1, <2>1, <3>1, CutDnsAdmits
    <3>2. CASE \E batch \in ErrorBatches : report' = AddErrors(report, batch)
      <4>1. PICK batch \in ErrorBatches : report' = AddErrors(report, batch)
        BY <3>2
      <4>2. batch \in Seq(Errors) /\ \A i \in DOMAIN batch : batch[i].stage # "preflight"
        BY ErrorBatchesAssumption
      <4>3. report'.errors = report.errors \o batch
        BY <1>1, <4>1 DEF AddErrors, Reports
      <4> QED
        BY <1>1, <4>2, <4>3, AddErrorsAdmits
    <3> QED
      BY <2>2, <2>4, <2>5, <2>10, <3>1, <3>2 DEF Axfr
  <2>11. CASE Wildcard
    BY <2>2, <2>4, <2>5, <2>6, <2>7, <2>11 DEF Wildcard
  <2>12. CASE Dangling
    BY <2>2, <2>4, <2>5, <2>6, <2>7, <2>12 DEF Dangling
  <2>13. CASE Addresses
    <3> DEFINE p == [report EXCEPT !.status = "partial"]
    <3>1. p \in Reports /\ p.errors = report.errors
      BY <1>1 DEF Reports, Statuses
    <3>2. CASE report' = FinishSelected(p, "ports")
      <4> HIDE DEF p
      <4> QED
        BY <1>1, <3>1, <3>2, FinishSelectedAdmits, SameErrorsAdmit
    <3> QED
      BY <2>13, <3>2 DEF Addresses
  <2>14. ~Start /\ ~Preflight
    BY <1>3 DEF Start, Preflight, DnsLocations
  <2> QED
    BY <2>8, <2>9, <2>10, <2>11, <2>12, <2>13, <2>14 DEF DnsStep
<1>4. Start \/ pc \in DnsLocations
  BY DEF DnsStep, Preflight, Baseline, Dnssec, Axfr, Wildcard, Dangling, Addresses, NotApplicable, DnsLocations
<1> QED
  BY <1>2, <1>3, <1>4

LEMMA ActiveStepAdmits ==
    ASSUME IInv, ActiveStep, PreflightFailed(report')
    PROVE  PreflightFailed(report)
<1>1. TypeOK /\ report \in Reports /\ selection \in SUBSET Active
  BY DEF IInv, TypeOK, Selections
<1>2. pc # "finish" => stage \in Stages \ {"preflight"}
  BY DEF ActiveStep, Gate, Run, Check, Ssh, Finish, IInv, TypeOK, Phased, Scheduled, Selections, Stages, Active
<1>3. ASSUME NEW kind \in {"timeout", "cancelled"}, Stop(report, kind), pc # "finish"
      PROVE  PreflightFailed(report)
  BY <1>1, <1>2, <1>3, StopAdmits
<1>4. CASE report'.errors = report.errors
  BY <1>4, SameErrorsAdmit
<1>5. CASE Gate
  <2> DEFINE error == [stage |-> stage, kind |-> "other", recoverable |-> TRUE]
  <2>1. pc # "finish" /\ <<error>> \in Seq(Errors) /\ \A i \in DOMAIN <<error>> : <<error>>[i].stage # "preflight"
    BY <1>1, <1>2, <1>5 DEF Gate, Errors, Kinds
  <2>2. CASE report' = AddErrors(report, <<error>>)
    <3>1. report'.errors = report.errors \o <<error>>
      BY <1>1, <2>2 DEF AddErrors, Reports
    <3> HIDE DEF error
    <3> QED
      BY <1>1, <2>1, <3>1, AddErrorsAdmits
  <2>3. CASE \E kind \in {"timeout"} : Stop(report, kind)
    BY <1>3, <2>1, <2>3
  <2> QED
    BY <1>4, <1>5, <2>2, <2>3 DEF Gate
<1>6. CASE Run
  BY <1>1, <1>4, <1>6 DEF Run, Reports
<1>7. CASE Check
  BY <1>3, <1>4, <1>7 DEF Check
<1>8. CASE Ssh
  BY <1>3, <1>4, <1>8 DEF Ssh
<1>9. CASE Finish
  <2> DEFINE p == IF "tls" \in selection \ Scheduled THEN AddSkip(report, {"tls"}, "not_applicable") ELSE report
  <2>1. p \in Reports /\ p.errors = report.errors
    BY <1>1, AddSkipType, AddSkipFacts DEF Reasons
  <2>2. report' = FinishSelected(p, "findings") /\ "findings" \in Stages \ {"preflight"}
    BY <1>9 DEF Finish, Stages
  <2> HIDE DEF p
  <2>3. PreflightFailed(p)
    BY <1>1, <2>1, <2>2, FinishSelectedAdmits
  <2> QED
    BY <2>1, <2>3, SameErrorsAdmit
<1> QED
  BY <1>5, <1>6, <1>7, <1>8, <1>9 DEF ActiveStep

LEMMA FinalStepAdmits ==
    ASSUME IInv, FinalStep, PreflightFailed(report')
    PROVE  PreflightFailed(report)
<1>1. report \in Reports /\ Interrupt(report) \in Reports
  BY InterruptType DEF IInv, TypeOK
<1>2. CASE report'.errors = report.errors
  BY <1>2, SameErrorsAdmit
<1>3. CASE report'.errors = Interrupt(report).errors
  <2>1. PreflightFailed(Interrupt(report))
    BY <1>3, SameErrorsAdmit
  <2> QED
    BY <1>1, <2>1, InterruptAdmits
<1>4. CASE Finalize
  <2>1. Settle(report).errors = report.errors
    BY <1>1, SettleFacts
  <2> QED
    BY <1>1, <1>2, <1>3, <1>4, <2>1 DEF Finalize, Reports
<1>5. CASE Score
  BY <1>1, <1>2, <1>5 DEF Score, Reports
<1>6. CASE Recheck
  BY <1>1, <1>3, <1>6 DEF Recheck, Reports
<1> QED
  BY <1>4, <1>5, <1>6 DEF FinalStep

LEMMA RejectedStep ==
    ASSUME IInv, RejectedAtPreflight, [Next]_vars
    PROVE  RejectedAtPreflight'
<1> SUFFICES ASSUME PreflightFailed(report') PROVE target' = "conflict"
  BY DEF RejectedAtPreflight, PreflightFailed
<1>1. target' = target
  BY DEF Next, DnsStep, ActiveStep, FinalStep, Preflight, Start, Baseline, Dnssec, Axfr, Wildcard, Dangling,
     Addresses, NotApplicable, Unavailable, Concluded, CutDns, Gate, Run, Check, Ssh, Finish, Finalize,
     Score, Recheck, Cancel, Expire, environment, vars
<1>2. CASE target # "conflict"
  <2>1. CASE UNCHANGED report
    BY <1>1, <2>1 DEF RejectedAtPreflight
  <2> QED
    BY <1>1, <1>2, <2>1, DnsStepAdmits, ActiveStepAdmits, FinalStepAdmits
       DEF RejectedAtPreflight, Next, Cancel, Expire, vars
<1> QED
  BY <1>1, <1>2

LEMMA RejectedStart == Init => RejectedAtPreflight
<1> SUFFICES ASSUME Init PROVE ~PreflightFailed(report)
  BY DEF RejectedAtPreflight
<1>1. NotStarted \in Reports /\ NotStarted.errors = <<>>
  BY DEF NotStarted, Reports, Statuses, Reasons, NoDns, DnsObservations, Verdicts
<1>2. report.errors = <<>>
  BY <1>1, AddSkipFacts DEF Init
<1> QED
  BY <1>2 DEF PreflightFailed

LEMMA RejectedAtPreflightInvariant == Spec => []RejectedAtPreflight
BY RejectedStart, RejectedStep, Inductive, PTL DEF Spec

LEMMA RequestImplements ==
    ASSUME Cancel \/ Expire
    PROVE  Contract!Request
BY DEF Cancel, Expire, Contract!Request

\* Before the engine returns there is nothing to see; its return is the end of the scan.
LEMMA WorkImplements ==
    ASSUME IInv, IInv', Rejected', DnsStep \/ ActiveStep
    PROVE  Contract!End \/ UNCHANGED Contract!vars
<1>1. /\ UNCHANGED <<target, cancelled, expired>> /\ ~Returned
      /\ report.status = "not_started" /\ report.completed = FALSE
  <2>1. ~Returned
    BY DEF Returned, DnsStep, ActiveStep, Preflight, Start, Baseline, Dnssec, Axfr, Wildcard, Dangling,
       Addresses, NotApplicable, Gate, Run, Check, Ssh, Finish
  <2>2. UNCHANGED <<target, cancelled, expired>>
    BY DEF DnsStep, ActiveStep, Preflight, Start, Baseline, Dnssec, Axfr, Wildcard, Dangling,
       Addresses, NotApplicable, Unavailable, Concluded, CutDns, Gate, Run, Check, Ssh, Finish, environment
  <2> QED
    BY <2>1, <2>2 DEF IInv, Phased, TypeOK, Reports, Returned
<1>2. pc' \notin {"score", "recheck", "done"}
  BY DEF DnsStep, ActiveStep, Preflight, Start, Baseline, Dnssec, Axfr, Wildcard, Dangling,
     Addresses, NotApplicable, Unavailable, Concluded, CutDns, Gate, Run, Check, Ssh, Finish, Stop, Goto, Proceed
<1>3. report'.completed = FALSE
  BY <1>2 DEF IInv, Phased, TypeOK, Reports
<1>4. CASE pc' = "returned"
  <2>1. Returned' /\ report'.status \in {"completed", "partial", "interrupted", "failed"}
    BY <1>4 DEF Returned, IInv, Phased, TypeOK, Reports, Statuses
  <2>2. report'.status = "interrupted" => cancelled
    BY <1>1 DEF IInv, InterruptedWasCancelled
  <2>3. target = "conflict" => report'.status = "failed"
    BY <1>1, <2>1 DEF Rejected
  <2> QED
    BY <1>1, <1>3, <1>4, <2>1, <2>2, <2>3 DEF Contract!End, Contract!Outcomes, Returned
<1>5. CASE pc' # "returned"
  <2>1. ~Returned' /\ report'.status = "not_started"
    BY <1>2, <1>5 DEF Returned, IInv, Phased
  <2> QED
    BY <1>1, <1>2, <1>3, <1>5, <2>1 DEF Contract!vars, Returned
<1> QED
  BY <1>4, <1>5

\* What finalize makes of an outcome when it asks for a stop.
LEMMA InterruptAmends ==
    ASSUME IInv, Returned, target # "conflict"
    PROVE  /\ Interrupt(report).status \in Contract!Amended
           /\ cancelled => Interrupt(report).status = "interrupted"
           /\ expired => Interrupt(report).status # "completed"
<1> DEFINE q == Interrupt(report)
<1>1. /\ report \in Reports /\ report.status \in {"completed", "partial", "interrupted", "failed"}
      /\ report.status = "interrupted" => cancelled
  BY DEF IInv, TypeOK, Phased, Reports, Statuses, InterruptedWasCancelled
<1>2. ASSUME NEW kind \in {"timeout", "cancelled"}, q = Terminate(report, "findings", Active, kind),
             ~Terminated(report, kind)
      PROVE  q.status = TerminalStatus(report, kind)
  <2> DEFINE stopped == [report EXCEPT !.status = TerminalStatus(report, kind),
                           !.errors = Append(@, [stage |-> "findings", kind |-> kind,
                                                 recoverable |-> TerminalStatus(report, kind) # "failed"])]
  <2>1. q = AddSkip(stopped, Unfinished("findings", Active), kind)
    BY <1>2 DEF Terminate
  <2>2. stopped.status = TerminalStatus(report, kind)
    BY <1>1 DEF Reports
  <2> HIDE DEF q, stopped
  <2> QED
    BY <2>1, <2>2 DEF AddSkip
<1>3. CASE cancelled
  <2>1. q = Terminate(report, "findings", Active, "cancelled")
    BY <1>3 DEF Interrupt
  <2>2. q.status = "interrupted"
    BY <1>2, <2>1 DEF Terminate, Terminated, TerminalStatus
  <2> QED
    BY <1>3, <2>2 DEF Contract!Amended
<1>4. CASE ~cancelled /\ expired
  <2>1. q = Terminate(report, "findings", Active, "timeout")
    BY <1>4 DEF Interrupt
  <2>2. CASE report.status = "failed"
    BY <1>4, <2>1, <2>2 DEF Terminate, Terminated, Contract!Amended
  <2>3. CASE report.status # "failed"
    <3>1. q.status \in {"failed", "partial"}
      BY <1>2, <2>1, <2>3 DEF Terminated, TerminalStatus
    <3>2. report.status \in {"completed", "partial"}
      BY <1>1, <1>4, <2>3
    <3> QED
      BY <1>4, <3>1, <3>2 DEF Contract!Amended
  <2> QED
    BY <2>2, <2>3
<1>5. CASE ~cancelled /\ ~expired
  BY <1>5 DEF Interrupt, Contract!Amended
<1> QED
  BY <1>3, <1>4, <1>5

LEMMA FinalImplements ==
    ASSUME IInv, Rejected, RejectedAtPreflight, FinalStep
    PROVE  Contract!Amend \/ Contract!Commit \/ UNCHANGED Contract!vars
<1>1. /\ report \in Reports /\ UNCHANGED <<target, cancelled, expired>> /\ Returned
      /\ report.status \in {"completed", "partial", "interrupted", "failed"}
      /\ report.completed <=> pc = "done"
      /\ report.status = "interrupted" => cancelled
  BY DEF FinalStep, Finalize, Score, Recheck, environment, Returned, IInv, TypeOK, Phased, Reports, Statuses,
     InterruptedWasCancelled
<1>2. CASE Finalize
  <2>1. CASE Committed(report) /\ UNCHANGED <<report, pc, stage>>
    BY <1>1, <2>1 DEF Contract!vars
  <2>2. CASE ~Committed(report) /\ PreflightFailed(report) /\ report' = [report EXCEPT !.completed = TRUE]
    <3>1. target = "conflict" /\ report.status = "failed"
      BY <1>1, <2>2 DEF RejectedAtPreflight, Rejected
    <3>2. report'.status = report.status /\ report'.completed = TRUE /\ report.completed = FALSE
      BY <1>1, <2>2 DEF Reports, Committed
    <3>3. pc = "returned"
      BY <1>1, <1>2, <2>2 DEF Finalize, Committed
    <3> QED
      BY <1>1, <3>1, <3>2, <3>3 DEF Contract!Commit, Contract!Amended
  <2>3. CASE /\ ~Committed(report) /\ ~PreflightFailed(report) /\ pc' = "score"
             /\ report' = IF cancelled \/ expired THEN Interrupt(report) ELSE Settle(report)
    <3>1. target # "conflict" /\ pc = "returned"
      BY <1>1, <1>2, <2>3 DEF Finalize, Committed, IInv, Phased
    <3>2. report'.completed = report.completed /\ report.completed = FALSE
      <4>1. Interrupt(report).completed = report.completed
        BY <1>1, InterruptFacts
      <4>2. Settle(report).completed = report.completed
        BY <1>1, SettleFacts
      <4> QED
        BY <1>1, <2>3, <4>1, <4>2 DEF Reports, Committed
    <3>3. CASE cancelled \/ expired
      <4>1. report'.status \in Contract!Amended
        BY <1>1, <2>3, <3>1, <3>3, InterruptAmends
      <4> QED
        BY <1>1, <2>3, <3>1, <3>2, <4>1 DEF Contract!Amend
    <3>4. CASE ~cancelled /\ ~expired
      <4>1. report'.status = report.status
        <5>1. report.status = "completed" => Conclusive(report)
          BY DEF IInv, CompletedIsEarned
        <5> QED
          BY <1>1, <2>3, <3>4, <5>1, SettleFacts
      <4> QED
        BY <1>1, <2>3, <3>1, <3>2, <4>1 DEF Contract!vars
    <3> QED
      BY <3>3, <3>4
  <2> QED
    BY <1>2, <2>1, <2>2, <2>3 DEF Finalize, Goto
<1>3. CASE Score
  BY <1>1, <1>3 DEF Score, Goto, Reports, Contract!vars
<1>4. CASE Recheck
  <2> DEFINE q == Interrupt(report)
  <2>1. target # "conflict" /\ pc = "recheck"
    BY <1>4 DEF Recheck, IInv, Phased
  <2>2. q \in Reports /\ report' = [q EXCEPT !.completed = TRUE]
    BY <1>1, <1>4, InterruptType DEF Recheck
  <2>3. /\ q.status \in Contract!Amended
        /\ cancelled => q.status = "interrupted"
        /\ expired => q.status # "completed"
    BY <1>1, <2>1, InterruptAmends
  <2> HIDE DEF q
  <2>4. report'.status = q.status /\ report'.completed = TRUE /\ report.completed = FALSE
    BY <1>1, <2>1, <2>2 DEF Reports
  <2> QED
    BY <1>1, <2>1, <2>3, <2>4 DEF Contract!Commit
<1> QED
  BY <1>2, <1>3, <1>4 DEF FinalStep

\* Every step of the staged scan is a step its caller was promised, or none of his
\* business: it ends once, only a stop amends its outcome and never for the better, and a stop that
\* was requested before the commit shows in what is committed (run_scan_inner, finalize).
THEOREM ContractTheorem == Spec => Contract!Steps
<1>1. Init => Contract!Init
  <2> SUFFICES ASSUME Init PROVE Contract!Init
    OBVIOUS
  <2>1. report.status = "not_started" /\ report.completed = FALSE
    BY InitType, StartReport DEF Init
  <2> QED
    BY <2>1 DEF Init, Contract!Init
<1>2. /\ IInv /\ IInv' /\ Accounted /\ Accounted' /\ RejectedAtPreflight /\ [Next]_vars
      => [Contract!Next]_Contract!vars
  <2> SUFFICES ASSUME IInv, IInv', Accounted, Accounted', RejectedAtPreflight, [Next]_vars
               PROVE  Contract!Next \/ UNCHANGED Contract!vars
    OBVIOUS
  <2>1. CASE UNCHANGED vars
    BY <2>1 DEF vars, Contract!vars
  <2> QED
    BY <2>1, RequestImplements, WorkImplements, FinalImplements DEF Next, Contract!Next, Accounted
<1> QED
  BY <1>1, <1>2, Inductive, AccountedInvariant, RejectedAtPreflightInvariant, PTL DEF Spec, Contract!Steps

-----------------------------------------------------------------------------
(* The command around the scan                                             *)

Ended == {"completed", "partial", "interrupted", "failed"}   \* the outcomes of a scan

-----------------------------------------------------------------------------
(* What the request determines. *)

LEMMA RequestFacts ==
    ASSUME CommandTypeOK
    PROVE  /\ request \in CommandLines
           /\ Tasks \in Seq(Supplied) /\ Asked \subseteq Supplied
           /\ Joined \subseteq Passive /\ Files \in Nat
           /\ NotRun \subseteq Listable /\ NotRun \cap Joined = {}
           /\ NotRun \cap Asked = {} /\ NotRun \cap Routing = {}
<1>1. request \in CommandLines
  BY RequestsAssumption DEF CommandTypeOK
<1>2. request.inputs \in Seq({"subdomain_dns", "dkim"}) /\ request.bundle \in BOOLEAN
  BY <1>1 DEF CommandLines
<1>3. request.inputs \in Seq(Supplied)
  BY <1>2 DEF Supplied
<1>4. Tasks \in Seq(Supplied)
  <2>1. <<"bundle">> \in Seq(Supplied) /\ <<>> \in Seq(Supplied)
    BY DEF Supplied
  <2> QED
    BY <1>3, <2>1 DEF Tasks
<1>5. Asked \subseteq Supplied
  BY <1>4 DEF Asked
<1>6. Joined \subseteq Passive
  BY DEF Joined
<1>7. Files \in Nat
  BY <1>1 DEF Files, CommandLines
<1>8. NotRun \subseteq Listable /\ NotRun \cap Joined = {}
  BY <1>6 DEF NotRun, Listable, Sources, Supplied, Routing, Passive
<1>9. NotRun \cap Asked = {} /\ NotRun \cap Routing = {}
  BY <1>5 DEF NotRun, Supplied, Routing, Passive
<1> QED
  BY <1>1, <1>4, <1>5, <1>6, <1>7, <1>8, <1>9

LEMMA RequestKept ==
    ASSUME UNCHANGED <<request, target>>
    PROVE  /\ Tasks' = Tasks /\ Asked' = Asked /\ Joined' = Joined
           /\ NotRun' = NotRun /\ Files' = Files
           /\ report'.dns = report.dns => Eligible' = Eligible /\ Applicable' = Applicable
<1>1. Tasks' = Tasks /\ Joined' = Joined /\ Files' = Files
  BY DEF Tasks, Joined, Files
<1>2. Asked' = Asked
  BY <1>1 DEF Asked
<1>3. NotRun' = NotRun
  BY <1>1, <1>2 DEF NotRun
<1>4. report'.dns = report.dns => Eligible' = Eligible
  BY DEF Eligible
<1> QED
  BY <1>1, <1>2, <1>3, <1>4 DEF Applicable

\* Lists only grow, and only by what is named.
LEMMA ListFacts ==
    ASSUME NEW l \in [Listable -> Nat], NEW checks
    PROVE  /\ ListOnce(l, checks) \in [Listable -> Nat]
           /\ ListAgain(l, checks) \in [Listable -> Nat]
           /\ \A c \in Listable :
                /\ ListOnce(l, checks)[c] = IF c \in checks /\ l[c] = 0 THEN 1 ELSE l[c]
                /\ ListAgain(l, checks)[c] = IF c \in checks THEN l[c] + 1 ELSE l[c]
BY DEF ListOnce, ListAgain
-----------------------------------------------------------------------------
(* Types. *)

LEMMA StatusType ==
    ASSUME TypeOK, UNCHANGED core, NEW status \in Statuses, SetStatus(status)
    PROVE  /\ TypeOK'
           /\ report'.status = status /\ report'.dns = report.dns /\ report'.found = report.found
           /\ report'.errors = report.errors /\ report'.skipped = report.skipped
           /\ report'.score = report.score /\ report'.completed = report.completed
BY DEF core, SetStatus, TypeOK, Reports

LEMMA SameType == TypeOK /\ UNCHANGED vars => TypeOK'
BY DEF vars, TypeOK

LEMMA ScoreAllType == TypeOK /\ ScoreAll => TypeOK'
<1> SUFFICES ASSUME TypeOK, ScoreAll PROVE TypeOK'
  OBVIOUS
<1>1. report' \in Reports
  BY DEF ScoreAll, TypeOK, Reports
<1> QED
  BY <1>1 DEF ScoreAll, Goto, TypeOK, environment, Locations

Collections == [left : Seq(Supplied), awaiting : BOOLEAN,
                got : SUBSET Supplied, failed : SUBSET Supplied]

LEMMA CloseType ==
    ASSUME collection \in Collections, Close
    PROVE  collection' \in Collections /\ step' \in Steps
<1>1. <<>> \in Seq(Supplied)
  OBVIOUS
<1>2. Idle = [left |-> <<>>, awaiting |-> FALSE, got |-> {}, failed |-> {}]
  BY DEF Idle
<1>3. collection' = [left |-> <<>>, awaiting |-> FALSE, got |-> collection.got, failed |-> {}]
  BY <1>2 DEF Close
<1>4. collection.got \in SUBSET Supplied
  BY DEF Collections
<1>5. collection' \in Collections
  BY <1>1, <1>3, <1>4 DEF Collections
<1> QED
  BY <1>5 DEF Close, Steps

LEMMA CommandInitType == CommandInit => CommandTypeOK
<1> SUFFICES ASSUME CommandInit PROVE CommandTypeOK
  OBVIOUS
<1>1. TypeOK
  BY InitType DEF CommandInit
<1>2. Idle \in Collections
  BY DEF Idle, Collections
<1>3. Unanswered \in [Passive -> {"none", "full", "incomplete", "error"}]
  BY DEF Unanswered
<1> QED
  BY <1>1, <1>2, <1>3 DEF CommandInit, CommandTypeOK, Collections, Steps, ExitCodes

\* What a step of the command leaves alone keeps its type.
LEMMA DropType ==
    ASSUME CommandTypeOK, UNCHANGED core, Drop, request' = request,
           UNCHANGED <<answers, result>>
    PROVE  CommandTypeOK'
<1>1. MarkStopped(report.status) \in Statuses
  BY DEF MarkStopped, CommandTypeOK, TypeOK, Reports, Statuses
<1>2. TypeOK'
  BY <1>1, StatusType DEF Drop, CommandTypeOK
<1>3. listed' \in [Listable -> Nat]
  BY ListFacts DEF Drop, CommandTypeOK
<1>4. /\ collection' \in Collections
      /\ step' \in Steps
  BY CloseType DEF Drop, CommandTypeOK, Collections
<1> QED
  BY <1>2, <1>3, <1>4 DEF Drop, CommandTypeOK, Collections

LEMMA LaunchType == CommandTypeOK /\ Launch => CommandTypeOK'
<1> SUFFICES ASSUME CommandTypeOK, Launch PROVE CommandTypeOK'
  OBVIOUS
<1>1. CASE Drop
  BY <1>1, DropType DEF Launch
<1>2. CASE ~Drop
  <2>1. TypeOK'
    BY <1>2, SameType DEF Launch, CommandTypeOK, core, vars
  <2>2. /\ collection' \in Collections
        /\ step' \in Steps
    <3>1. Tasks \in Seq(Supplied) /\ request.bundle \in BOOLEAN
      BY RequestFacts DEF CommandLines
    <3> QED
      BY <1>1, <1>2, <3>1 DEF Launch, CommandTypeOK, Collections, Steps
  <2> QED
    BY <1>2, <2>1, <2>2 DEF Launch, CommandTypeOK, Collections
<1> QED
  BY <1>1, <1>2 DEF Launch

LEMMA DeliverType ==
    ASSUME CommandTypeOK, UNCHANGED core, NEW whole \in BOOLEAN, Deliver(whole),
           request' = request, UNCHANGED <<answers, result>>
    PROVE  CommandTypeOK'
<1>1. MarkPartial(report.status) \in Statuses /\ report.status \in Statuses
  BY DEF MarkPartial, CommandTypeOK, TypeOK, Reports, Statuses
<1>2. TypeOK'
  BY <1>1, StatusType DEF Deliver, CommandTypeOK
<1>3. /\ collection' \in Collections
      /\ step' \in Steps
  BY CloseType DEF Deliver, CommandTypeOK, Collections
<1>4. /\ intelligence' \in [present : BOOLEAN, complete : BOOLEAN, evidence : SUBSET Sources]
      /\ full' \subseteq Sources /\ listed' = listed
  BY RequestFacts DEF Deliver, CommandTypeOK, Sources
<1> QED
  BY <1>2, <1>3, <1>4 DEF CommandTypeOK, Collections

LEMMA ObserveType ==
    CommandTypeOK /\ Observe /\ (collection.awaiting => collection.left # <<>>) => CommandTypeOK'
<1> SUFFICES ASSUME CommandTypeOK, Observe, collection.awaiting => collection.left # <<>>
             PROVE  CommandTypeOK'
  OBVIOUS
<1>1. CASE Drop
  BY <1>1, DropType DEF Observe
<1>2. CASE \E whole \in BOOLEAN : Deliver(whole)
  BY <1>2, DeliverType DEF Observe
<1>3. CASE collection' = [collection EXCEPT !.awaiting = TRUE]
           /\ UNCHANGED <<report, step, intelligence, listed, full>>
  <2>1. TypeOK'
    BY <1>3, SameType DEF Observe, CommandTypeOK, core, vars
  <2>2. collection' \in Collections
    BY <1>3 DEF CommandTypeOK, Collections
  <2> QED
    BY <1>3, <2>1, <2>2 DEF Observe, CommandTypeOK, Collections
<1>4. ASSUME collection.left # <<>>,
             NEW succeeds \in BOOLEAN, Observed(Head(collection.left), succeeds)
      PROVE  CommandTypeOK'
  <2>1. TypeOK'
    BY <1>4, SameType DEF Observe, Observed, CommandTypeOK, core, vars
  <2>2. Head(collection.left) \in Supplied /\ Tail(collection.left) \in Seq(Supplied)
    BY <1>4 DEF CommandTypeOK
  <2>3. collection' \in Collections
    BY <1>4, <2>2 DEF Observed, CommandTypeOK, Collections
  <2> QED
    BY <1>4, <2>1, <2>3 DEF Observe, Observed, CommandTypeOK, Collections
<1> QED
  BY <1>1, <1>2, <1>3, <1>4 DEF Observe

LEMMA LookType ==
    ASSUME CommandTypeOK, NEW here, NEW source \in Routing, NEW next \in Steps,
           Look(here, source, next)
    PROVE  CommandTypeOK'
<1>1. UNCHANGED core /\ source \in Sources
  BY DEF Look, Sources
<1>2. CASE /\ listed' = ListOnce(listed, {source})
           /\ UNCHANGED <<report, intelligence, full>>
  <2>1. TypeOK'
    BY <1>1, <1>2, SameType DEF CommandTypeOK, core, vars
  <2>2. listed' \in [Listable -> Nat]
    BY <1>2, ListFacts DEF CommandTypeOK
  <2> QED
    BY <1>2, <2>1, <2>2 DEF Look, CommandTypeOK
<1>3. ASSUME NEW observed \in BOOLEAN, NEW flawless \in BOOLEAN,
             Finished(source, observed, flawless)
      PROVE  CommandTypeOK'
  <2> DEFINE whole == flawless /\ ~cancelled /\ ~expired
             status == IF cancelled /\ report.status # "failed" THEN "interrupted"
                       ELSE IF whole THEN report.status ELSE MarkPartial(report.status)
  <2>1. status \in Statuses /\ SetStatus(status)
    BY <1>3 DEF Finished, MarkPartial, CommandTypeOK, TypeOK, Reports, Statuses
  <2>2. TypeOK'
    BY <1>1, <2>1, StatusType DEF CommandTypeOK
  <2>3. listed' \in [Listable -> Nat]
    BY <1>3, ListFacts DEF Finished, CommandTypeOK
  <2>4. /\ intelligence' \in [present : BOOLEAN, complete : BOOLEAN, evidence : SUBSET Sources]
        /\ full' \subseteq Sources
    <3>1. whole \in BOOLEAN /\ intelligence.complete \in BOOLEAN
      BY DEF CommandTypeOK, TypeOK
    <3> QED
      BY <1>1, <1>3, <3>1 DEF Finished, CommandTypeOK
  <2> QED
    BY <2>2, <2>3, <2>4 DEF Look, CommandTypeOK
<1> QED
  BY <1>2, <1>3 DEF Look

LEMMA ConcludeType == CommandTypeOK /\ Conclude => CommandTypeOK'
<1> SUFFICES ASSUME CommandTypeOK, Conclude PROVE CommandTypeOK'
  OBVIOUS
<1> DEFINE errors == {s \in Joined : answers[s] = "error"}
           whole == \A s \in Joined : answers[s] = "full"
           status == Overruled(IF whole THEN report.status ELSE MarkPartial(report.status))
<1>1. status \in Statuses /\ SetStatus(status)
  BY DEF Conclude, Overruled, MarkPartial, CommandTypeOK, TypeOK, Reports, Statuses
<1>2. TypeOK'
  BY <1>1, StatusType DEF Conclude, CommandTypeOK
<1>3. listed' \in [Listable -> Nat]
  <2>1. ListOnce(listed, errors) \in [Listable -> Nat]
    BY ListFacts DEF CommandTypeOK
  <2> QED
    BY <2>1, ListFacts DEF Conclude
<1>4. Joined \subseteq Sources
  BY RequestFacts DEF Sources
<1>5. intelligence' \in [present : BOOLEAN, complete : BOOLEAN, evidence : SUBSET Sources]
  <2>1. whole \in BOOLEAN /\ intelligence.complete \in BOOLEAN
    BY DEF CommandTypeOK
  <2> QED
    BY <1>4, <2>1 DEF Conclude, CommandTypeOK
<1>6. full' \subseteq Sources
  BY <1>4 DEF Conclude, CommandTypeOK
<1>7. answers' \in [Passive -> {"none", "full", "incomplete", "error"}]
  BY DEF Conclude, Unanswered
<1> QED
  BY <1>2, <1>3, <1>5, <1>6, <1>7 DEF Conclude, CommandTypeOK, Steps

\* The steps that leave the report and its intelligence alone.
LEMMA PlainType ==
    ASSUME CommandTypeOK, Validate \/ Refuse \/ Answer \/ Persist \/ Write
    PROVE  CommandTypeOK'
<1>1. TypeOK'
  BY SameType DEF Validate, Refuse, Answer, Persist, Write, CommandTypeOK
<1>2. CASE Validate \/ Refuse \/ Persist \/ Write
  <2> DEFINE Results == [high : BOOLEAN, stored : BOOLEAN, written : Nat, exit : ExitCodes]
  <2>1. result \in Results /\ ExitCode \in ExitCodes
    BY DEF CommandTypeOK, ExitCode, ExitCodes
  <2>2. \A code \in ExitCodes : Exit(code) => result' \in Results /\ step' \in Steps
    BY <2>1 DEF Exit, Steps
  <2>3. /\ [result EXCEPT !.stored = TRUE] \in Results
        /\ [result EXCEPT !.written = @ + 1] \in Results
    <3>1. result.written + 1 \in Nat
      BY <2>1
    <3> QED
      BY <2>1, <3>1
  <2> HIDE DEF Results
  <2>4. result' \in Results /\ step' \in Steps
    <3>1. step \in Steps /\ {"scan", "write"} \subseteq Steps
          /\ {"invalid", "failed"} \subseteq ExitCodes
      BY DEF CommandTypeOK, Steps, ExitCodes
    <3> QED
      BY <1>2, <2>1, <2>2, <2>3, <3>1 DEF Validate, Refuse, Persist, Write
  <2> QED
    BY <1>1, <1>2, <2>4 DEF Results, Validate, Refuse, Persist, Write, CommandTypeOK
<1>3. CASE Answer
  <2>1. answers' \in [Passive -> {"none", "full", "incomplete", "error"}]
    BY <1>3 DEF Answer, Answers, CommandTypeOK
  <2> QED
    BY <1>1, <1>3, <2>1 DEF Answer, CommandTypeOK
<1> QED
  BY <1>2, <1>3

LEMMA CoreType ==
    ASSUME CommandTypeOK, CoreScan \/ FinalizeReport \/ Signal
    PROVE  CommandTypeOK'
<1>1. TypeOK'
  BY NextType, ScoreAllType DEF CoreScan, FinalizeReport, Signal, CommandTypeOK, Next, FinalStep
<1>2. UNCHANGED <<request, step, collection, answers, intelligence, listed, full>>
  BY DEF CoreScan, FinalizeReport, Signal, command
<1>3. result' \in [high : BOOLEAN, stored : BOOLEAN, written : Nat, exit : ExitCodes]
  BY DEF CoreScan, FinalizeReport, Signal, ScoreAll, command, CommandTypeOK
<1> QED
  BY <1>1, <1>2, <1>3 DEF CommandTypeOK

LEMMA CommandNextType ==
    CommandTypeOK /\ Placed /\ [CommandNext]_commandVars => CommandTypeOK'
<1> SUFFICES ASSUME CommandTypeOK, Placed, [CommandNext]_commandVars PROVE CommandTypeOK'
  OBVIOUS
<1>1. CASE UNCHANGED commandVars
  BY <1>1, SameType DEF commandVars, command, CommandTypeOK
<1>2. CASE Registration \/ Routes
  BY <1>2, LookType DEF Registration, Routes, Routing, Steps
<1> QED
  BY <1>1, <1>2, LaunchType, ObserveType, ConcludeType, PlainType, CoreType
     DEF Placed, CommandNext, Work

-----------------------------------------------------------------------------
(* The core's invariant survives the command: intelligence only makes a report look *)
(* worse, and finalization only sees a score less complete.                         *)

LEMMA StatusSafe ==
    ASSUME IInv, UNCHANGED core, pc = "returned", NEW status \in Ended, SetStatus(status),
           status = "completed" => report.status = "completed",
           status = "failed" => report.status = "failed",
           status = "interrupted" => report.status = "interrupted" \/ cancelled
    PROVE  IInv'
<1>1. /\ TypeOK'
      /\ report'.status = status /\ report'.dns = report.dns /\ report'.found = report.found
      /\ report'.errors = report.errors /\ report'.skipped = report.skipped
      /\ report'.score = report.score /\ report'.completed = report.completed
  BY StatusType DEF IInv, Ended, Statuses
<1>2. /\ Returned /\ Returned' /\ status # "not_started" /\ report.status # "not_started"
  BY DEF core, Returned, Ended, IInv, Phased
<1>3. Phased'
  BY <1>1, <1>2 DEF core, IInv, Phased, Returned, PreflightFailed, DnsLocations
<1>4. Worked'
  BY <1>1, <1>2 DEF core, IInv, Worked, ActiveLocations
<1>5. SkipsInOrder'
  BY <1>1, <1>2 DEF core, IInv, SkipsInOrder, DnsLocations, ActiveLocations
<1>6. CompletedIsEarned'
  <2>1. Scheduled' = Scheduled
    BY DEF core, Scheduled
  <2> QED
    BY <1>1, <2>1 DEF core, IInv, CompletedIsEarned, Conclusive
<1>7. CutIsReported'
  BY <1>1, <1>2 DEF core, IInv, CutIsReported, Ended
<1>8. FailedIsEmpty'
  BY <1>1 DEF IInv, FailedIsEmpty, HasObservations
<1>9. CompleteScoreIsEarned'
  BY <1>1 DEF core, IInv, CompleteScoreIsEarned
<1>10. InterruptedWasCancelled'
  BY <1>1 DEF core, IInv, InterruptedWasCancelled
<1> QED
  BY <1>1, <1>3, <1>4, <1>5, <1>6, <1>7, <1>8, <1>9, <1>10 DEF IInv

LEMMA ScoreAllSafe ==
    ASSUME IInv, ScoreAll
    PROVE  IInv'
<1>1. TypeOK'
  BY ScoreAllType DEF IInv
<1>2. CASE ~ScoreIncomplete \/ Incomplete(report)
  <2>1. Score
    BY <1>2 DEF ScoreAll, Score, ScoreIncomplete
  <2> QED
    BY <1>1, <2>1, ScoreSafe
<1>3. CASE ScoreIncomplete
  <2>1. /\ pc = "score" /\ report \in Reports /\ UNCHANGED <<environment, authority, work>>
        /\ report' = [report EXCEPT !.score = "incomplete"] /\ pc' = "recheck"
    BY <1>3 DEF ScoreAll, Goto, IInv, TypeOK
  <2>2. /\ report'.dns = report.dns /\ report'.found = report.found
        /\ report'.completed = report.completed /\ report'.skipped = report.skipped
        /\ report'.status = report.status /\ report'.errors = report.errors
        /\ report'.score = "incomplete"
    BY <2>1 DEF Reports
  <2>3. /\ Returned /\ ~report.completed /\ target # "conflict"
        /\ report.status \in {"completed", "partial", "interrupted", "failed"}
    BY <2>1 DEF Returned, IInv, Phased, Reports, Statuses
  <2>4. CompleteScoreIsEarned'
    BY <2>2 DEF CompleteScoreIsEarned
  <2> QED
    BY <1>1, <2>1, <2>2, <2>3, <2>4, FinalSafe
<1> QED
  BY <1>2, <1>3

\* A step of the command is one of the core, a score, an edit of the status that does
\* not make it look better, or none at all.
LEMMA CommandStepKinds ==
    ASSUME CommandTypeOK, IInv, Placed, [CommandNext]_commandVars
    PROVE  \/ [Next]_vars \/ ScoreAll
           \/ /\ UNCHANGED core /\ pc = "returned" /\ step \in {"scan", "supplied", "registration", "bgp", "passive"}
              /\ \E status \in Ended :
                    /\ SetStatus(status)
                    /\ status = "completed" => report.status = "completed"
                    /\ status = "failed" => report.status = "failed"
                    /\ status = "interrupted" => report.status = "interrupted" \/ cancelled
                    /\ report.status = "interrupted" => status = "interrupted"
<1> DEFINE Edit == /\ UNCHANGED core /\ pc = "returned"
                   /\ step \in {"scan", "supplied", "registration", "bgp", "passive"}
                   /\ \E status \in Ended :
                         /\ SetStatus(status)
                         /\ status = "completed" => report.status = "completed"
                         /\ status = "failed" => report.status = "failed"
                         /\ status = "interrupted" => report.status = "interrupted" \/ cancelled
                         /\ report.status = "interrupted" => status = "interrupted"
<1>1. CASE UNCHANGED commandVars
  BY <1>1 DEF commandVars
<1>2. CASE Validate \/ Refuse \/ Answer \/ Persist \/ Write
  BY <1>2 DEF Validate, Refuse, Answer, Persist, Write
<1>3. CASE CoreScan \/ FinalizeReport \/ Signal
  BY <1>3 DEF CoreScan, FinalizeReport, Signal, Next, FinalStep
<1>4. ASSUME pc = "returned"
      PROVE  /\ report.status \in Ended
             /\ report.status = "interrupted" => cancelled
  BY <1>4 DEF IInv, TypeOK, Phased, Returned, Reports, Statuses, Ended, InterruptedWasCancelled
<1>5. CASE Launch
  <2>1. pc = "returned" /\ UNCHANGED core /\ step = "scan"
    BY <1>5 DEF Launch
  <2>2. CASE Drop
    BY <1>4, <2>1, <2>2 DEF Drop, MarkStopped, Ended
  <2>3. CASE UNCHANGED report
    BY <2>1, <2>3 DEF core, vars
  <2> QED
    BY <1>5, <2>2, <2>3 DEF Launch
<1>6. CASE Observe
  <2>1. pc = "returned" /\ UNCHANGED core /\ step = "supplied"
    BY <1>6 DEF Observe, Placed
  <2>2. CASE Drop
    BY <1>4, <2>1, <2>2 DEF Drop, MarkStopped, Ended
  <2>3. CASE \E whole \in BOOLEAN : Deliver(whole)
    BY <1>4, <2>1, <2>3 DEF Deliver, MarkPartial, Ended
  <2>4. CASE UNCHANGED report
    BY <2>1, <2>4 DEF core, vars
  <2> QED
    BY <1>6, <2>2, <2>3, <2>4 DEF Observe, Observed
<1>7. CASE Registration \/ Routes
  <2>1. pc = "returned" /\ UNCHANGED core /\ step \in {"registration", "bgp"}
    BY <1>7 DEF Registration, Routes, Look, Placed
  <2>2. CASE UNCHANGED report
    BY <2>1, <2>2 DEF core, vars
  <2>3. ASSUME NEW source, NEW observed, NEW flawless, Finished(source, observed, flawless)
        PROVE  Edit
    BY <1>4, <2>1, <2>3 DEF Finished, MarkPartial, Ended
  <2> QED
    BY <1>7, <2>2, <2>3 DEF Registration, Routes, Look
<1>8. CASE Conclude
  <2>1. pc = "returned" /\ UNCHANGED core /\ step = "passive"
    BY <1>8 DEF Conclude, Placed
  <2> QED
    BY <1>4, <1>8, <2>1 DEF Conclude, Overruled, MarkPartial, Ended
<1> QED
  BY <1>1, <1>2, <1>3, <1>5, <1>6, <1>7, <1>8 DEF CommandNext, Work

LEMMA CommandCoreSafe ==
    ASSUME CommandTypeOK, IInv, Placed, [CommandNext]_commandVars
    PROVE  IInv'
BY CommandStepKinds, NextSafe, ScoreAllSafe, StatusSafe

-----------------------------------------------------------------------------
(* The command's own invariant. *)

LEMMA CommandInitSafe == CommandInit => CommandIInv
<1> SUFFICES ASSUME CommandInit PROVE CommandIInv
  OBVIOUS
<1>1. CommandTypeOK /\ IInv
  BY CommandInitType, InitSafe DEF CommandInit
<1>2. pc = "start" /\ ~report.completed
  <2>1. pc = "start"
    BY DEF CommandInit, Init
  <2> QED
    BY <1>1, <2>1 DEF IInv, Phased
<1>3. /\ step = "validate" /\ collection = Idle /\ answers = Unanswered
      /\ intelligence.present = FALSE /\ listed = [c \in Listable |-> 0] /\ full = {}
      /\ result.high = FALSE /\ result.stored = FALSE /\ result.written = 0
      /\ result.exit = "running"
  BY DEF CommandInit
<1>4. Placed
  BY <1>2, <1>3 DEF Placed, Idle
<1>5. Settled /\ CompleteSoFar
  BY <1>2, <1>3 DEF Settled, CompleteSoFar, TurnOver, Sources, Supplied, Routing, Passive
<1>6. ListedInTurn /\ ListedOnce
  BY <1>1, <1>3, RequestFacts DEF ListedInTurn, ListedOnce
<1>7. CompleteIntelligenceIsWhole /\ ExitIsTruthful
  BY <1>3 DEF CompleteIntelligenceIsWhole, ExitIsTruthful
<1> QED
  BY <1>1, <1>4, <1>5, <1>6, <1>7 DEF CommandIInv

\* What is known of a source stays known while the report does not look better.
LEMMA KnownKept ==
    ASSUME NEW s \in Sources, Known(s), UNCHANGED <<request, target>>, report'.dns = report.dns,
           report'.status = "completed" => report.status = "completed",
           full \subseteq full', \A c \in Listable : listed[c] # 0 => listed'[c] # 0,
           Incompletely => Incompletely'
    PROVE  Known(s)'
<1>1. Applicable' = Applicable /\ Asked' = Asked
  BY RequestKept
<1> QED
  BY <1>1 DEF Known, Listable

\* An exit ends the command and changes nothing else.
LEMMA ExitSafe ==
    ASSUME CommandIInv, CommandTypeOK', IInv', NEW code \in ExitCodes, Exit(code),
           UNCHANGED <<vars, request, collection, answers, intelligence, listed, full>>,
           step # "ended", ~report.completed => step \notin {"finalize", "write"},
           step = "passive" => answers = Unanswered,
           code \in {"success", "high"} =>
               /\ step = "write" /\ report.completed /\ report.status = "completed"
               /\ result.written = Files
               /\ (code = "high" <=> result.high),
           code = "invalid" => step # "write"
    PROVE  CommandIInv'
<1>1. /\ step' = "ended" /\ result'.exit = code /\ result'.stored = result.stored
      /\ result'.written = result.written /\ result'.high = result.high
  BY DEF Exit, CommandIInv, CommandTypeOK
<1>2. UNCHANGED <<request, target>> /\ report' = report
  BY DEF vars
<1>3. Placed'
  BY <1>1, <1>2 DEF CommandIInv, Placed
<1>4. Settled'
  <2> SUFFICES ASSUME request.selected, NEW s \in Sources, TurnOver(s)' PROVE Known(s)'
    BY <1>2 DEF Settled
  <2>1. TurnOver(s)
    BY <1>1, <1>2 DEF TurnOver, Sources, Supplied, Routing, Passive
  <2> QED
    BY <1>2, <2>1, KnownKept DEF CommandIInv, Settled, Incompletely
<1>5. CompleteSoFar' /\ ListedInTurn' /\ CompleteIntelligenceIsWhole' /\ ListedOnce'
  BY <1>1 DEF CommandIInv, CompleteSoFar, ListedInTurn, CompleteIntelligenceIsWhole, ListedOnce
<1>6. ExitIsTruthful'
  <2>1. Files' = Files
    BY <1>2, RequestKept
  <2>2. CASE code \in {"success", "high"}
    <3>1. /\ step = "write" /\ report.completed /\ report.status = "completed"
          /\ result.written = Files /\ (code = "high" <=> result.high)
      BY <2>2
    <3>2. result.stored <=> request.persist = "database"
      BY <3>1 DEF CommandIInv, Placed
    <3>3. result'.stored <=> request'.persist = "database"
      BY <1>1, <1>2, <3>2
    <3>4. result'.exit = "high" <=> result'.high
      BY <1>1, <3>1
    <3>5. report'.completed /\ report'.status = "completed" /\ result'.written = Files'
      BY <1>1, <1>2, <2>1, <3>1
    <3> QED
      BY <1>1, <2>2, <3>3, <3>4, <3>5 DEF ExitIsTruthful
  <2>3. CASE code = "invalid"
    <3>1. ~result.stored /\ result.written = 0
      BY <2>3 DEF CommandIInv, Placed
    <3> QED
      BY <1>1, <2>3, <3>1 DEF ExitIsTruthful
  <2>4. CASE code \notin {"success", "high", "invalid"}
    BY <1>1, <2>4 DEF ExitIsTruthful
  <2> QED
    BY <2>2, <2>3, <2>4
<1> QED
  BY <1>3, <1>4, <1>5, <1>6 DEF CommandIInv

\* The steps that do not touch the command's own state: the core's, and the stops.
LEMMA CoreScanPlace ==
    ASSUME IInv, DnsStep \/ ActiveStep
    PROVE  /\ pc' \notin {"score", "recheck", "done"} /\ target' = target
           /\ UNCHANGED <<cancelled, expired>>
<1>1. CASE DnsStep
  BY <1>1 DEF DnsStep, Preflight, Start, Baseline, Dnssec, Axfr, Wildcard, Dangling, Addresses,
     CutDns, Stop, NotApplicable, Unavailable, Concluded, Proceed, Goto, environment
<1>2. CASE ActiveStep
  BY <1>2 DEF ActiveStep, Gate, Run, Check, Ssh, Finish, Stop, Proceed, Goto, environment
<1> QED
  BY <1>1, <1>2

LEMMA CoreScanSafe ==
    ASSUME CommandIInv, CommandTypeOK', IInv', CoreScan
    PROVE  CommandIInv'
<1>1. /\ step = "scan" /\ UNCHANGED <<request, step, collection, answers, intelligence, listed,
                                     full, result>>
      /\ pc' \notin {"score", "recheck", "done"} /\ target' = target
      /\ UNCHANGED <<cancelled, expired>>
  BY CoreScanPlace DEF CoreScan, CommandIInv, command
<1>2. ~report'.completed
  BY <1>1 DEF IInv, Phased
<1>3. Placed'
  BY <1>1 DEF CommandIInv, Placed
<1>4. Settled' /\ CompleteSoFar'
  BY <1>1, <1>2 DEF Settled, CompleteSoFar, TurnOver, Sources, Supplied, Routing, Passive
<1>5. ListedInTurn' /\ ListedOnce'
  BY <1>1, RequestKept DEF CommandIInv, ListedInTurn, ListedOnce
<1>6. CompleteIntelligenceIsWhole'
  BY <1>1 DEF CompleteIntelligenceIsWhole
<1>7. ExitIsTruthful'
  BY <1>1 DEF CommandIInv, Placed, ExitIsTruthful
<1> QED
  BY <1>3, <1>4, <1>5, <1>6, <1>7 DEF CommandIInv

\* A step that leaves the command and the report alone.
LEMMA StillSafe ==
    ASSUME CommandIInv, CommandTypeOK', IInv', UNCHANGED command,
           UNCHANGED <<target, pc, report>>, cancelled => cancelled', expired => expired'
    PROVE  CommandIInv'
<1>1. UNCHANGED <<request, step, collection, answers, intelligence, listed, full, result>>
  BY DEF command
<1>2. /\ Asked' = Asked /\ Eligible' = Eligible /\ Applicable' = Applicable /\ NotRun' = NotRun
      /\ Files' = Files /\ Tasks' = Tasks
  BY <1>1, RequestKept
<1>3. Placed'
  BY <1>1 DEF CommandIInv, Placed, Returned, Unanswered
<1>4. Settled'
  BY <1>1, <1>2 DEF CommandIInv, Settled, TurnOver, Known, Incompletely
<1>5. CompleteSoFar'
  BY <1>1, <1>2 DEF CommandIInv, CompleteSoFar, Incompletely
<1>6. ListedInTurn' /\ ListedOnce' /\ CompleteIntelligenceIsWhole'
  BY <1>1, <1>2 DEF CommandIInv, ListedInTurn, ListedOnce, CompleteIntelligenceIsWhole
<1>7. ExitIsTruthful'
  BY <1>1, <1>2 DEF CommandIInv, ExitIsTruthful
<1> QED
  BY <1>3, <1>4, <1>5, <1>6, <1>7 DEF CommandIInv

LEMMA SignalSafe ==
    ASSUME CommandIInv, CommandTypeOK', IInv', Signal
    PROVE  CommandIInv'
BY StillSafe DEF Signal, Cancel, Expire

\* Finalization changes the report's status only for the worse.
LEMMA FinalizeFacts ==
    ASSUME IInv, pc # "done", Finalize \/ Recheck \/ ScoreAll
    PROVE  /\ pc' \in {"score", "recheck", "done"} /\ report'.dns = report.dns
           /\ UNCHANGED <<target, cancelled, expired>>
           /\ report'.status = "completed" => report.status = "completed"
           /\ report.status = "interrupted" => report'.status = "interrupted"
<1>1. /\ report \in Reports /\ (pc \in {"returned", "score", "recheck"} => report.status \in Ended)
      /\ report.completed => pc = "done"
      /\ report.status = "interrupted" => cancelled
  BY DEF IInv, TypeOK, Phased, Returned, Reports, Statuses, Ended, InterruptedWasCancelled
<1>2. CASE Finalize
  <2>1. pc = "returned" /\ ~Committed(report) /\ UNCHANGED <<target, cancelled, expired>>
        /\ pc' \in {"score", "done"}
    BY <1>1, <1>2 DEF Finalize, Committed, Goto, environment
  <2>2. \/ report' = [report EXCEPT !.completed = TRUE]
        \/ report' = Interrupt(report)
        \/ ~cancelled /\ report' = Settle(report)
    BY <1>2, <2>1 DEF Finalize
  <2>3. CASE report' = Interrupt(report)
    BY <1>1, <2>1, <2>3, InterruptFacts DEF Ended
  <2>4. CASE ~cancelled /\ report' = Settle(report)
    BY <1>1, <2>1, <2>4, SettleFacts DEF Ended
  <2>5. CASE report' = [report EXCEPT !.completed = TRUE]
    BY <1>1, <2>1, <2>5 DEF Reports
  <2> QED
    BY <2>2, <2>3, <2>4, <2>5
<1>3. CASE ScoreAll
  BY <1>1, <1>3 DEF ScoreAll, Goto, environment, Reports
<1>4. CASE Recheck
  <2> DEFINE q == Interrupt(report)
  <2>1. pc = "recheck" /\ pc' = "done" /\ UNCHANGED <<target, cancelled, expired>>
        /\ report' = [q EXCEPT !.completed = TRUE]
    BY <1>4 DEF Recheck, Goto, environment
  <2>2. /\ q \in Reports /\ q.dns = report.dns
        /\ q.status = "completed" => q = report
        /\ report.status = "interrupted" /\ cancelled => q = report
    BY <1>1, <2>1, InterruptFacts DEF Ended
  <2> HIDE DEF q
  <2>3. report'.status = q.status /\ report'.dns = q.dns
    BY <2>1, <2>2 DEF Reports
  <2> QED
    BY <1>1, <2>1, <2>2, <2>3
<1> QED
  BY <1>2, <1>3, <1>4

LEMMA FinalizeReportSafe ==
    ASSUME CommandIInv, CommandTypeOK', IInv', FinalizeReport
    PROVE  CommandIInv'
<1>1. /\ step = "finalize" /\ pc # "done"
      /\ UNCHANGED <<request, step, collection, answers, intelligence, listed, full>>
      /\ Finalize \/ Recheck \/ ScoreAll
  BY DEF FinalizeReport
<1>2. /\ pc' \in {"score", "recheck", "done"} /\ report'.dns = report.dns
      /\ UNCHANGED <<target, cancelled, expired>>
      /\ report'.status = "completed" => report.status = "completed"
  BY <1>1, FinalizeFacts DEF CommandIInv
<1>3. result'.exit = result.exit /\ result'.stored = result.stored
      /\ result'.written = result.written
  BY DEF FinalizeReport, ScoreAll, CommandIInv, CommandTypeOK
<1>4. Placed'
  BY <1>1, <1>2, <1>3 DEF CommandIInv, Placed, Returned
<1>5. Settled'
  <2> SUFFICES ASSUME request.selected, NEW s \in Sources PROVE Known(s)'
    BY <1>1 DEF Settled
  <2>1. TurnOver(s)
    BY <1>1 DEF TurnOver
  <2>2. Known(s)
    BY <2>1 DEF CommandIInv, Settled
  <2> QED
    BY <1>1, <1>2, <2>2, KnownKept DEF Incompletely
<1>6. CompleteSoFar'
  BY <1>1 DEF CompleteSoFar
<1>7. /\ ListedInTurn' /\ ListedOnce'
      /\ CompleteIntelligenceIsWhole'
  BY <1>1, <1>2, RequestKept
     DEF CommandIInv, ListedInTurn, ListedOnce, CompleteIntelligenceIsWhole
<1>8. ExitIsTruthful'
  BY <1>1, <1>3 DEF CommandIInv, Placed, ExitIsTruthful
<1> QED
  BY <1>4, <1>5, <1>6, <1>7, <1>8 DEF CommandIInv

LEMMA ValidateSafe ==
    ASSUME CommandIInv, CommandTypeOK', IInv', Validate
    PROVE  CommandIInv'
<1>1. /\ step = "validate" /\ pc = "start"
      /\ UNCHANGED <<vars, request, collection, answers, intelligence, listed, full>>
  BY DEF Validate, CommandIInv, Placed
<1>2. ~report.completed
  BY <1>1 DEF CommandIInv, IInv, Phased
<1>3. CASE Exit("invalid")
  BY <1>1, <1>2, <1>3, ExitSafe DEF ExitCodes
<1>4. CASE step' = "scan" /\ UNCHANGED result
  <2>1. Placed'
    BY <1>1, <1>4 DEF CommandIInv, Placed, vars
  <2>2. Settled' /\ CompleteSoFar' /\ CompleteIntelligenceIsWhole'
    BY <1>1, <1>2, <1>4 DEF Settled, CompleteSoFar, CompleteIntelligenceIsWhole, TurnOver,
       Sources, Supplied, Routing, Passive, vars
  <2>3. ListedInTurn' /\ ListedOnce'
    BY <1>1, <1>4, RequestKept DEF CommandIInv, ListedInTurn, ListedOnce, vars
  <2>4. ExitIsTruthful'
    BY <1>1, <1>4 DEF CommandIInv, Placed, ExitIsTruthful
  <2> QED
    BY <2>1, <2>2, <2>3, <2>4 DEF CommandIInv
<1> QED
  BY <1>3, <1>4 DEF Validate

\* Once the report is final, what is known of the sources does not change.
LEMMA FinalSettled ==
    ASSUME CommandIInv, UNCHANGED <<vars, request, collection, answers, intelligence, listed, full>>,
           step \in {"finalize", "write"}, step' \in {"finalize", "write"}
    PROVE  /\ Settled' /\ CompleteSoFar' /\ ListedInTurn' /\ ListedOnce'
           /\ CompleteIntelligenceIsWhole'
<1>1. UNCHANGED <<target, report>>
  BY DEF vars
<1>2. Settled'
  <2> SUFFICES ASSUME request.selected, NEW s \in Sources PROVE Known(s)'
    BY DEF Settled
  <2>1. TurnOver(s)
    BY DEF TurnOver
  <2>2. Known(s)
    BY <2>1 DEF CommandIInv, Settled
  <2> QED
    BY <1>1, <2>2, KnownKept DEF Incompletely
<1>3. CompleteSoFar'
  BY DEF CompleteSoFar
<1>4. /\ ListedInTurn' /\ ListedOnce'
      /\ CompleteIntelligenceIsWhole'
  BY <1>1, RequestKept DEF CommandIInv, ListedInTurn, ListedOnce, CompleteIntelligenceIsWhole
<1> QED
  BY <1>2, <1>3, <1>4

LEMMA PersistSafe ==
    ASSUME CommandIInv, CommandTypeOK', IInv', Persist
    PROVE  CommandIInv'
<1>1. /\ step = "finalize" /\ pc = "done" /\ result.exit = "running"
      /\ ~result.stored /\ result.written = 0
      /\ UNCHANGED <<vars, request, collection, answers, intelligence, listed, full>>
  BY DEF Persist, CommandIInv, Placed
<1>2. report.completed
  BY <1>1 DEF CommandIInv, IInv, Phased
<1>3. CASE Exit("invalid") \/ Exit("failed")
  BY <1>1, <1>2, <1>3, ExitSafe DEF ExitCodes
<1>4. CASE /\ step' = "write" /\ result'.exit = result.exit /\ result'.written = result.written
           /\ (result'.stored <=> request.persist = "database")
  <2>1. Placed'
    BY <1>1, <1>4 DEF CommandIInv, Placed, vars
  <2>2. ExitIsTruthful'
    BY <1>1, <1>4 DEF ExitIsTruthful
  <2> QED
    BY <1>1, <1>4, <2>1, <2>2, FinalSettled DEF CommandIInv
<1>5. step' = "write" => /\ result'.exit = result.exit /\ result'.written = result.written
                         /\ (result'.stored <=> request.persist = "database")
  BY <1>1 DEF Persist, Exit, CommandIInv, CommandTypeOK
<1> QED
  BY <1>3, <1>4, <1>5 DEF Persist

LEMMA WriteSafe ==
    ASSUME CommandIInv, CommandTypeOK', IInv', Write
    PROVE  CommandIInv'
<1>1. /\ step = "write" /\ pc = "done" /\ result.exit = "running"
      /\ UNCHANGED <<vars, request, collection, answers, intelligence, listed, full>>
  BY DEF Write, CommandIInv, Placed
<1>2. report.completed
  BY <1>1 DEF CommandIInv, IInv, Phased
<1>3. CASE Exit("failed")
  BY <1>1, <1>2, <1>3, ExitSafe DEF ExitCodes
<1>4. CASE result.written = Files /\ Exit(ExitCode)
  <2>1. /\ ExitCode \in {"success", "high", "failed"}
        /\ ExitCode \in {"success", "high"} => report.status = "completed"
        /\ ExitCode \in {"success", "high"} => (ExitCode = "high" <=> result.high)
    BY DEF ExitCode
  <2> QED
    BY <1>1, <1>2, <1>4, <2>1, ExitSafe DEF ExitCodes
<1>5. CASE UNCHANGED step /\ result' = [result EXCEPT !.written = @ + 1]
  <2>1. result'.exit = "running" /\ result'.stored = result.stored
    BY <1>1, <1>5 DEF CommandIInv, CommandTypeOK
  <2>2. Placed'
    BY <1>1, <1>5, <2>1 DEF CommandIInv, Placed, vars
  <2>3. ExitIsTruthful'
    BY <2>1 DEF ExitIsTruthful
  <2> QED
    BY <1>1, <1>5, <2>2, <2>3, FinalSettled DEF CommandIInv
<1> QED
  BY <1>3, <1>4, <1>5 DEF Write

LEMMA RefuseSafe ==
    ASSUME CommandIInv, CommandTypeOK', IInv', Refuse
    PROVE  CommandIInv'
BY ExitSafe DEF Refuse, ExitCodes

-----------------------------------------------------------------------------
(* Intelligence: the report is not finished, the steps differ in what they learn. *)

\* What every step of the intelligence has in common.
LEMMA LearningFacts ==
    ASSUME CommandIInv, CommandTypeOK', UNCHANGED core,
           step \in {"scan", "supplied", "registration", "bgp", "passive"},
           step = "scan" => pc = "returned", report'.completed = report.completed,
           UNCHANGED <<request, result>>
    PROVE  /\ UNCHANGED <<target, cancelled, expired>>
           /\ pc = "returned" /\ pc' = "returned"
           /\ ~report.completed /\ ~report'.completed
           /\ result'.exit = "running" /\ ~result'.stored /\ result'.written = 0
           /\ ExitIsTruthful'
<1>1. UNCHANGED <<target, cancelled, expired, pc>> /\ pc = "returned"
  BY DEF core, CommandIInv, Placed
<1>2. ~report.completed
  BY <1>1 DEF CommandIInv, IInv, Phased
<1>3. result'.exit = "running" /\ ~result'.stored /\ result'.written = 0
  BY DEF CommandIInv, Placed
<1> QED
  BY <1>1, <1>2, <1>3 DEF ExitIsTruthful

\* The supplied inputs are settled when their collection is over.
LEMMA SuppliedSafe ==
    ASSUME CommandIInv, CommandTypeOK', IInv', UNCHANGED <<core, request, answers, result>>,
           step \in {"scan", "supplied"}, step = "scan" => pc = "returned",
           report'.completed = report.completed,
           request.selected, step' = "registration",
           collection'.awaiting => collection'.left # <<>>,
           \A s \in Supplied : Known(s)',
           \/ Asked \subseteq full' \/ Incompletely'
           \/ ~intelligence'.present /\ (cancelled \/ expired),
           \A c \in Listable \ Asked : listed'[c] = listed[c],
           \A c \in Listable : listed'[c] <= 1
    PROVE  CommandIInv'
<1>1. /\ UNCHANGED <<target, cancelled, expired>> /\ pc' = "returned"
      /\ ~report'.completed /\ ExitIsTruthful'
      /\ result'.exit = "running" /\ ~result'.stored /\ result'.written = 0
  BY LearningFacts
<1>2. answers' = Unanswered /\ Unanswered' = Unanswered
  BY DEF CommandIInv, Placed, Unanswered
<1>3. Placed'
  BY <1>1, <1>2 DEF Placed
<1>4. Settled'
  <2> SUFFICES ASSUME NEW s \in Sources, TurnOver(s)' PROVE Known(s)'
    BY DEF Settled
  <2>1. s \in Supplied
    BY <1>1 DEF TurnOver, Sources, Supplied, Routing, Passive
  <2> QED
    BY <2>1
<1>5. CompleteSoFar'
  <2>1. \A s \in Passive : answers'[s] # "full"
    BY <1>2 DEF Unanswered
  <2>2. Asked' = Asked
    BY <1>1, RequestKept
  <2> QED
    BY <1>1, <2>1, <2>2 DEF CompleteSoFar
<1>6. ListedInTurn'
  <2>1. NotRun' = NotRun /\ NotRun \subseteq Listable \ Asked
    BY <1>1, RequestKept, RequestFacts DEF CommandIInv
  <2>2. \A c \in NotRun : listed[c] = 0
    BY DEF CommandIInv, ListedInTurn
  <2> QED
    BY <2>1, <2>2 DEF ListedInTurn
<1>7. ListedOnce' /\ CompleteIntelligenceIsWhole'
  BY DEF ListedOnce, CompleteIntelligenceIsWhole
<1> QED
  BY <1>1, <1>3, <1>4, <1>5, <1>6, <1>7 DEF CommandIInv

LEMMA CloseFacts ==
    ASSUME CommandTypeOK, Close
    PROVE  step' = "registration" /\ collection'.awaiting = FALSE
BY DEF Close, Idle

LEMMA DropSafe ==
    ASSUME CommandIInv, CommandTypeOK', IInv', UNCHANGED <<core, request, answers, result>>,
           step \in {"scan", "supplied"}, step = "scan" => pc = "returned",
           request.selected, cancelled \/ expired, Drop
    PROVE  CommandIInv'
<1>1. /\ report'.status = MarkStopped(report.status) /\ report'.dns = report.dns
      /\ report'.completed = report.completed
  BY DEF Drop, SetStatus, CommandIInv, CommandTypeOK, TypeOK, Reports
<1>2. report'.status # "completed"
  BY <1>1 DEF MarkStopped
<1>3. step' = "registration" /\ collection'.awaiting = FALSE
  BY CloseFacts DEF Drop, CommandIInv
<1>4. \A c \in Listable : listed'[c] = IF c \in Asked /\ listed[c] = 0 THEN 1 ELSE listed[c]
  <2>1. listed \in [Listable -> Nat] /\ listed' = ListOnce(listed, Asked)
    BY DEF Drop, CommandIInv, CommandTypeOK
  <2> QED
    BY <2>1, ListFacts
<1>5. UNCHANGED <<request, target>>
  BY DEF core
<1>6. \A s \in Supplied : Known(s)'
  <2> SUFFICES ASSUME NEW s \in Supplied PROVE Known(s)'
    OBVIOUS
  <2>1. s \in Asked => listed'[s] # 0
    BY <1>4 DEF Listable, Sources
  <2>2. Asked' = Asked
    BY <1>5, RequestKept
  <2> QED
    BY <1>2, <2>1, <2>2 DEF Known
<1>7. ~intelligence'.present
  BY DEF Drop, CommandIInv, Placed
<1>8. \A c \in Listable : listed'[c] <= 1
  BY <1>4 DEF CommandIInv, ListedOnce
<1> QED
  BY <1>1, <1>3, <1>4, <1>6, <1>7, <1>8, SuppliedSafe

LEMMA DeliverSafe ==
    ASSUME CommandIInv, CommandTypeOK', IInv', UNCHANGED <<core, request, answers, result>>,
           step = "supplied", request.selected, NEW whole \in BOOLEAN, Deliver(whole),
           whole => collection.failed = {} /\ collection.left = <<>>
    PROVE  CommandIInv'
<1>1. report'.completed = report.completed /\ report'.dns = report.dns
  BY DEF Deliver, SetStatus, CommandIInv, CommandTypeOK, TypeOK, Reports
<1>2. step' = "registration" /\ collection'.awaiting = FALSE
  BY CloseFacts DEF Deliver, CommandIInv
<1>3. listed' = listed /\ UNCHANGED <<request, target>>
  BY DEF Deliver, core
<1>4. Asked' = Asked /\ Asked \subseteq Supplied /\ Applicable' = Applicable
  BY <1>1, <1>3, RequestKept, RequestFacts DEF CommandIInv
<1>5. whole => Asked \subseteq full'
  BY DEF Deliver
<1>6. ~whole => Incompletely'
  BY DEF Deliver, Incompletely
<1>7. ~whole => report'.status # "completed"
  BY DEF Deliver, SetStatus, MarkPartial, CommandIInv, CommandTypeOK, TypeOK, Reports
<1>8. \A s \in Supplied : s \in Applicable => s \in Asked
  BY DEF Applicable, Joined, Supplied, Routing, Passive
<1>9. \A s \in Supplied : Known(s)'
  BY <1>4, <1>5, <1>6, <1>7, <1>8 DEF Known
<1>10. \A c \in Listable : listed'[c] <= 1
  BY <1>3 DEF CommandIInv, ListedOnce
<1> QED
  BY <1>1, <1>2, <1>3, <1>5, <1>6, <1>9, <1>10, SuppliedSafe

\* A step that only goes on with the collection.
LEMMA CollectingSafe ==
    ASSUME CommandIInv, CommandTypeOK', IInv', UNCHANGED <<core, request, answers, result>>,
           UNCHANGED <<report, intelligence, listed, full>>,
           step \in {"scan", "supplied"}, step = "scan" => pc = "returned",
           request.selected, step' = "supplied",
           collection'.awaiting => collection'.left # <<>>
    PROVE  CommandIInv'
<1>1. /\ UNCHANGED <<target, cancelled, expired>> /\ pc' = "returned"
      /\ ~report'.completed /\ ExitIsTruthful'
      /\ result'.exit = "running" /\ ~result'.stored /\ result'.written = 0
  BY LearningFacts
<1>2. Placed'
  BY <1>1 DEF CommandIInv, Placed, Unanswered
<1>3. Settled' /\ CompleteSoFar' /\ CompleteIntelligenceIsWhole'
  BY <1>1 DEF Settled, CompleteSoFar, CompleteIntelligenceIsWhole, TurnOver,
     Sources, Supplied, Routing, Passive
<1>4. ListedInTurn' /\ ListedOnce'
  BY <1>1, RequestKept DEF CommandIInv, ListedInTurn, ListedOnce
<1> QED
  BY <1>1, <1>2, <1>3, <1>4 DEF CommandIInv

LEMMA LaunchSafe ==
    ASSUME CommandIInv, CommandTypeOK', IInv', Launch
    PROVE  CommandIInv'
<1>1. /\ step = "scan" /\ pc = "returned" /\ UNCHANGED <<core, request, answers, result>>
      /\ collection.awaiting => collection.left # <<>>
  BY DEF Launch, CommandIInv, Placed
<1>2. CASE request.selected /\ Asked # {} /\ cancelled /\ Drop
  BY <1>1, <1>2, DropSafe
<1>3. CASE /\ request.selected /\ Asked = {} /\ step' = "registration"
           /\ UNCHANGED <<report, collection, intelligence, listed, full>>
  <2>1. Asked' = Asked
    BY <1>1, RequestKept DEF core
  <2>2. \A s \in Supplied : Known(s)'
    BY <1>3, <2>1 DEF Known, Applicable, Joined, Supplied, Routing, Passive
  <2>3. \A c \in Listable : listed'[c] <= 1
    BY <1>3 DEF CommandIInv, ListedOnce
  <2> QED
    BY <1>1, <1>3, <2>2, <2>3, SuppliedSafe
<1>4. CASE /\ request.selected /\ Asked # {} /\ ~cancelled /\ step' = "supplied"
           /\ collection' = [collection EXCEPT !.left = Tasks, !.awaiting = request.bundle]
           /\ UNCHANGED <<report, intelligence, listed, full>>
  <2>1. collection'.left = Tasks /\ collection'.awaiting = request.bundle
    BY <1>4 DEF CommandIInv, CommandTypeOK
  <2>2. request.bundle => Tasks # <<>>
    BY RequestFacts DEF Tasks, CommandIInv, CommandLines
  <2> QED
    BY <1>1, <1>4, <2>1, <2>2, CollectingSafe
<1>5. CASE /\ ~request.selected /\ step' = "passive"
           /\ UNCHANGED <<report, collection, intelligence, listed, full>>
  <2>1. /\ UNCHANGED <<target, cancelled, expired>> /\ pc' = "returned" /\ ExitIsTruthful'
        /\ result'.exit = "running" /\ ~result'.stored /\ result'.written = 0
    BY <1>1, <1>5, LearningFacts
  <2>2. Placed'
    BY <1>1, <1>5, <2>1 DEF CommandIInv, Placed, Unanswered
  <2>3. Settled' /\ CompleteSoFar' /\ CompleteIntelligenceIsWhole'
    BY <1>1, <1>5 DEF Settled, CompleteSoFar, CompleteIntelligenceIsWhole
  <2>4. ListedInTurn' /\ ListedOnce'
    BY <1>1, <1>5, <2>1, RequestKept DEF CommandIInv, ListedInTurn, ListedOnce
  <2> QED
    BY <2>1, <2>2, <2>3, <2>4 DEF CommandIInv
<1> QED
  BY <1>2, <1>3, <1>4, <1>5 DEF Launch

LEMMA ObserveSafe ==
    ASSUME CommandIInv, CommandTypeOK', IInv', Observe
    PROVE  CommandIInv'
<1>1. /\ step = "supplied" /\ UNCHANGED <<core, request, answers, result>>
      /\ request.selected /\ (collection.awaiting => collection.left # <<>>)
  BY DEF Observe, CommandIInv, Placed
<1>2. CASE (cancelled \/ expired) /\ Drop
  BY <1>1, <1>2, DropSafe
<1>3. CASE Deliver(FALSE)
  BY <1>1, <1>3, DeliverSafe
<1>4. CASE collection.left = <<>> /\ Deliver(collection.failed = {})
  BY <1>1, <1>4, DeliverSafe
<1>5. CASE /\ collection.left # <<>> /\ collection' = [collection EXCEPT !.awaiting = TRUE]
           /\ UNCHANGED <<report, step, intelligence, listed, full>>
  <2>1. collection'.left # <<>>
    BY <1>5 DEF CommandIInv, CommandTypeOK
  <2> QED
    BY <1>1, <1>5, <2>1, CollectingSafe
<1>6. ASSUME NEW succeeds \in BOOLEAN, Observed(Head(collection.left), succeeds)
      PROVE  CommandIInv'
  <2>1. collection'.awaiting = FALSE /\ UNCHANGED <<report, step, intelligence, listed, full>>
    BY <1>6 DEF Observed
  <2> QED
    BY <1>1, <2>1, CollectingSafe
<1> QED
  BY <1>2, <1>3, <1>4, <1>5, <1>6 DEF Observe

\* What the source of this step did not know before, it knows after it.
LEMMA LookFacts ==
    ASSUME CommandIInv, NEW here \in {"registration", "bgp"}, NEW source \in Routing, NEW next,
           Look(here, source, next)
    PROVE  /\ step = here /\ step' = next /\ UNCHANGED <<core, request, collection, answers, result>>
           /\ report'.completed = report.completed /\ report'.dns = report.dns
           /\ report'.status = "completed" => report.status = "completed"
           /\ full \subseteq full' /\ (Incompletely => Incompletely')
           /\ \A c \in Listable : /\ listed[c] # 0 => listed'[c] # 0
                                  /\ listed'[c] <= 1
                                  /\ c # source => listed'[c] = listed[c]
           /\ Eligible => source \in full' \/ Incompletely'
           /\ source \in full' \/ listed'[source] # 0
           /\ report'.status = "completed" /\ Eligible => source \in full'
           /\ ~Incompletely' /\ intelligence'.present /\ ~intelligence.present =>
                  ~cancelled /\ ~expired
<1>1. /\ step = here /\ step' = next /\ UNCHANGED <<core, request, collection, answers, result>>
      /\ pc = "returned" /\ source \in Listable
  BY DEF Look, CommandIInv, Placed, Listable, Sources
<1>2. /\ report \in Reports /\ report.status \in Ended /\ listed \in [Listable -> Nat]
      /\ \A c \in Listable : listed[c] <= 1
      /\ intelligence \in [present : BOOLEAN, complete : BOOLEAN, evidence : SUBSET Sources]
  BY <1>1 DEF CommandIInv, CommandTypeOK, ListedOnce, IInv, TypeOK, Phased, Returned, Reports,
     Statuses, Ended
<1>3. CASE ~Eligible
  <2>1. listed' = ListOnce(listed, {source}) /\ UNCHANGED <<report, intelligence, full>>
    BY <1>3 DEF Look
  <2>2. \A c \in Listable : listed'[c] = IF c = source /\ listed[c] = 0 THEN 1 ELSE listed[c]
    BY <1>2, <2>1, ListFacts
  <2>3. \A c \in Listable : /\ listed[c] # 0 => listed'[c] # 0
                            /\ listed'[c] <= 1
                            /\ c # source => listed'[c] = listed[c]
    BY <1>2, <2>2
  <2>4. listed'[source] # 0
    BY <1>1, <1>2, <2>2
  <2>5. Incompletely' = Incompletely
    BY <2>1 DEF Incompletely
  <2> QED
    BY <1>1, <1>3, <2>1, <2>3, <2>4, <2>5
<1>4. ASSUME NEW observed \in BOOLEAN, NEW flawless \in BOOLEAN,
             Finished(source, observed, flawless)
      PROVE  /\ report'.completed = report.completed /\ report'.dns = report.dns
             /\ report'.status = "completed" => report.status = "completed"
             /\ full \subseteq full' /\ (Incompletely => Incompletely')
             /\ \A c \in Listable : /\ listed[c] # 0 => listed'[c] # 0
                                    /\ listed'[c] <= 1
                                    /\ c # source => listed'[c] = listed[c]
             /\ source \in full' \/ Incompletely'
             /\ source \in full' \/ listed'[source] # 0
             /\ report'.status = "completed" => source \in full'
             /\ ~Incompletely' => ~cancelled /\ ~expired
  <2> DEFINE whole == flawless /\ ~cancelled /\ ~expired
  <2>1. /\ report'.completed = report.completed /\ report'.dns = report.dns
        /\ report'.status = "completed" => report.status = "completed" /\ whole
    BY <1>2, <1>4 DEF Finished, SetStatus, MarkPartial, Reports
  <2>2. /\ intelligence'.present
        /\ intelligence'.complete <=> (intelligence.complete /\ whole)
    BY <1>4 DEF Finished
  <2>3. full \subseteq full' /\ (whole => source \in full')
    BY <1>4 DEF Finished
  <2>4. CASE whole
    <3>1. listed' = listed
      BY <1>4, <2>4 DEF Finished
    <3> QED
      BY <1>2, <2>1, <2>2, <2>3, <2>4, <3>1 DEF Incompletely
  <2>5. CASE ~whole
    <3>1. listed' = ListOnce(listed, {source})
      BY <1>4, <2>5 DEF Finished
    <3>2. \A c \in Listable : listed'[c] = IF c = source /\ listed[c] = 0 THEN 1 ELSE listed[c]
      BY <1>2, <3>1, ListFacts
    <3> QED
      BY <1>1, <1>2, <2>1, <2>2, <2>3, <2>5, <3>2 DEF Incompletely
  <2> QED
    BY <2>4, <2>5
<1>5. Eligible => \E observed, flawless \in BOOLEAN : Finished(source, observed, flawless)
  BY DEF Look
<1> QED
  BY <1>1, <1>3, <1>4, <1>5

LEMMA LookSafe ==
    ASSUME CommandIInv, CommandTypeOK', IInv', Registration \/ Routes
    PROVE  CommandIInv'
<1>1. PICK source \in Routing :
         \/ source = "network_registration" /\ Look("registration", source, "bgp")
         \/ source = "bgp_origin" /\ Look("bgp", source, "passive")
  BY DEF Registration, Routes, Routing
<1>2. /\ \/ source = "network_registration" /\ step = "registration" /\ step' = "bgp"
         \/ source = "bgp_origin" /\ step = "bgp" /\ step' = "passive"
      /\ UNCHANGED <<core, request, collection, answers, result>>
      /\ report'.completed = report.completed /\ report'.dns = report.dns
      /\ report'.status = "completed" => report.status = "completed"
      /\ full \subseteq full' /\ (Incompletely => Incompletely')
      /\ \A c \in Listable : /\ listed[c] # 0 => listed'[c] # 0
                             /\ listed'[c] <= 1
                             /\ c # source => listed'[c] = listed[c]
      /\ Eligible => source \in full' \/ Incompletely'
      /\ source \in full' \/ listed'[source] # 0
      /\ report'.status = "completed" /\ Eligible => source \in full'
      /\ ~Incompletely' /\ intelligence'.present /\ ~intelligence.present =>
             ~cancelled /\ ~expired
  <2>1. CASE source = "network_registration" /\ Look("registration", source, "bgp")
    BY <2>1, LookFacts
  <2>2. CASE source = "bgp_origin" /\ Look("bgp", source, "passive")
    BY <2>2, LookFacts
  <2> QED
    BY <1>1, <2>1, <2>2
<1>3. /\ UNCHANGED <<target, cancelled, expired>> /\ pc' = "returned"
      /\ ~report'.completed /\ ExitIsTruthful' /\ request.selected
      /\ result'.exit = "running" /\ ~result'.stored /\ result'.written = 0
  BY <1>2, LearningFacts DEF CommandIInv, Placed
<1>4. /\ Asked' = Asked /\ Eligible' = Eligible /\ Applicable' = Applicable /\ NotRun' = NotRun
      /\ NotRun \subseteq Listable /\ source \notin NotRun
  BY <1>2, <1>3, RequestKept, RequestFacts DEF CommandIInv
<1>5. Placed'
  BY <1>2, <1>3 DEF CommandIInv, Placed, Unanswered
<1>6. Settled'
  <2> SUFFICES ASSUME NEW s \in Sources, TurnOver(s)' PROVE Known(s)'
    BY DEF Settled
  <2>1. CASE s = source
    <3>1. s \in Applicable => Eligible
      BY <2>1, RequestFacts DEF CommandIInv, Supplied, Applicable, Joined, Routing, Passive
    <3> QED
      BY <1>2, <1>4, <2>1, <3>1 DEF Known
  <2>2. CASE s # source
    <3>1. TurnOver(s)
      BY <1>2, <1>3, <2>2 DEF TurnOver, Sources, Supplied, Routing, Passive
    <3>2. Known(s)
      BY <1>3, <3>1 DEF CommandIInv, Settled
    <3> QED
      BY <1>2, <1>3, <3>2, KnownKept
  <2> QED
    BY <2>1, <2>2
<1>7. CompleteSoFar'
  <2>1. \/ Asked \subseteq full' \/ Incompletely'
        \/ /\ ~intelligence'.present /\ (cancelled \/ expired)
           /\ \A s \in Passive : answers'[s] # "full"
    BY <1>2, <1>3 DEF CommandIInv, CompleteSoFar
  <2>2. step' = "passive" /\ Eligible => "network_registration" \in full' \/ Incompletely'
    BY <1>2, <1>3 DEF CommandIInv, CompleteSoFar
  <2> QED
    BY <1>2, <1>3, <1>4, <2>1, <2>2 DEF CompleteSoFar
<1>8. ListedInTurn' /\ ListedOnce' /\ CompleteIntelligenceIsWhole'
  <2>1. \A c \in NotRun : listed[c] = 0
    BY <1>2 DEF CommandIInv, ListedInTurn
  <2> QED
    BY <1>2, <1>4, <2>1 DEF ListedInTurn, ListedOnce, CompleteIntelligenceIsWhole
<1> QED
  BY <1>3, <1>5, <1>6, <1>7, <1>8 DEF CommandIInv

LEMMA AnswerSafe ==
    ASSUME CommandIInv, CommandTypeOK', IInv', Answer
    PROVE  CommandIInv'
<1>1. /\ step = "passive" /\ UNCHANGED <<target, pc, report, cancelled, expired>>
      /\ UNCHANGED <<request, step, collection, intelligence, listed, full, result>>
  BY DEF Answer, vars
<1>2. cancelled \/ expired => \A s \in Passive : answers'[s] = "full" => answers[s] = "full"
  BY RequestFacts DEF Answer, Answers, CommandIInv, CommandTypeOK
<1>3. /\ Asked' = Asked /\ Eligible' = Eligible /\ Applicable' = Applicable /\ NotRun' = NotRun
      /\ Files' = Files
  BY <1>1, RequestKept
<1>4. Placed'
  BY <1>1 DEF CommandIInv, Placed
<1>5. Settled'
  BY <1>1, <1>3 DEF CommandIInv, Settled, TurnOver, Known, Incompletely
<1>6. CompleteSoFar'
  BY <1>1, <1>2, <1>3 DEF CommandIInv, CompleteSoFar, Incompletely
<1>7. ListedInTurn' /\ ListedOnce' /\ CompleteIntelligenceIsWhole' /\ ExitIsTruthful'
  BY <1>1, <1>3 DEF CommandIInv, ListedInTurn, ListedOnce, CompleteIntelligenceIsWhole,
     ExitIsTruthful
<1> QED
  BY <1>4, <1>5, <1>6, <1>7 DEF CommandIInv

LEMMA ConcludeSafe ==
    ASSUME CommandIInv, CommandTypeOK', IInv', Conclude
    PROVE  CommandIInv'
<1> DEFINE errors == {s \in Joined : answers[s] = "error"}
           whole == \A s \in Joined : answers[s] = "full"
<1>1. /\ step = "passive" /\ step' = "finalize" /\ answers' = Unanswered
      /\ UNCHANGED <<core, request, collection, result>>
      /\ \A s \in Joined : answers[s] \in {"full", "incomplete", "error"}
  BY RequestFacts DEF Conclude, CommandIInv, CommandTypeOK
<1>2. /\ report'.completed = report.completed /\ report'.dns = report.dns
      /\ report'.status = "completed" => report.status = "completed" /\ whole
  BY DEF Conclude, SetStatus, Overruled, MarkPartial, CommandIInv, CommandTypeOK, TypeOK, Reports
<1>3. /\ Joined = {} => intelligence' = intelligence
      /\ Joined # {} => /\ intelligence'.present
                        /\ intelligence'.complete <=> (intelligence.complete /\ whole)
  BY DEF Conclude
<1>4. full \subseteq full' /\ \A s \in Joined : answers[s] = "full" => s \in full'
  BY DEF Conclude
<1>5. \A c \in Listable : listed'[c] = IF c \in NotRun THEN 1
                                       ELSE IF c \in errors /\ listed[c] = 0 THEN 1 ELSE listed[c]
  <2>1. listed \in [Listable -> Nat] /\ NotRun \cap errors = {}
    BY RequestFacts DEF CommandIInv, CommandTypeOK
  <2>2. listed' = ListAgain(ListOnce(listed, errors), NotRun)
    BY DEF Conclude
  <2>3. \A c \in NotRun : listed[c] = 0
    BY <1>1 DEF CommandIInv, ListedInTurn
  <2>4. /\ ListOnce(listed, errors) \in [Listable -> Nat]
        /\ \A c \in Listable :
             ListOnce(listed, errors)[c] = IF c \in errors /\ listed[c] = 0 THEN 1 ELSE listed[c]
    BY <2>1, ListFacts
  <2> DEFINE l == ListOnce(listed, errors)
  <2> HIDE DEF l, errors, whole
  <2>5. \A c \in Listable : listed'[c] = IF c \in NotRun THEN l[c] + 1 ELSE l[c]
    BY <2>2, <2>4, ListFacts DEF l
  <2>6. \A c \in Listable : l[c] = IF c \in errors /\ listed[c] = 0 THEN 1 ELSE listed[c]
    BY <2>4 DEF l
  <2>7. \A c \in NotRun : c \notin errors
    BY <2>1
  <2> QED
    BY <2>3, <2>5, <2>6, <2>7
<1> HIDE DEF whole
<1>6. /\ UNCHANGED <<target, cancelled, expired>> /\ pc' = "returned" /\ ExitIsTruthful'
      /\ result'.exit = "running" /\ ~result'.stored /\ result'.written = 0
  BY <1>1, <1>2, LearningFacts
<1>7. /\ Asked' = Asked /\ Eligible' = Eligible /\ Applicable' = Applicable /\ NotRun' = NotRun
      /\ Joined' = Joined /\ NotRun \subseteq Listable /\ Joined \subseteq Passive
  BY <1>1, <1>2, <1>6, RequestKept, RequestFacts DEF CommandIInv
<1>8. Incompletely => Incompletely'
  BY <1>3 DEF Incompletely
<1>9. Placed'
  BY <1>1, <1>6 DEF CommandIInv, Placed, Returned, Unanswered
<1>10. Settled'
  <2> SUFFICES ASSUME request.selected, NEW s \in Sources PROVE Known(s)'
    BY <1>1 DEF Settled
  <2>1. CASE s \notin Passive
    <3>1. TurnOver(s)
      BY <1>1, <2>1 DEF TurnOver, Sources, Supplied, Routing
    <3>2. Known(s) /\ \A c \in Listable : listed[c] # 0 => listed'[c] # 0
      BY <1>5, <3>1 DEF CommandIInv, Settled
    <3> QED
      BY <1>1, <1>2, <1>4, <1>6, <1>8, <3>2, KnownKept
  <2>2. CASE s \in Passive
    <3>1. s \in Applicable => s \in Joined
      BY <2>2, RequestFacts DEF Applicable, CommandIInv, Supplied, Routing, Passive
    <3>2. report'.status = "completed" /\ s \in Applicable => s \in full'
      BY <1>2, <1>4, <3>1 DEF whole
    <3>3. CASE s \in Joined
      <4>1. CASE answers[s] = "full"
        BY <1>4, <1>7, <3>2, <3>3, <4>1 DEF Known
      <4>2. CASE answers[s] = "error"
        <5>1. s \in errors /\ s \in Listable
          BY <3>3, <4>2 DEF Listable
        <5>2. listed'[s] # 0
          BY <1>5, <5>1
        <5> QED
          BY <1>7, <3>2, <5>2 DEF Known
      <4>3. CASE answers[s] = "incomplete"
        <5>1. ~whole /\ Joined # {}
          BY <3>3, <4>3 DEF whole
        <5>2. Incompletely'
          BY <1>3, <5>1 DEF Incompletely
        <5> QED
          BY <1>7, <3>2, <5>2 DEF Known
      <4> QED
        BY <1>1, <3>3, <4>1, <4>2, <4>3
    <3>4. CASE s \notin Joined
      <4>1. s \in NotRun /\ s \in Listable
        BY <2>2, <3>4 DEF NotRun, Listable
      <4>2. listed'[s] # 0
        BY <1>5, <4>1
      <4> QED
        BY <1>7, <3>2, <4>2 DEF Known
    <3> QED
      BY <3>3, <3>4
  <2> QED
    BY <2>1, <2>2
<1>11. CompleteSoFar'
  BY <1>1 DEF CompleteSoFar
<1>12. ListedInTurn'
  BY <1>1, <1>5, <1>7 DEF ListedInTurn
<1>13. ListedOnce'
  BY <1>5 DEF CommandIInv, ListedOnce
<1>14. CompleteIntelligenceIsWhole'
  <2> SUFFICES ASSUME intelligence'.present, intelligence'.complete PROVE Applicable \subseteq full'
    BY <1>7 DEF CompleteIntelligenceIsWhole
  <2>1. CASE ~request.selected
    BY <2>1 DEF Applicable
  <2>2. CASE request.selected
    <3>1. ~Incompletely
      BY <1>8 DEF Incompletely
    <3>2. Joined = {} => intelligence.present
      BY <1>3
    <3>3. Joined # {} => whole
      BY <1>3
    <3>4. Asked \subseteq full
      <4>1. \/ Asked \subseteq full
            \/ ~intelligence.present /\ \A s \in Passive : answers[s] # "full"
        BY <1>1, <2>2, <3>1 DEF CommandIInv, CompleteSoFar
      <4> QED
        BY <1>7, <3>2, <3>3, <4>1 DEF whole
    <3>5. Eligible => Routing \subseteq full
      BY <1>1, <2>2, <3>1 DEF CommandIInv, CompleteSoFar, Routing
    <3>6. Joined \subseteq full'
      BY <1>4, <3>3 DEF whole
    <3> QED
      BY <1>4, <3>4, <3>5, <3>6 DEF Applicable
  <2> QED
    BY <2>1, <2>2
<1> QED
  BY <1>6, <1>9, <1>10, <1>11, <1>12, <1>13, <1>14 DEF CommandIInv

-----------------------------------------------------------------------------
(* The theorems. *)

LEMMA CommandNextSafe == CommandIInv /\ [CommandNext]_commandVars => CommandIInv'
<1> SUFFICES ASSUME CommandIInv, [CommandNext]_commandVars PROVE CommandIInv'
  OBVIOUS
<1>1. CommandTypeOK' /\ IInv'
  BY CommandNextType, CommandCoreSafe DEF CommandIInv
<1>2. CASE UNCHANGED commandVars
  BY <1>1, <1>2, StillSafe DEF commandVars, vars
<1>3. CASE Validate \/ CoreScan \/ Signal
  BY <1>1, <1>3, ValidateSafe, CoreScanSafe, SignalSafe
<1>4. CASE Launch \/ Observe \/ Refuse
  BY <1>1, <1>4, LaunchSafe, ObserveSafe, RefuseSafe
<1>5. CASE Registration \/ Routes \/ Answer \/ Conclude
  BY <1>1, <1>5, LookSafe, AnswerSafe, ConcludeSafe
<1>6. CASE FinalizeReport \/ Persist \/ Write
  BY <1>1, <1>6, FinalizeReportSafe, PersistSafe, WriteSafe
<1> QED
  BY <1>2, <1>3, <1>4, <1>5, <1>6 DEF CommandNext, Work

LEMMA CommandInductive == CommandSpec => []CommandIInv
BY CommandInitSafe, CommandNextSafe, PTL DEF CommandSpec

\* Through every step of run_scan_command each part of its state is of its kind, and
\* the command line is one of those the instance allows.
THEOREM CommandTypeCorrect == CommandSpec => []CommandTypeOK
<1>1. CommandIInv => CommandTypeOK
  BY DEF CommandIInv
<1> QED
  BY <1>1, CommandInductive, PTL

\* A completed report left no applicable source out: every one of them, and the core
\* scan, did all its work before the report could keep the status "completed".
THEOREM CompletedIsWholeTheorem == CommandSpec => []CompletedIsWhole
<1>1. CommandIInv => CompletedIsWhole
  <2> SUFFICES ASSUME CommandIInv, report.completed, report.status = "completed"
               PROVE  Applicable \subseteq full /\ \A s \in {"dns"} \cup Scheduled : work[s] = "full"
    BY DEF CompletedIsWhole
  <2>1. \A s \in {"dns"} \cup Scheduled : work[s] = "full"
    BY DEF CommandIInv, IInv, CompletedIsEarned
  <2>2. request.selected => \A s \in Sources : Known(s)
    BY DEF CommandIInv, Settled, TurnOver
  <2>3. Applicable \subseteq Sources /\ (~request.selected => Applicable = {})
    BY RequestFacts DEF CommandIInv, Applicable, Sources
  <2> QED
    BY <2>1, <2>2, <2>3 DEF Known
<1> QED
  BY <1>1, CommandInductive, PTL

\* Intelligence that calls itself complete at the end is: a collection dropped by the
\* token cannot hide behind the sources that answered.
THEOREM CompleteIntelligenceTheorem == CommandSpec => []CompleteIntelligenceIsWhole
<1>1. CommandIInv => CompleteIntelligenceIsWhole
  BY DEF CommandIInv
<1> QED
  BY <1>1, CommandInductive, PTL

\* What was not collected, whole, is a skipped check of the report or makes its
\* intelligence incomplete.
THEOREM UnaccountedTheorem == CommandSpec => []NothingUnaccounted
<1>1. CommandIInv => NothingUnaccounted
  <2> SUFFICES ASSUME CommandIInv, step \in {"finalize", "write"} PROVE NothingUnaccounted
    BY DEF NothingUnaccounted
  <2>1. \A c \in NotRun : listed[c] # 0
    BY DEF CommandIInv, ListedInTurn
  <2>2. CASE ~request.selected
    BY <2>1, <2>2 DEF NotRun, NothingUnaccounted
  <2>3. CASE request.selected
    <3> SUFFICES ASSUME NEW s \in Sources \ full PROVE listed[s] # 0 \/ Incompletely
      BY <2>3 DEF NothingUnaccounted, Incompletely
    <3>1. CASE s \in Supplied \ Asked
      BY <2>1, <2>3, <3>1 DEF NotRun
    <3>2. CASE s \notin Supplied \ Asked
      <4>1. TurnOver(s)
        BY DEF TurnOver
      <4>2. Known(s)
        BY <2>3, <4>1 DEF CommandIInv, Settled
      <4> QED
        BY <3>2, <4>2 DEF Known
    <3> QED
      BY <3>1, <3>2
  <2> QED
    BY <2>2, <2>3
<1> QED
  BY <1>1, CommandInductive, PTL

\* Every source that did not do its work is accounted for, and no check is listed as
\* skipped twice, whichever of the five functions listed it.
THEOREM SkipsTheorem == CommandSpec => []SkipsAreTold
<1>1. CommandIInv => ListedOnce
  BY DEF CommandIInv
<1> QED
  BY <1>1, UnaccountedTheorem, CommandInductive, PTL DEF SkipsAreTold

\* An exit code that promises a report is given only when the report is completed and
\* in all its places; a refusal leaves none of them touched.
THEOREM ExitTheorem == CommandSpec => []ExitIsTruthful
<1>1. CommandIInv => ExitIsTruthful
  BY DEF CommandIInv
<1> QED
  BY <1>1, CommandInductive, PTL

\* Neither intelligence nor finalization turns a stopped, partial or failed report
\* into a completed one, or an interrupted one into anything else.
THEOREM CommandNoRecoveryTheorem == CommandSpec => CommandNoRecovery
<1> DEFINE Worse == /\ report.status = "interrupted" => report'.status = "interrupted"
                    /\ report.status \in {"partial", "failed"} => report'.status # "completed"
<1>1. CommandIInv /\ [CommandNext]_commandVars => [Worse]_commandVars
  <2> SUFFICES ASSUME CommandIInv, [CommandNext]_commandVars PROVE Worse \/ UNCHANGED commandVars
    OBVIOUS
  <2>1. CASE ScoreAll
    BY <2>1, FinalizeFacts DEF CommandIInv, ScoreAll
  <2>2. ASSUME NEW status \in Ended, SetStatus(status),
               status = "completed" => report.status = "completed",
               report.status = "interrupted" => status = "interrupted"
        PROVE  Worse
    <3>1. report'.status = status
      BY <2>2 DEF SetStatus, CommandIInv, IInv, TypeOK, Reports
    <3> QED
      BY <2>2, <3>1
  <2>3. CASE [Next]_vars
    <3>1. IInv /\ IInv'
      BY CommandCoreSafe DEF CommandIInv
    <3> QED
      BY <2>3, <3>1, StepNoRecovery
  <2> QED
    BY <2>1, <2>2, <2>3, CommandStepKinds DEF CommandIInv
<1> QED
  BY <1>1, CommandInductive, PTL DEF CommandSpec, CommandNoRecovery

-----------------------------------------------------------------------------
(* When the report is committed. *)

\* A rejected target ends the command before its scan.
Accepted == step \notin {"validate", "ended"} => target # "conflict"

LEMMA AcceptedStep ==
    ASSUME CommandIInv, Accepted, [CommandNext]_commandVars
    PROVE  Accepted'
<1>1. CASE UNCHANGED commandVars
  BY <1>1 DEF Accepted, commandVars, vars, command
<1>2. CASE Validate
  BY <1>2 DEF Validate, Exit, Accepted, vars
<1>3. CASE CoreScan
  <2>1. target' = target /\ step' = step
    BY <1>3, CoreScanPlace DEF CoreScan, command, CommandIInv
  <2> QED
    BY <2>1 DEF Accepted
<1>4. CASE Signal
  BY <1>4 DEF Signal, Cancel, Expire, command, Accepted
<1>5. CASE FinalizeReport
  <2>1. target' = target /\ step' = step
    BY <1>5, FinalizeFacts DEF FinalizeReport, CommandIInv
  <2> QED
    BY <2>1 DEF Accepted
<1>6. CASE Launch \/ Observe \/ Registration \/ Routes \/ Conclude
  <2>1. UNCHANGED core /\ step \notin {"validate", "ended"}
    BY <1>6 DEF Launch, Observe, Registration, Routes, Look, Conclude
  <2> QED
    BY <2>1 DEF Accepted, core
<1>7. CASE Refuse \/ Answer \/ Persist \/ Write
  <2>1. UNCHANGED vars /\ step \notin {"validate", "ended"}
    BY <1>7 DEF Refuse, Answer, Persist, Write
  <2> QED
    BY <2>1 DEF Accepted, vars
<1> QED
  BY <1>1, <1>2, <1>3, <1>4, <1>5, <1>6, <1>7 DEF CommandNext, Work

LEMMA CommandRejectedStep ==
    ASSUME CommandIInv, RejectedAtPreflight, [CommandNext]_commandVars
    PROVE  RejectedAtPreflight'
<1>1. report \in Reports /\ IInv
  BY DEF CommandIInv, IInv, TypeOK
<1>2. CASE [Next]_vars
  BY <1>1, <1>2, RejectedStep
<1>3. ASSUME report'.errors = report.errors, target' = target PROVE RejectedAtPreflight'
  BY <1>3 DEF RejectedAtPreflight, PreflightFailed
<1>4. CASE ScoreAll
  BY <1>1, <1>3, <1>4 DEF ScoreAll, Reports, environment
<1>5. ASSUME NEW status \in Ended, SetStatus(status), UNCHANGED core PROVE RejectedAtPreflight'
  BY <1>1, <1>3, <1>5 DEF SetStatus, Reports, core
<1> QED
  BY <1>2, <1>4, <1>5, CommandStepKinds DEF CommandIInv

LEMMA CommandAccepted == CommandSpec => [](Accepted /\ RejectedAtPreflight)
<1>1. CommandInit => Accepted /\ RejectedAtPreflight
  BY RejectedStart DEF CommandInit, Accepted
<1>2. CommandIInv /\ Accepted /\ RejectedAtPreflight /\ [CommandNext]_commandVars => (Accepted /\ RejectedAtPreflight)'
  BY AcceptedStep, CommandRejectedStep
<1> QED
  BY <1>1, <1>2, CommandInductive, PTL DEF CommandSpec

\* Only the last part of finalize_report commits, and it asks for both stops first.
LEMMA CommitStep ==
    ASSUME CommandIInv, Accepted, RejectedAtPreflight, FinalizeReport, ~report.completed, report'.completed
    PROVE  /\ cancelled => report'.status = "interrupted"
           /\ expired => report'.status # "completed"
<1>1. /\ step = "finalize" /\ pc # "done" /\ target # "conflict" /\ ~PreflightFailed(report)
      /\ report \in Reports /\ IInv
  BY DEF FinalizeReport, Accepted, RejectedAtPreflight, CommandIInv, IInv, TypeOK
<1>2. /\ report.status \in {"completed", "partial", "interrupted", "failed"}
      /\ Returned
  BY <1>1 DEF CommandIInv, Placed, IInv, Phased, Reports, Statuses
<1>3. ~Finalize
  <2> SUFFICES ASSUME Finalize PROVE FALSE
    OBVIOUS
  <2>1. report' = IF cancelled \/ expired THEN Interrupt(report) ELSE Settle(report)
    BY <1>1 DEF Finalize, Committed
  <2>2. Interrupt(report).completed = report.completed /\ Settle(report).completed = report.completed
    BY <1>1, <1>2, InterruptFacts, SettleFacts
  <2> QED
    BY <2>1, <2>2
<1>4. ~ScoreAll
  BY <1>1 DEF ScoreAll, Reports
<1>5. CASE Recheck
  <2> DEFINE q == Interrupt(report)
  <2>1. q \in Reports /\ report' = [q EXCEPT !.completed = TRUE]
    BY <1>1, <1>5, InterruptType DEF Recheck
  <2>2. (cancelled => q.status = "interrupted") /\ (expired => q.status # "completed")
    BY <1>1, <1>2, InterruptAmends
  <2> HIDE DEF q
  <2>3. report'.status = q.status
    BY <2>1 DEF Reports
  <2> QED
    BY <2>2, <2>3
<1> QED
  BY <1>3, <1>4, <1>5 DEF FinalizeReport

\* What touches the report, its intelligence or its skipped checks before and at the
\* finalization finds a report that nobody committed.
LEMMA CommittedStays ==
    ASSUME CommandIInv, [CommandNext]_commandVars, report.completed
    PROVE  UNCHANGED <<report, intelligence, listed>>
<1>1. pc = "done"
  BY DEF CommandIInv, IInv, Phased
<1>2. step \notin {"validate", "scan", "supplied", "registration", "bgp", "passive"}
  BY <1>1 DEF CommandIInv, Placed
<1> QED
  BY <1>1, <1>2 DEF CommandNext, Work, Validate, CoreScan, Launch, Observe, Refuse, Registration, Routes, Look, Answer,
     Conclude, FinalizeReport, Persist, Write, Signal, commandVars, vars, command

\* The report is committed once all intelligence has ended, shows a stop asked for before
\* then, and neither it, its intelligence nor its skipped checks change afterwards
\* (run_scan_command, finalize_report).
THEOREM CommittedAtTheEndTheorem == CommandSpec => CommittedAtTheEnd
<1> DEFINE AtTheEnd == /\ ~report.completed /\ report'.completed =>
                              /\ step = "finalize"
                              /\ cancelled => report'.status = "interrupted"
                              /\ expired => report'.status # "completed"
                       /\ report.completed => UNCHANGED <<report, intelligence, listed>>
<1>1. CommandIInv /\ CommandIInv' /\ Accepted /\ RejectedAtPreflight /\ [CommandNext]_commandVars => [AtTheEnd]_commandVars
  <2> SUFFICES ASSUME CommandIInv, CommandIInv', Accepted, RejectedAtPreflight, [CommandNext]_commandVars PROVE AtTheEnd
    OBVIOUS
  <2>1. ASSUME ~report.completed, report'.completed
        PROVE  step = "finalize" /\ FinalizeReport
    <3>1. pc # "done" /\ pc' = "done"
      BY <2>1 DEF CommandIInv, IInv, Phased
    <3>2. CASE CoreScan
      BY <3>1, <3>2, CoreScanPlace DEF CoreScan, CommandIInv
    <3> QED
      BY <3>1, <3>2 DEF CommandNext, Work, Validate, Launch, Observe, Refuse, Registration, Routes, Look, Answer,
         Conclude, FinalizeReport, Persist, Write, Signal, Cancel, Expire, commandVars, vars, core
  <2> QED
    BY <2>1, CommitStep, CommittedStays
<1> QED
  BY <1>1, CommandInductive, CommandAccepted, PTL DEF CommandSpec, CommittedAtTheEnd
-----------------------------------------------------------------------------
(* The command keeps the contract of a scan.                               *)

\* The report gets its outcome when all intelligence has ended.
LEMMA ConcludeKeeps ==
    ASSUME CommandIInv, CommandIInv', Accepted, Conclude
    PROVE  OperatorsContract!End
<1>1. /\ step = "passive" /\ step' = "finalize" /\ target # "conflict"
      /\ UNCHANGED <<target, cancelled, expired>>
  BY DEF Conclude, Accepted, core
<1>2. pc = "returned" /\ pc' = "returned"
  BY <1>1 DEF CommandIInv, Placed, Conclude, core
<1>3. report.completed = FALSE /\ report'.completed = FALSE
  BY <1>2 DEF CommandIInv, IInv, TypeOK, Reports, Phased
<1>4. report'.status \in Ended /\ (report'.status = "interrupted" => cancelled)
  BY <1>1, <1>2 DEF CommandIInv, IInv, TypeOK, Reports, Statuses, Ended, Phased, Returned, InterruptedWasCancelled
<1> QED
  BY <1>1, <1>3, <1>4 DEF OperatorsContract!End, OperatorsContract!Outcomes, Ended

\* finalize_report amends the outcome, and commits it, as a scan's caller was promised.
LEMMA FinalizeReportKeeps ==
    ASSUME CommandIInv, CommandIInv', Accepted, RejectedAtPreflight, FinalizeReport
    PROVE  OperatorsContract!Amend \/ OperatorsContract!Commit \/ UNCHANGED OperatorsContract!vars
<1>1. /\ step = "finalize" /\ step' = "finalize" /\ pc # "done" /\ target # "conflict"
      /\ Returned /\ Returned' /\ IInv /\ report \in Reports
  BY DEF FinalizeReport, Accepted, CommandIInv, Placed, IInv, TypeOK
<1>2. UNCHANGED <<target, cancelled, expired>>
  BY <1>1, FinalizeFacts DEF FinalizeReport
<1>3. /\ report.completed = FALSE /\ pc \in {"returned", "score", "recheck"}
      /\ report'.completed <=> pc' = "done"
      /\ pc' # "done" => pc' \in {"returned", "score", "recheck"}
  BY <1>1 DEF CommandIInv, IInv, TypeOK, Reports, Phased, Returned
<1>4. CASE ScoreAll
  <2>1. report'.status = report.status /\ report'.completed = report.completed
    BY <1>1, <1>4 DEF ScoreAll, Reports
  <2> QED
    BY <1>1, <1>2, <2>1 DEF OperatorsContract!vars
<1>5. CASE Finalize \/ Recheck
  <2>1. Rejected
    BY <1>1 DEF Rejected
  <2>2. Contract!Amend \/ Contract!Commit \/ UNCHANGED Contract!vars
    BY <1>1, <1>5, <2>1, FinalImplements DEF FinalStep
  <2>3. ASSUME Contract!Amend PROVE OperatorsContract!Amend
    <3>1. report'.status \in Contract!Amended /\ report'.completed = FALSE
      BY <1>1, <1>3, <2>3 DEF Contract!Amend
    <3> QED
      BY <1>1, <1>2, <1>3, <3>1 DEF OperatorsContract!Amend, OperatorsContract!Amended, Contract!Amended
  <2>4. ASSUME Contract!Commit PROVE OperatorsContract!Commit
    <3>1. /\ report'.status \in Contract!Amended /\ report'.completed
          /\ cancelled => report'.status = "interrupted"
          /\ expired => report'.status # "completed"
      BY <1>1, <1>3, <2>4 DEF Contract!Commit
    <3> QED
      BY <1>1, <1>2, <1>3, <3>1 DEF OperatorsContract!Commit, OperatorsContract!Amended, Contract!Amended
  <2>5. ASSUME UNCHANGED Contract!vars PROVE UNCHANGED OperatorsContract!vars
    <3>1. report'.status = report.status /\ report'.completed = FALSE
      BY <1>1, <1>3, <2>5 DEF Contract!vars
    <3> QED
      BY <1>1, <1>2, <1>3, <3>1 DEF OperatorsContract!vars
  <2> QED
    BY <2>2, <2>3, <2>4, <2>5
<1> QED
  BY <1>4, <1>5 DEF FinalizeReport

\* Before the intelligence has ended there is no outcome to keep: the command goes on or
\* is refused.
LEMMA CollectingKeeps ==
    ASSUME CommandIInv, CommandIInv',
           Validate \/ CoreScan \/ Launch \/ Observe \/ Refuse \/ Registration \/ Routes \/ Answer
    PROVE  UNCHANGED OperatorsContract!vars
<1>1. step \notin {"finalize", "write"} /\ step' # "finalize"
  BY DEF Validate, CoreScan, Launch, Drop, Close, Observe, Deliver, Observed, Refuse, Registration, Routes, Look, Answer,
     Exit, command
<1>2. UNCHANGED <<target, cancelled, expired>>
  <2>1. CASE CoreScan
    BY <2>1, CoreScanPlace DEF CoreScan, CommandIInv
  <2>2. CASE ~CoreScan
    BY <2>2 DEF Validate, Launch, Observe, Refuse, Registration, Routes, Look, Answer, vars, core
  <2> QED
    BY <2>1, <2>2
<1>3. pc # "done" /\ pc' # "done"
  <2>1. CASE CoreScan
    BY <2>1, CoreScanPlace DEF CoreScan, CommandIInv, Placed
  <2>2. CASE ~CoreScan
    <3>1. step \in {"validate", "scan", "supplied", "registration", "bgp", "passive"} /\ pc' = pc
      BY <2>2 DEF Validate, Launch, Observe, Refuse, Registration, Routes, Look, Answer, vars, core
    <3> QED
      BY <3>1 DEF CommandIInv, Placed
  <2> QED
    BY <2>1, <2>2
<1>4. report.completed = FALSE /\ report'.completed = FALSE
  BY <1>3 DEF CommandIInv, IInv, TypeOK, Reports, Phased
<1> QED
  BY <1>1, <1>2, <1>4 DEF OperatorsContract!vars

\* Every step of the whole command, intelligence included, is one the contract of a scan
\* allows, with the end of all intelligence for the end of the scan: from there on
\* only a stop amends the status, and what is committed shows it (run_scan_command).
THEOREM CommandContractTheorem == CommandSpec => CommandKeepsContract
<1>1. CommandInit => OperatorsContract!Init
  <2> SUFFICES ASSUME CommandInit PROVE OperatorsContract!Init
    OBVIOUS
  <2>1. report.completed = FALSE /\ step = "validate"
    BY InitType, StartReport DEF CommandInit, Init
  <2> QED
    BY <2>1 DEF CommandInit, Init, OperatorsContract!Init
<1>2. CommandIInv /\ CommandIInv' /\ Accepted /\ RejectedAtPreflight /\ [CommandNext]_commandVars
      => [OperatorsContract!Next]_OperatorsContract!vars
  <2> SUFFICES ASSUME CommandIInv, CommandIInv', Accepted, RejectedAtPreflight, [CommandNext]_commandVars
               PROVE  OperatorsContract!Next \/ UNCHANGED OperatorsContract!vars
    OBVIOUS
  <2>1. CASE UNCHANGED commandVars
    BY <2>1 DEF commandVars, vars, command, OperatorsContract!vars
  <2>2. CASE Signal
    BY <2>2 DEF Signal, Cancel, Expire, command, OperatorsContract!Next, OperatorsContract!Request
  <2>3. CASE Conclude
    BY <2>3, ConcludeKeeps DEF OperatorsContract!Next
  <2>4. CASE FinalizeReport
    BY <2>4, FinalizeReportKeeps DEF OperatorsContract!Next
  <2>5. CASE Persist \/ Write
    <3>1. pc = "done" /\ UNCHANGED vars
      BY <2>5 DEF Persist, Write, CommandIInv, Placed
    <3>2. report.completed
      BY <3>1 DEF CommandIInv, IInv, Phased
    <3> QED
      BY <3>1, <3>2 DEF vars, OperatorsContract!vars
  <2> QED
    BY <2>1, <2>2, <2>3, <2>4, <2>5, CollectingKeeps DEF CommandNext, Work
<1> QED
  BY <1>1, <1>2, CommandInductive, CommandAccepted, PTL DEF CommandSpec, CommandKeepsContract, OperatorsContract!Steps
=============================================================================
