--------------------------- MODULE ScanLifecycle ---------------------------
(***************************************************************************)
(* The core scan of surface-core: the stages of engine.rs run one after    *)
(* the other over one report, and lifecycle.rs decides what the report     *)
(* says about itself (status, errors, skipped checks, score, completion).  *)
(* An operator may cancel and the global deadline may pass between any two *)
(* steps.  A step reads the token and the clock once: a cancellation or an *)
(* expiry that falls between two reads of the same step commutes with the  *)
(* end of that step.                                                       *)
(***************************************************************************)
EXTENDS Naturals, Sequences, FiniteSets

CONSTANT ErrorBatches   \* what the DNS baseline, or the AXFR check, may add to report.errors

Active == {"ports", "services", "http", "tls"}
DnsChecks == {"dns", "dnssec_validation", "authoritative_axfr", "wildcard_dns", "dangling_cname"}
Checks == DnsChecks \cup Active
Stages == {"preflight", "dns", "findings"} \cup Active
Kinds == {"configuration", "dns", "timeout", "network", "cancelled", "other"}
Statuses == {"not_started", "completed", "partial", "interrupted", "failed"}
Targets == {"hostname", "address", "conflict"}   \* conflict: explicit IP outside the address family

\* Why a check is listed in skipped_checks ("none": it is not listed).
Reasons == {"none", "excluded", "not_applicable", "unavailable", "indeterminate",
            "configuration", "timeout", "cancelled"}
Verdicts == {"none", "determinate", "indeterminate", "not_applicable"}

Errors == [stage : Stages, kind : Kinds, recoverable : BOOLEAN]
DnsObservations == [present : BOOLEAN, addresses : BOOLEAN, cnames : BOOLEAN,
                    dnssec : Verdicts, wildcard : Verdicts, dangling : Verdicts]
Reports == [status : Statuses, errors : Seq(Errors), skipped : [Checks -> Reasons],
            dns : DnsObservations, found : SUBSET Stages,
            score : {"none", "complete", "incomplete"}, completed : BOOLEAN]

\* Recoverable errors of the DNS stage; none is a cancellation.
ASSUME ErrorBatchesAssumption ==
    \A batch \in ErrorBatches :
        /\ batch \in Seq(Errors)
        /\ \A i \in DOMAIN batch : /\ batch[i].stage = "dns" /\ batch[i].recoverable
                                   /\ batch[i].kind \notin {"configuration", "cancelled"}

\* ScanSelection::only: a selected stage brings in the stages it needs.
Selections == {s \in SUBSET Active : /\ s \cap {"http", "tls"} # {} => "services" \in s
                                     /\ "services" \in s => "ports" \in s}

VARIABLES
    target,      \* the kind of normalized target, fixed for a scan
    selection,   \* the selected active stages, fixed for a scan
    pc,          \* where run_scan_inner, then finalize, is
    stage,       \* the stage pc is about
    authority,   \* the DNS baseline established the zone and its nameservers
    report,      \* the ScanReport
    work,        \* history: how far each stage's own work got
    cancelled,   \* the CancellationToken is cancelled
    expired      \* the global deadline has passed

vars == <<target, selection, pc, stage, authority, report, work, cancelled, expired>>
environment == <<target, selection, cancelled, expired>>

WorkStages == {"dns"} \cup Active
Progress == {"idle", "running", "full", "cut"}
Locations == {"start", "baseline", "dnssec", "axfr", "wildcard", "dangling", "addresses",
              "gate", "run", "check", "ssh", "finish", "returned", "score", "recheck", "done"}

TypeOK ==
    /\ target \in Targets /\ selection \in Selections
    /\ pc \in Locations /\ stage \in Stages
    /\ authority \in BOOLEAN /\ cancelled \in BOOLEAN /\ expired \in BOOLEAN
    /\ report \in Reports
    /\ work \in [WorkStages -> Progress]

-----------------------------------------------------------------------------
(* The report's lifecycle operations (lifecycle.rs). *)

Rank(s) == CASE s = "preflight" -> 0 [] s = "dns" -> 1 [] s = "ports" -> 2
             [] s = "services" -> 3 [] s = "http" -> 4 [] s = "tls" -> 5 [] OTHER -> 6

CheckStage(c) == IF c \in DnsChecks THEN "dns" ELSE c

\* Definitions ending in _Bug are what a plausible mistake would make of the
\* definition that follows; no specification uses them.
AddSkip_Bug(r, checks, why) ==   \* the latest reason replaces the first
    [r EXCEPT !.skipped = [c \in Checks |-> IF c \in checks THEN why ELSE r.skipped[c]]]

\* add_skipped_check: the first reason recorded for a check stands.
AddSkip(r, checks, why) ==
    [r EXCEPT !.skipped = [c \in Checks |-> IF c \in checks /\ r.skipped[c] = "none"
                                            THEN why ELSE r.skipped[c]]]

AddErrors(r, batch) == [r EXCEPT !.errors = @ \o batch]

HasObservations(r) == r.dns.present \/ r.found # {}

Unfinished_Bug(s, sel) ==   \* the stage that was stopped counts as finished
    {c \in DnsChecks \cup sel : Rank(CheckStage(c)) > Rank(s)}

Unfinished(s, sel) == {c \in DnsChecks \cup sel : Rank(CheckStage(c)) >= Rank(s)}

TerminalStatus(r, kind) ==
    CASE kind = "configuration" -> "failed"
      [] kind = "cancelled" -> "interrupted"
      [] kind = "timeout" /\ ~HasObservations(r) -> "failed"
      [] OTHER -> "partial"

Terminated_Bug(r, kind) == FALSE   \* every check of the token appends an error

Terminated(r, kind) == \/ r.status = "interrupted" /\ kind = "cancelled"
                       \/ r.status = "failed" /\ kind = "timeout"

Terminate(r, s, sel, kind) ==
    IF Terminated(r, kind) THEN r
    ELSE LET verdict == TerminalStatus(r, kind)
             error == [stage |-> s, kind |-> kind, recoverable |-> verdict # "failed"]
         IN  AddSkip([r EXCEPT !.status = verdict, !.errors = Append(@, error)],
                     Unfinished(s, sel), kind)

Conclusive(r) == /\ r.errors = <<>>
                 /\ "indeterminate" \notin {r.dns.dnssec, r.dns.wildcard, r.dns.dangling}

Settle(r) ==
    IF r.status \in {"interrupted", "failed", "partial"} THEN r
    ELSE [r EXCEPT !.status = IF Conclusive(r) THEN "completed" ELSE "partial"]

Interrupt_Bug(r) ==   \* the deadline is asked for before the token
    IF expired THEN Terminate(r, "findings", Active, "timeout")
    ELSE IF cancelled THEN Terminate(r, "findings", Active, "cancelled")
    ELSE r

\* finalize asks twice whether the scan was cancelled or ran out of time.
Interrupt(r) ==
    IF cancelled THEN Terminate(r, "findings", Active, "cancelled")
    ELSE IF expired THEN Terminate(r, "findings", Active, "timeout")
    ELSE r

Incomplete_Bug(r) == r.status # "completed"   \* skipped checks are not looked at

\* calculate_exposure reads the status and the skipped checks of that moment.
Incomplete(r) == r.status # "completed" \/ \E c \in Checks : r.skipped[c] # "none"

-----------------------------------------------------------------------------
(* Steps of run_scan_inner. *)

NoDns == [present |-> FALSE, addresses |-> FALSE, cnames |-> FALSE,
          dnssec |-> "none", wildcard |-> "none", dangling |-> "none"]

NotStarted == [status |-> "not_started", errors |-> <<>>, skipped |-> [c \in Checks |-> "none"],
               dns |-> NoDns, found |-> {}, score |-> "none", completed |-> FALSE]

Init ==
    /\ target \in Targets /\ selection \in Selections
    /\ pc = "start" /\ stage = "preflight" /\ authority = FALSE
    /\ report = AddSkip(NotStarted, Active \ selection, "excluded")   \* record_selection_skips
    /\ work = [s \in WorkStages |-> "idle"]
    /\ cancelled = FALSE /\ expired = FALSE

Goto(location) == pc' = location /\ UNCHANGED stage

\* terminate, then return the report to the caller.
Stop(r, kind) == /\ report' = Terminate(r, stage, selection, kind)
                 /\ Goto("returned")

Cut(s) == work' = [work EXCEPT ![s] = "cut"]

\* A DNS step is awaited under biased select!: cancellation first, then the
\* answer, then the deadline.  r is the report with what the cut step leaves in it.
CutDns(r) == /\ \/ cancelled /\ Stop(r, "cancelled")
                \/ ~cancelled /\ expired /\ Stop(r, "timeout")
             /\ Cut("dns")
             /\ UNCHANGED <<environment, authority>>

SetDns(r, field, verdict) ==   \* if let Some(dns) = report.dns.as_mut()
    IF r.dns.present THEN [r EXCEPT !.dns[field] = verdict] ELSE r

Preflight ==
    /\ pc = "start" /\ target = "conflict"
    /\ Stop(report, "configuration")
    /\ UNCHANGED <<environment, authority, work>>

Start ==
    /\ pc = "start" /\ target # "conflict"
    /\ IF expired
       THEN /\ report' = Terminate(report, "dns", selection, "timeout")
            /\ pc' = "returned"
            /\ UNCHANGED work
       ELSE /\ pc' = "baseline"
            /\ work' = [work EXCEPT !["dns"] = "running"]
            /\ UNCHANGED report
    /\ stage' = "dns"
    /\ UNCHANGED <<environment, authority>>

Answered(dns, errors, zone) ==
    /\ report' = [AddErrors(report, errors) EXCEPT !.dns = dns]
    /\ authority' = zone

\* explicit_ip_observation
AddressDns == [NoDns EXCEPT !.present = TRUE, !.addresses = TRUE,
                            !.dnssec = "not_applicable", !.wildcard = "not_applicable"]

ResolverError == [stage |-> "dns", kind |-> "dns", recoverable |-> TRUE]

\* The baseline answers for an address without a query; for a hostname it queries
\* the resolver, or reports that no resolver could be set up.
Baseline ==
    /\ pc = "baseline"
    /\ \/ (cancelled \/ target = "hostname") /\ CutDns(report)
       \/ /\ ~cancelled
          /\ \/ target = "address" /\ Answered(AddressDns, <<>>, FALSE)
             \/ /\ target = "hostname"
                /\ \E addresses, cnames, zone \in BOOLEAN, batch \in ErrorBatches :
                      Answered([NoDns EXCEPT !.present = TRUE, !.addresses = addresses,
                                             !.cnames = cnames], batch, zone)
             \/ target = "hostname" /\ Answered(NoDns, <<ResolverError>>, FALSE)
          /\ Goto("dnssec")
          /\ UNCHANGED <<environment, work>>

\* An address target skips the hostname checks one after the other.
NotApplicable(location, check, next) ==
    /\ pc = location /\ target = "address"
    /\ report' = AddSkip(report, {check}, "not_applicable")
    /\ Goto(next)
    /\ UNCHANGED <<environment, authority, work>>

\* A hostname check that lacks its input.
Unavailable(check, next) ==
    /\ report' = AddSkip(report, {check}, "unavailable")
    /\ Goto(next)
    /\ UNCHANGED <<environment, work>>

Dnssec ==
    \/ NotApplicable("dnssec", "dnssec_validation", "axfr")
    \/ /\ pc = "dnssec" /\ target = "hostname"
       /\ \/ CutDns(SetDns(report, "dnssec", "indeterminate"))
          \/ /\ ~cancelled
             /\ \E verdict \in Verdicts \ {"none"} :
                   report' = SetDns(IF verdict = "determinate" THEN report
                                    ELSE AddSkip(report, {"dnssec_validation"}, verdict),
                                    "dnssec", verdict)
             /\ Goto("axfr")
             /\ UNCHANGED <<environment, authority, work>>

\* The endpoints are tried one by one; the attempts of a completed check are
\* reported as errors where they were not conclusive, those of a cut one are not.
\* The check consumes the authority evidence.
Axfr ==
    \/ NotApplicable("axfr", "authoritative_axfr", "wildcard")
    \/ /\ pc = "axfr" /\ target = "hostname" /\ authority
       /\ CutDns(report)
    \/ /\ pc = "axfr" /\ target = "hostname"
       /\ authority => ~cancelled /\ ~expired
       /\ Unavailable("authoritative_axfr", "wildcard")
       /\ authority' = FALSE
    \/ /\ pc = "axfr" /\ target = "hostname" /\ authority /\ ~cancelled /\ ~expired
       /\ \E batch \in ErrorBatches : report' = AddErrors(report, batch)
       /\ Goto("wildcard")
       /\ authority' = FALSE
       /\ UNCHANGED <<environment, work>>

Concluded_Bug(check, field, next) ==   \* the verdict is passed on as the reason to skip
    /\ \E verdict \in {"determinate", "indeterminate"} :
          /\ cancelled => verdict = "indeterminate"
          /\ report' = SetDns(AddSkip(report, {check}, verdict), field, verdict)
    /\ Goto(next)
    /\ UNCHANGED <<environment, authority, work>>

\* What the wildcard and the dangling CNAME checks record when they complete.
\* Without a resolver they are indeterminate and never read the token.
Concluded(check, field, next) ==
    /\ \E verdict \in {"determinate", "indeterminate"} :
          /\ cancelled => verdict = "indeterminate"
          /\ report' = SetDns(IF verdict = "determinate" THEN report
                              ELSE AddSkip(report, {check}, verdict), field, verdict)
    /\ Goto(next)
    /\ UNCHANGED <<environment, authority, work>>

Wildcard ==
    \/ NotApplicable("wildcard", "wildcard_dns", "dangling")
    \/ /\ pc = "wildcard" /\ target = "hostname" /\ ~report.dns.present
       /\ Unavailable("wildcard_dns", "dangling") /\ UNCHANGED authority
    \/ /\ pc = "wildcard" /\ target = "hostname" /\ report.dns.present
       /\ \/ CutDns(SetDns(report, "wildcard", "indeterminate"))
          \/ Concluded("wildcard_dns", "wildcard", "dangling")

Dangling ==
    \/ NotApplicable("dangling", "dangling_cname", "addresses")
    \/ /\ pc = "dangling" /\ target = "hostname" /\ ~report.dns.cnames
       /\ Unavailable("dangling_cname", "addresses") /\ UNCHANGED authority
    \/ /\ pc = "dangling" /\ target = "hostname" /\ report.dns.cnames
       /\ \/ CutDns(SetDns(report, "dangling", "indeterminate"))
          \/ Concluded("dangling_cname", "dangling", "addresses")

\* TLS needs a hostname for SNI; every other selected stage is scheduled.
Scheduled == {s \in selection : s = "tls" => target = "hostname"}

\* The next scheduled stage after s opens its gate; after the last, finish.
Proceed(s) ==
    LET later == {t \in Scheduled : Rank(t) > Rank(s)}
    IN  IF later = {} THEN pc' = "finish" /\ stage' = "findings"
        ELSE /\ pc' = "gate"
             /\ \E t \in later : (\A u \in later : Rank(t) <= Rank(u)) /\ stage' = t

\* finish_selected_report: it asks for cancellation, never for the deadline.
FinishSelected(r, unfinished) ==
    IF cancelled THEN Terminate(r, unfinished, selection, "cancelled") ELSE Settle(r)

Addresses ==
    /\ pc = "addresses"
    /\ work' = [work EXCEPT !["dns"] = "full"]
    /\ IF report.dns.addresses
       THEN Proceed("dns") /\ UNCHANGED report
       ELSE /\ report' = FinishSelected([report EXCEPT !.status = "partial"], "ports")
            /\ Goto("returned")
    /\ UNCHANGED <<environment, authority>>

\* Before a stage starts the deadline is checked; the services gate also reports
\* that more endpoints are open than active probing will look at.
Gate ==
    /\ pc = "gate"
    /\ \/ expired /\ Stop(report, "timeout") /\ UNCHANGED work
       \/ /\ ~expired
          /\ \E truncated \in BOOLEAN :
                /\ truncated => stage = "services"
                /\ report' = IF truncated
                             THEN AddErrors(report, <<[stage |-> stage, kind |-> "other",
                                                       recoverable |-> TRUE]>>)
                             ELSE report
          /\ work' = [work EXCEPT ![stage] = "running"]
          /\ Goto("run")
    /\ UNCHANGED <<environment, authority>>

\* The stage's workers share a child token that the operator's cancellation and
\* the deadline task cancel: only then may they leave endpoints out.
Run ==
    /\ pc = "run"
    /\ \E observed \in BOOLEAN :
          /\ stage = "ports" => observed   \* an entry per address, whatever its ports answered
          /\ stage \in {"http", "tls"} /\ observed => "services" \in report.found
          /\ report' = [report EXCEPT !.found = IF observed THEN @ \cup {stage} ELSE @]
    /\ \E progress \in {"full", "cut"} :
          /\ progress = "cut" => cancelled \/ expired
          /\ work' = [work EXCEPT ![stage] = progress]
    /\ Goto("check")
    /\ UNCHANGED <<environment, authority>>

Check_Bug ==   \* only the token is looked at after a stage
    /\ pc = "check"
    /\ \/ cancelled /\ Stop(report, "cancelled")
       \/ /\ ~cancelled
          /\ IF stage = "services" THEN Goto("ssh") ELSE Proceed(stage)
          /\ UNCHANGED report
    /\ UNCHANGED <<environment, authority, work>>

Check ==
    /\ pc = "check"
    /\ \/ cancelled /\ Stop(report, "cancelled")
       \/ ~cancelled /\ expired /\ Stop(report, "timeout")
       \/ /\ ~cancelled /\ ~expired
          /\ IF stage = "services" THEN Goto("ssh") ELSE Proceed(stage)
          /\ UNCHANGED report
    /\ UNCHANGED <<environment, authority, work>>

\* analyze_ssh reconnects to each SSH service found; with none it returns at once.
Ssh ==
    /\ pc = "ssh"
    /\ \E services \in BOOLEAN :
          /\ services => "services" \in report.found
          /\ \/ services /\ cancelled /\ Stop(report, "cancelled") /\ Cut("services")
             \/ services /\ ~cancelled /\ expired /\ Stop(report, "timeout") /\ Cut("services")
             \/ /\ services => ~cancelled
                /\ Proceed("services")
                /\ UNCHANGED <<report, work>>
    /\ UNCHANGED <<environment, authority>>

Finish ==
    /\ pc = "finish"
    /\ report' = FinishSelected(IF "tls" \in selection \ Scheduled
                                THEN AddSkip(report, {"tls"}, "not_applicable")
                                ELSE report, "findings")
    /\ Goto("returned")
    /\ UNCHANGED <<environment, authority, work>>

-----------------------------------------------------------------------------
(* finalize_report.  The progress callbacks between its parts are where a    *)
(* cancellation can still arrive.                                            *)

PreflightFailed(r) == \E i \in DOMAIN r.errors : r.errors[i].stage = "preflight"

\* A caller may finalize a report again: a completed one is left alone.
Committed(r) == r.completed

Finalize ==
    /\ pc \in {"returned", "done"}
    /\ \/ Committed(report) /\ UNCHANGED <<report, pc, stage>>
       \/ /\ ~Committed(report) /\ PreflightFailed(report)
          /\ report' = [report EXCEPT !.completed = TRUE]
          /\ Goto("done")
       \/ /\ ~Committed(report) /\ ~PreflightFailed(report)
          /\ report' = IF cancelled \/ expired THEN Interrupt(report) ELSE Settle(report)
          /\ Goto("score")
    /\ UNCHANGED <<environment, authority, work>>

Score ==
    /\ pc = "score"
    /\ report' = [report EXCEPT !.score = IF Incomplete(report) THEN "incomplete" ELSE "complete"]
    /\ Goto("recheck")
    /\ UNCHANGED <<environment, authority, work>>

Recheck ==
    /\ pc = "recheck"
    /\ report' = [Interrupt(report) EXCEPT !.completed = TRUE]
    /\ Goto("done")
    /\ UNCHANGED <<environment, authority, work>>

-----------------------------------------------------------------------------

\* Ctrl-C's task, or a progress callback, cancels the token; time passes the deadline.
Cancel == /\ ~cancelled /\ cancelled' = TRUE
          /\ UNCHANGED <<target, selection, pc, stage, authority, report, work, expired>>

Expire == /\ ~expired /\ expired' = TRUE
          /\ UNCHANGED <<target, selection, pc, stage, authority, report, work, cancelled>>

DnsStep == Preflight \/ Start \/ Baseline \/ Dnssec \/ Axfr \/ Wildcard \/ Dangling \/ Addresses
ActiveStep == Gate \/ Run \/ Check \/ Ssh \/ Finish
FinalStep == Finalize \/ Score \/ Recheck

Next == DnsStep \/ ActiveStep \/ FinalStep \/ Cancel \/ Expire

\* Every awaited operation is bounded by a timeout of its own, so the scan's task
\* always takes its next step; nobody has to cancel, and the deadline may stay ahead.
Spec == Init /\ [][Next]_vars /\ WF_vars(DnsStep \/ ActiveStep \/ FinalStep)

\* The scan as its caller sees it.
Contract == INSTANCE ScanContract WITH
    accepted <- target # "conflict",
    phase <- IF report.completed THEN "committed"
             ELSE IF pc \in {"returned", "score", "recheck"} THEN "ended" ELSE "running",
    outcome <- report.status

-----------------------------------------------------------------------------
(* What the report may claim. *)

Returned == pc \in {"returned", "score", "recheck", "done"}
Errored(kind) == {i \in DOMAIN report.errors : report.errors[i].kind = kind}

\* A completed status is earned: the DNS stage and every scheduled stage did all
\* its work (no worker was cut off by the stage token without the report saying
\* so), nothing was indeterminate and no error was recorded.
CompletedIsEarned ==
    report.status = "completed" =>
        /\ \A s \in {"dns"} \cup Scheduled : work[s] = "full"
        /\ report.dns.present /\ Conclusive(report)

\* A stage that was cut short is listed as skipped, with the reason that stopped
\* the scan, and the status says that the scan was stopped.
CutIsReported ==
    Returned => \A s \in WorkStages :
        work[s] = "cut" => /\ report.skipped[s] \in {"timeout", "cancelled"}
                           /\ report.status \in {"partial", "interrupted", "failed"}

\* Nothing is missing in silence: when there was an address to scan, a selected
\* check whose stage did not do all its work is in skipped_checks.
NothingMissingInSilence ==
    Returned /\ report.dns.addresses =>
        \A s \in selection : work[s] # "full" => report.skipped[s] # "none"

\* A failed report holds no observation: whatever was observed makes a stopped
\* scan partial or interrupted, and keeps its value.
FailedIsEmpty == report.status = "failed" => ~HasObservations(report)

\* The operator's cancellation is recorded exactly once, and only in an
\* interrupted report, however many of the lifecycle's checks saw it.
InterruptedOnce ==
    IF report.status = "interrupted"
    THEN cancelled /\ Cardinality(Errored("cancelled")) = 1
    ELSE Errored("cancelled") = {}

\* A score that does not call itself incomplete was computed on a scan that
\* skipped no check and whose only errors, if any, arrived after the score.
CompleteScoreIsEarned ==
    report.score = "complete" =>
        /\ \A c \in Checks : report.skipped[c] = "none"
        /\ \A s \in {"dns"} \cup Active : work[s] = "full"
        /\ \A i \in DOMAIN report.errors : report.errors[i].stage = "findings"

\* A conflicting address family stops the scan before any work: no observation,
\* no score, and one configuration error that no later stop adds to.
PreflightDoesNoWork ==
    target = "conflict" =>
        /\ report.score = "none" /\ ~HasObservations(report)
        /\ \A s \in WorkStages : work[s] = "idle"
        /\ Returned => report.status = "failed" /\ Len(report.errors) = 1

\* However a scan ended, its report accounts for all of it: what failed, was rejected,
\* was interrupted or is missing, over every order of stops and stages.
AccountsForItself ==
    NothingMissingInSilence /\ FailedIsEmpty /\ InterruptedOnce /\ PreflightDoesNoWork

\* Cancellation and the deadline only ever add to a report: errors and
\* observations stay, and the first reason given for a skipped check stands.
ReportOnlyGrows ==
    [][/\ Len(report.errors) <= Len(report'.errors)
       /\ SubSeq(report'.errors, 1, Len(report.errors)) = report.errors
       /\ report.found \subseteq report'.found
       /\ report.dns.present => report'.dns.present
       /\ \A c \in Checks : report.skipped[c] # "none" => report'.skipped[c] = report.skipped[c]]_vars

\* Once a scan was stopped it never looks better again: an interrupted report
\* stays interrupted, and no stopped report becomes a completed one.
NoRecovery ==
    [][/\ report.status = "interrupted" => report'.status = "interrupted"
       /\ report.status \in {"partial", "failed"} => report'.status # "completed"
       /\ report.status # "not_started" => report'.status # "not_started"]_vars

\* A completed report is final, whatever is cancelled, expires or is called later.
CommittedIsFinal == [][report.completed => UNCHANGED report]_vars

\* Nothing a report once said is taken back, whatever is cancelled, expires or is
\* called later.
NothingIsTakenBack == ReportOnlyGrows /\ CommittedIsFinal

\* The staged scan implements the contract, its liveness included: every scan
\* ends, and is committed with an outcome that shows the stops asked for before.
ImplementsContract == Contract!Spec

-----------------------------------------------------------------------------
(* The inductive invariant behind the safety properties: what is known of the *)
(* report and of the work at each location.                                   *)

DnsLocations == {"baseline", "dnssec", "axfr", "wildcard", "dangling", "addresses"}
ActiveLocations == {"gate", "run", "check", "ssh", "finish"}

AllFull(stages) == \A s \in stages : work[s] = "full"
Before(s) == {t \in Scheduled : Rank(t) < Rank(s)}

\* Where the scan is determines the stage, and when the report gets an outcome.
Phased ==
    /\ Returned <=> report.status # "not_started"
    /\ report.completed <=> pc = "done"
    /\ report.score # "none" => pc \in {"recheck", "done"}
    /\ pc = "start" => /\ stage = "preflight"
                       /\ report = AddSkip(NotStarted, Active \ selection, "excluded")
    /\ pc \in DnsLocations => stage = "dns"
    /\ pc \in {"gate", "run", "check"} => stage \in Scheduled
    /\ pc = "ssh" => stage = "services" /\ "services" \in Scheduled
    /\ target = "conflict" => /\ pc \in {"start", "returned", "done"}
                              /\ Returned => PreflightFailed(report)

\* The stages behind the current one did all their work.
Worked ==
    /\ report.dns.addresses => report.dns.present
    /\ pc \in ActiveLocations => report.dns.present /\ work["dns"] = "full"
    /\ pc \in {"gate", "run", "check", "ssh"} => AllFull(Before(stage))
    /\ pc = "check" => \/ work[stage] = "full"
                       \/ work[stage] = "cut" /\ (cancelled \/ expired)
    /\ pc = "ssh" => work["services"] = "full"
    /\ pc = "finish" => AllFull(Scheduled)
    /\ \A s \in WorkStages : work[s] = "cut" => Returned \/ (pc = "check" /\ s = stage)

\* A check keeps its place for the reason that will stop the scan.
SkipsInOrder ==
    /\ ~Returned => \A c \in {"dns"} \cup Scheduled : report.skipped[c] = "none"
    /\ \A c \in Active \ selection : report.skipped[c] # "none"
    /\ target = "address" /\ (pc \in (DnsLocations \cup ActiveLocations) \ {"baseline", "dnssec"}
                              \/ report.status = "completed")
           => report.skipped["dnssec_validation"] # "none"

InterruptedWasCancelled == report.status = "interrupted" => cancelled

IInv == /\ TypeOK /\ Phased /\ Worked /\ SkipsInOrder
        /\ CompletedIsEarned /\ CutIsReported /\ FailedIsEmpty
        /\ CompleteScoreIsEarned /\ InterruptedWasCancelled

-----------------------------------------------------------------------------
(* What the documentation says of a report, and the code does not keep. *)

\* docs/scoring.md, Completeness: "Partial, interrupted, failed, or not-started
\* scans set [incomplete] to true".
StoppedScoreIsIncomplete ==
    report.completed /\ report.score # "none" /\ report.status # "completed"
        => report.score = "incomplete"
=============================================================================
