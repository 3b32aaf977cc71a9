---------------------------- MODULE ScanCommand ----------------------------
(***************************************************************************)
(* `surface scan` (run_scan_command): the core scan of ScanLifecycle, then *)
(* passive intelligence under the same token and deadline, then the        *)
(* finalization, the history, the output files and the exit code.          *)
(* Intelligence edits the status of a report the core has returned and     *)
(* nobody has finalized yet.                                               *)
(***************************************************************************)
EXTENDS ScanLifecycle

CONSTANT Requests   \* the command lines of an instance, with what the environment adds to them

\* What the operator gives, the bundle's two offline checks being one, and what is
\* collected from the network.
Supplied == {"subdomain_dns", "dkim", "bundle"}
Routing == {"network_registration", "bgp_origin"}
Passive == {"certificate_transparency", "related_domains"}
Sources == Supplied \cup Routing \cup Passive
Listable == Sources \cup {"intelligence"}

\* public: the addresses DNS may find are public ones; inputs: the subdomains, then the
\* selectors; related: an API key is configured; outputs: the paths of --output.
CommandLines == [target : Targets, active : Selections, valid : BOOLEAN, selected : BOOLEAN,
                 public : BOOLEAN, inputs : Seq({"subdomain_dns", "dkim"}), bundle : BOOLEAN,
                 related : BOOLEAN, persist : {"no", "nowhere", "database"}, outputs : Nat]

ASSUME RequestsAssumption == Requests \subseteq CommandLines

VARIABLES
    request,        \* the command line, fixed
    step,           \* where run_scan_command is
    collection,     \* analyze_intelligence at work: its inputs left, whether it awaits an answer,
                    \* what it observed, what failed
    answers,        \* what the joined passive sources answered
    intelligence,   \* report.intelligence
    listed,         \* report.skipped_checks: how many entries an intelligence check has
    full,           \* history: the sources that did all their work
    result          \* high-severity findings; what was stored and written; the exit code

command == <<request, step, collection, answers, intelligence, listed, full, result>>
commandVars == <<vars, command>>
core == <<target, selection, pc, stage, authority, work, cancelled, expired>>   \* all but the report

Steps == {"validate", "scan", "supplied", "registration", "bgp", "passive",
          "finalize", "write", "ended"}
ExitCodes == {"running", "success", "invalid", "high", "failed"}

CommandTypeOK ==
    /\ TypeOK
    /\ request \in Requests /\ step \in Steps
    /\ collection \in [left : Seq(Supplied), awaiting : BOOLEAN,
                       got : SUBSET Supplied, failed : SUBSET Supplied]
    /\ answers \in [Passive -> {"none", "full", "incomplete", "error"}]
    /\ intelligence \in [present : BOOLEAN, complete : BOOLEAN, evidence : SUBSET Sources]
    /\ listed \in [Listable -> Nat] /\ full \subseteq Sources
    /\ result \in [high : BOOLEAN, stored : BOOLEAN, written : Nat, exit : ExitCodes]

-----------------------------------------------------------------------------
(* What the request and the core report make applicable. *)

Tasks == (IF request.bundle THEN <<"bundle">> ELSE <<>>) \o request.inputs
Asked == {Tasks[i] : i \in DOMAIN Tasks}

\* eligible_primary_addresses: public addresses among those DNS resolved.
Eligible == report.dns.addresses /\ request.public

Joined == {s \in Passive : /\ request.selected
                           /\ s = "certificate_transparency" => target = "hostname"
                           /\ s = "related_domains" => request.related}

Applicable == IF ~request.selected THEN {}
              ELSE Asked \cup (IF Eligible THEN Routing ELSE {}) \cup Joined

(* The report's intelligence, status and skipped checks. *)

\* Where the code looks whether the check is there, and where it does not.
ListOnce(l, checks) == [c \in Listable |-> IF c \in checks /\ l[c] = 0 THEN 1 ELSE l[c]]
ListAgain(l, checks) == [c \in Listable |-> IF c \in checks THEN l[c] + 1 ELSE l[c]]

\* Definitions ending in _Bug are plausible mistakes, as in ScanLifecycle.
MarkPartial_Bug(status) ==   \* only a scan without an outcome is marked
    IF status = "not_started" THEN "partial" ELSE status

\* mark_intelligence_partial, and its twins for registrations and routes.
MarkPartial(status) == IF status = "completed" THEN "partial" ELSE status

\* mark_intelligence_stopped
MarkStopped(status) ==
    IF cancelled THEN "interrupted" ELSE IF status = "interrupted" THEN status ELSE "partial"

SetStatus(status) == report' = [report EXCEPT !.status = status]

Exit(code) == /\ result' = [result EXCEPT !.exit = code]
              /\ step' = "ended"

-----------------------------------------------------------------------------

Idle == [left |-> <<>>, awaiting |-> FALSE, got |-> {}, failed |-> {}]
Unanswered == [s \in Passive |-> "none"]

CommandInit ==
    /\ Init
    /\ request \in Requests /\ target = request.target /\ selection = request.active
    /\ step = "validate"
    /\ collection = Idle /\ answers = Unanswered
    /\ intelligence = [present |-> FALSE, complete |-> TRUE, evidence |-> {}]
    /\ listed = [c \in Listable |-> 0] /\ full = {}
    /\ result = [high |-> FALSE, stored |-> FALSE, written |-> 0, exit |-> "running"]

Validate ==
    /\ step = "validate"
    /\ IF request.valid /\ target # "conflict"
       THEN step' = "scan" /\ UNCHANGED result
       ELSE Exit("invalid")
    /\ UNCHANGED <<vars, request, collection, answers, intelligence, listed, full>>

CoreScan == /\ step = "scan" /\ (DnsStep \/ ActiveStep)
            /\ UNCHANGED command

\* The collection is over; what it had observed is remembered as history.
Close == /\ collection' = [Idle EXCEPT !.got = collection.got]
         /\ step' = "registration"

\* The supplied inputs are collected under a biased select!: the token, looked at
\* whenever the collection waits, drops it with all it observed.
Drop == /\ SetStatus(MarkStopped(report.status))
        /\ listed' = ListOnce(listed, Asked)
        /\ Close
        /\ UNCHANGED <<intelligence, full>>

Launch ==
    /\ step = "scan" /\ pc = "returned"
    /\ \/ /\ ~request.selected /\ step' = "passive"
          /\ UNCHANGED <<report, collection, intelligence, listed, full>>
       \/ /\ request.selected /\ Asked = {} /\ step' = "registration"
          /\ UNCHANGED <<report, collection, intelligence, listed, full>>
       \/ request.selected /\ Asked # {} /\ cancelled /\ Drop
       \/ /\ request.selected /\ Asked # {} /\ ~cancelled /\ step' = "supplied"
          /\ collection' = [collection EXCEPT !.left = Tasks, !.awaiting = request.bundle]
          /\ UNCHANGED <<report, intelligence, listed, full>>
    /\ UNCHANGED <<core, request, answers, result>>

\* analyze_intelligence returns; it correlates the bundle only when all else is complete.
Deliver(whole) ==
    LET missing == collection.failed \cup {collection.left[i] : i \in DOMAIN collection.left}
                                     \cup (IF whole THEN {} ELSE {"bundle"})
    IN  /\ SetStatus(IF whole THEN report.status ELSE MarkPartial(report.status))
        /\ intelligence' = [present |-> TRUE, complete |-> whole,
                            evidence |-> collection.got \cup
                                         (IF whole THEN Asked \cap {"bundle"} ELSE {})]
        /\ full' = full \cup (Asked \ missing)
        /\ Close
        /\ UNCHANGED listed

\* The awaited input is observed, completely or not; a bundle that was read is parsed.
Observed(input, succeeds) ==
    /\ input = "bundle" => succeeds
    /\ collection' = [left |-> Tail(collection.left), awaiting |-> FALSE,
                      got |-> collection.got \cup ({input} \ {"bundle"}),
                      failed |-> IF succeeds THEN collection.failed
                                 ELSE collection.failed \cup {input}]
    /\ UNCHANGED <<report, step, intelligence, listed, full>>

\* One disjunct per point of analyze_intelligence.  Its inputs have a timer of their own
\* for the deadline, asked before the outer one; reading the bundle has not.
Observe ==
    /\ step = "supplied"
    /\ \/ collection.awaiting /\ cancelled /\ Drop
       \/ /\ collection.awaiting /\ ~cancelled
          /\ \/ expired /\ (IF Head(collection.left) = "bundle" THEN Drop ELSE Deliver(FALSE))
             \/ \E succeeds \in BOOLEAN : Observed(Head(collection.left), succeeds)
       \/ /\ ~collection.awaiting /\ target = "hostname"
          /\ \/ collection.left = <<>> /\ Deliver(collection.failed = {})
             \/ collection.left # <<>> /\ (cancelled \/ expired) /\ Deliver(FALSE)
             \/ /\ collection.left # <<>> /\ ~cancelled /\ ~expired   \* validate it and ask
                /\ collection' = [collection EXCEPT !.awaiting = TRUE]
                /\ UNCHANGED <<report, step, intelligence, listed, full>>
    /\ UNCHANGED <<core, request, answers, result>>

\* The command ends with an error, and the core report with it: the bundle is
\* unreadable, the target has no hostname, there are too many inputs, or the next
\* one is malformed.
Refuse ==
    /\ step = "supplied"
    /\ \/ collection.awaiting /\ Head(collection.left) = "bundle" /\ ~cancelled
       \/ ~collection.awaiting /\ target = "address"
       \/ /\ ~collection.awaiting /\ target = "hostname" /\ collection.left # <<>>
          /\ collection.got = {} \/ (~cancelled /\ ~expired)
    /\ Exit("invalid")
    /\ UNCHANGED <<vars, request, collection, answers, intelligence, listed, full>>

Finished_Bug(source, observed, flawless) ==   \* the deadline is not looked at
    LET whole == flawless /\ ~cancelled
    IN  /\ intelligence' = [present |-> TRUE, complete |-> intelligence.complete /\ whole,
                            evidence |-> intelligence.evidence \cup
                                         (IF observed THEN {source} ELSE {})]
        /\ SetStatus(IF cancelled /\ report.status # "failed" THEN "interrupted"
                     ELSE IF whole THEN report.status ELSE MarkPartial(report.status))
        /\ listed' = IF whole THEN listed ELSE ListOnce(listed, {source})
        /\ full' = IF whole /\ ~expired THEN full \cup {source} ELSE full

\* finish_network_registrations, finish_bgp_routes
Finished(source, observed, flawless) ==
    LET whole == flawless /\ ~cancelled /\ ~expired
    IN  /\ intelligence' = [present |-> TRUE, complete |-> intelligence.complete /\ whole,
                            evidence |-> intelligence.evidence \cup
                                         (IF observed THEN {source} ELSE {})]
        /\ SetStatus(IF cancelled /\ report.status # "failed" THEN "interrupted"
                     ELSE IF whole THEN report.status ELSE MarkPartial(report.status))
        /\ listed' = IF whole THEN listed ELSE ListOnce(listed, {source})
        /\ full' = IF whole THEN full \cup {source} ELSE full

\* Every request looks at the token first and then at the deadline; a stop after the
\* last answer is one after this step.  Each address leaves an observation or a failure.
Look(here, source, next) ==
    /\ step = here
    /\ IF Eligible
       THEN \E observed, flawless \in BOOLEAN :
               /\ observed \/ ~flawless \/ cancelled \/ expired
               /\ Finished(source, observed, flawless)
       ELSE /\ listed' = ListOnce(listed, {source})
            /\ UNCHANGED <<report, intelligence, full>>
    /\ step' = next
    /\ UNCHANGED <<core, request, collection, answers, result>>

Registration == Look("registration", "network_registration", "bgp")
Routes == Look("bgp", "bgp_origin", "passive")

Answers_Bug(s) ==   \* a stopped source never answers
    IF cancelled \/ expired THEN {} ELSE {"full", "incomplete", "error"}

\* How a passive source may end.  After a stop no request or verification succeeds.
Answers(s) ==
    IF s = "related_domains" /\ (target = "address" \/ ~report.dns.present) THEN {"error"}
    ELSE IF cancelled \/ expired THEN {"incomplete", "error"}
    ELSE {"full", "incomplete", "error"}

\* Certificate Transparency and related domains are joined: each answers in its time.
Answer ==
    /\ step = "passive"
    /\ \E s \in Joined :
          /\ answers[s] = "none"
          /\ \E answer \in Answers(s) : answers' = [answers EXCEPT ![s] = answer]
    /\ UNCHANGED <<vars, request, step, collection, intelligence, listed, full, result>>

NotRun_Bug ==   \* a supplied check without an observation was not run
    IF request.selected THEN (Supplied \ intelligence.evidence) \cup (Passive \ Joined)
    ELSE {"intelligence"}

\* record_intelligence_skips, after the check of the hostname
NotRun == IF request.selected THEN (Supplied \ Asked) \cup (Passive \ Joined)
          ELSE {"intelligence"}

Overruled_Bug(status) ==   \* the intelligence alone decides
    IF cancelled THEN "interrupted" ELSE IF intelligence.complete THEN "completed" ELSE "partial"

\* After all intelligence a cancellation overrules every other status.
Overruled(status) == IF cancelled THEN "interrupted" ELSE status

Conclude ==
    /\ step = "passive" /\ \A s \in Joined : answers[s] # "none"
    /\ LET errors == {s \in Joined : answers[s] = "error"}
           whole == \A s \in Joined : answers[s] = "full"
       IN  /\ intelligence' = IF Joined = {} THEN intelligence
                              ELSE [present |-> TRUE, complete |-> intelligence.complete /\ whole,
                                    evidence |-> intelligence.evidence \cup (Joined \ errors)]
           /\ SetStatus(Overruled(IF whole THEN report.status ELSE MarkPartial(report.status)))
           /\ listed' = ListAgain(ListOnce(listed, errors), NotRun)
    /\ full' = full \cup {s \in Joined : answers[s] = "full"}
    /\ step' = "finalize" /\ answers' = Unanswered
    /\ UNCHANGED <<core, request, collection, result>>

-----------------------------------------------------------------------------
(* finalize_report, now with the skipped intelligence checks; then what becomes *)
(* of the report.                                                               *)

ScoreIncomplete == Incomplete(report) \/ \E c \in Listable : listed[c] # 0

ScoreAll ==
    /\ pc = "score"
    /\ report' = [report EXCEPT !.score = IF ScoreIncomplete THEN "incomplete" ELSE "complete"]
    /\ \E high \in BOOLEAN : /\ high => HasObservations(report)
                             /\ result' = [result EXCEPT !.high = high]
    /\ Goto("recheck")
    /\ UNCHANGED <<environment, authority, work>>

FinalizeReport ==
    /\ step = "finalize" /\ pc # "done"
    /\ \/ (Finalize \/ Recheck) /\ UNCHANGED result
       \/ ScoreAll
    /\ UNCHANGED <<request, step, collection, answers, intelligence, listed, full>>

Persist_Bug ==   \* a failure to store is only reported
    /\ step = "finalize" /\ pc = "done"
    /\ \E stored \in BOOLEAN : result' = [result EXCEPT !.stored = stored]
    /\ step' = "write"
    /\ UNCHANGED <<vars, request, collection, answers, intelligence, listed, full>>

Persist ==
    /\ step = "finalize" /\ pc = "done"
    /\ \/ request.persist = "no" /\ step' = "write" /\ UNCHANGED result
       \/ request.persist = "nowhere" /\ Exit("invalid")
       \/ request.persist = "database" /\ Exit("failed")
       \/ /\ request.persist = "database" /\ step' = "write"
          /\ result' = [result EXCEPT !.stored = TRUE]
    /\ UNCHANGED <<vars, request, collection, answers, intelligence, listed, full>>

\* Without --output, one report of a fresh name.
Files == IF request.outputs = 0 THEN 1 ELSE request.outputs

\* report_exit_error
ExitCode == IF report.status # "completed" THEN "failed"
            ELSE IF result.high THEN "high" ELSE "success"

\* All outputs are rendered before the first is written; they are written in order.
Write ==
    /\ step = "write"
    /\ \/ /\ result.written < Files /\ UNCHANGED step
          /\ result' = [result EXCEPT !.written = @ + 1]
       \/ result.written < Files /\ Exit("failed")
       \/ result.written = Files /\ Exit(ExitCode)
    /\ UNCHANGED <<vars, request, collection, answers, intelligence, listed, full>>

\* The signal task lives from the validation to the end of finalize_report.
Signal == /\ step \notin {"validate", "write", "ended"} /\ pc # "done"
          /\ Cancel \/ Expire
          /\ UNCHANGED command

Work == \/ Validate \/ CoreScan \/ Launch \/ Observe \/ Refuse \/ Registration \/ Routes
        \/ Answer \/ Conclude \/ FinalizeReport \/ Persist \/ Write

CommandNext == Work \/ Signal

\* Every request of an intelligence source has a timeout of its own, as the scan's have.
CommandSpec == CommandInit /\ [][CommandNext]_commandVars /\ WF_commandVars(Work)

\* The command as the operator sees it: nothing is promised of the status before all
\* intelligence has ended, and then what a scan promises its caller.
OperatorsContract == INSTANCE ScanContract WITH
    accepted <- target # "conflict",
    phase <- IF report.completed THEN "committed" ELSE IF step = "finalize" THEN "ended" ELSE "running",
    outcome <- IF report.completed \/ step = "finalize" THEN report.status ELSE "not_started"

-----------------------------------------------------------------------------
(* What the command may claim. *)

\* A completed report, intelligence included, left nothing out: the core did all its
\* work, and so did every source that the request and the observations made applicable.
CompletedIsWhole ==
    report.completed /\ report.status = "completed" =>
        Applicable \subseteq full /\ \A s \in {"dns"} \cup Scheduled : work[s] = "full"

\* report.intelligence calls itself complete only if every applicable source is,
\* although each source alone decides about it and a dropped collection leaves no trace.
CompleteIntelligenceIsWhole ==
    step \in {"finalize", "write"} /\ intelligence.present /\ intelligence.complete =>
        Applicable \subseteq full

\* Whatever source did not do all its work is accounted for: it is a skipped check,
\* or the intelligence that was collected calls itself incomplete.
NothingUnaccounted ==
    step \in {"finalize", "write"} =>
        IF request.selected
        THEN \A s \in Sources \ full :
                 listed[s] # 0 \/ (intelligence.present /\ ~intelligence.complete)
        ELSE listed["intelligence"] # 0

\* No check is listed twice, though five functions append to the list, two of them
\* without looking.
ListedOnce == \A c \in Listable : listed[c] <= 1

\* The list of skipped checks tells the whole story of the sources, each part once.
SkipsAreTold == NothingUnaccounted /\ ListedOnce

\* Exit code 0 or 2 means that a completed report is in every place that was asked for,
\* and 0 that it has no high-severity finding.  Input that is refused, before the scan
\* or as late as after it, leaves nothing stored or written.
ExitIsTruthful ==
    /\ result.exit \in {"success", "high"} =>
        /\ report.completed /\ report.status = "completed"
        /\ result.written = Files
        /\ result.stored <=> request.persist = "database"
        /\ result.exit = "high" <=> result.high
    /\ result.exit = "invalid" => ~result.stored /\ result.written = 0

\* The report is committed once all intelligence has ended (docs/adr/0001), with a
\* status that shows the stops asked for until then, whoever noticed them.
CommittedAtTheEnd ==
    [][/\ ~report.completed /\ report'.completed =>
              /\ step = "finalize"
              /\ cancelled => report'.status = "interrupted"
              /\ expired => report'.status # "completed"
       /\ report.completed => UNCHANGED <<report, intelligence, listed>>]_commandVars

\* No step of the command makes a stopped scan look better; a cancelled one stays
\* interrupted through everything that edits the status after the core.
CommandNoRecovery ==
    [][/\ report.status = "interrupted" => report'.status = "interrupted"
       /\ report.status \in {"partial", "failed"} => report'.status # "completed"]_commandVars

\* The command keeps the steps of the scan's contract over a report that intelligence
\* has edited: after it a status is only amended by a stop, never for the better, and
\* committed once.  It may be refused instead, which ScanContract!Spec rules out.
CommandKeepsContract == OperatorsContract!Steps

\* The command always ends.
CommandEnds == <>(step = "ended")

-----------------------------------------------------------------------------
(* The inductive invariant. *)

\* The command's position and the core's agree; nothing is stored, written or
\* answered before its time.
Placed ==
    /\ step = "validate" => pc = "start"
    /\ step = "scan" => pc \notin {"score", "recheck", "done"}
    /\ step \in {"supplied", "registration", "bgp", "passive"} => pc = "returned"
    /\ step = "finalize" => Returned
    /\ step = "write" => pc = "done"
    /\ step # "ended" => result.exit = "running"
    /\ step \notin {"write", "ended"} => ~result.stored /\ result.written = 0
    /\ step = "write" => (result.stored <=> request.persist = "database")
    /\ step # "passive" => answers = Unanswered
    /\ collection.awaiting => collection.left # <<>>
    /\ step \in {"validate", "scan", "supplied"} => ~intelligence.present
    /\ step \in {"supplied", "registration", "bgp"} => request.selected

\* The turn of a source is over; a completed report is not left by any.
TurnOver(s) ==
    report.completed \/ step \in
       (CASE s \in Supplied -> {"registration", "bgp", "passive", "finalize", "write"}
          [] s = "network_registration" -> {"bgp", "passive", "finalize", "write"}
          [] s = "bgp_origin" -> {"passive", "finalize", "write"}
          [] OTHER -> {"finalize", "write"})

Incompletely == intelligence.present /\ ~intelligence.complete

\* What is known of a source once its turn is over.
Known(s) ==
    /\ report.status = "completed" /\ s \in Applicable => s \in full
    /\ s \notin Supplied \ Asked => s \in full \/ listed[s] # 0 \/ Incompletely

Settled == request.selected => \A s \in Sources : TurnOver(s) => Known(s)

\* Why intelligence that looks complete is, although a dropped collection leaves no
\* trace in it: after the stop that dropped it nothing is complete any more.
CompleteSoFar ==
    request.selected =>
        /\ step \in {"registration", "bgp", "passive"} =>
              \/ Asked \subseteq full \/ Incompletely
              \/ /\ ~intelligence.present /\ (cancelled \/ expired)
                 /\ \A s \in Passive : answers[s] # "full"
        /\ step \in {"bgp", "passive"} /\ Eligible =>
              "network_registration" \in full \/ Incompletely
        /\ step = "passive" /\ Eligible => "bgp_origin" \in full \/ Incompletely

\* A check that will be listed without looking is not there yet.
ListedInTurn ==
    \A c \in NotRun : IF step \in {"finalize", "write"} THEN listed[c] # 0
                                                        ELSE step = "ended" \/ listed[c] = 0

CommandIInv ==
    /\ CommandTypeOK /\ IInv /\ Placed /\ Settled /\ CompleteSoFar /\ ListedInTurn
    /\ CompleteIntelligenceIsWhole /\ ListedOnce /\ ExitIsTruthful

=============================================================================
