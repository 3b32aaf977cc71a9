# Verification of Surface

Surface is a command line scanner: it resolves one target, probes its ports,
services, web servers and certificates within one deadline, turns the
observations into a versioned report, and optionally keeps reports in a local
SQLite history. This directory holds TLA+ models of its core, the TLC
configurations that check them and the TLAPS proofs about them. Source paths
below are relative to the repository; `core` is `crates/surface-core/src`.

    tlc -workers 2 -config MCScanLifecycle.cfg MCScanLifecycle.tla
    tlapm ScanProofs.tla

## The system

| Part | State it keeps | Operations | Interacts with |
|---|---|---|---|
| Scan orchestration (`core/engine.rs`) | the report being built, a cancellation token, an absolute deadline | `run_scan_inner`: preflight, DNS baseline, DNSSEC, AXFR, wildcard, dangling CNAME, ports, services, SSH, HTTP, TLS | awaits the analyzers one stage at a time; gives each active stage a child token that the deadline also cancels; progress callbacks of the caller run between its steps |
| Lifecycle (`core/lifecycle.rs`) | status, errors, skipped checks, score, completion time of the report | `add_skipped_check`, `terminate`, `settle`, `finalize` | called by the orchestrator and by the CLI |
| Score (`core/exposure.rs`) | none | `calculate_exposure` | reads status and skipped checks of the moment |
| DNS (`core/dns.rs`) | none between calls | baseline, DNSSEC, zone transfer, wildcard, dangling CNAME | reads token and deadline; returns an observation and a check state |
| Active stages (`core/engine.rs`, `scanner.rs`, `service.rs`) | per stage a pool of probes, a child token, a deadline task | connects, UDP probes, banners; candidates of the later stages | each probe races its stage's token; the engine looks at both stops after a stage |
| Protocol probes (`ssh.rs`, `http.rs`, `tls.rs`) | a connection and what was read from it | one look at one endpoint | peers that send what they like |
| Findings (`core/findings.rs`) | none | `generate_findings`, 22 rules | reads the whole report |
| Intelligence (`core/intelligence.rs`, `intelligence/http.rs`) | a client per host, pinned to public addresses | RDAP, BGP, Certificate Transparency, related domains, supplied names, selectors and bundles | called by the CLI under the same token and deadline |
| CLI (`crates/surface-cli`) | the report, the Ctrl-C task | scan, history, database, diff, report | composes everything; maps status to an exit code |
| History (`crates/surface-storage/src/lib.rs`) | SQLite tables: migrations, scans, findings, audit events | open and migrate, persist, report, history, delete, prune | one connection per process, several processes per file |
| Backup (`crates/surface-storage/src/backup.rs`) | database files and their temporary siblings | backup, verify, restore | the file system, other processes on the database |
| Reports (`crates/surface-report`) | none | render, export, diff, sign, verify | pure |

What is hard here: a cancellation or the deadline may arrive between any two
steps and is looked at in many places, each of which edits the same report; a
stage that was cut short must not pass for one that found nothing; a peer decides
what comes back, in which pieces, and when it stops; every source decides alone whether
it is complete; the report is finalized by whoever calls, perhaps twice; several
processes migrate, write and prune one database, and any of them may die anywhere.

What makes each part correct:

- lifecycle and orchestration: the report's status, errors, skipped checks and
  score tell the truth about the work that was done, and stay final once
  committed;
- active stages: no stage builds on work that was cut, and a limit is never met in silence;
- protocol probes and DNS: reading is bounded, a verdict is as firm as the answers it
  stands on, evidence is one story, and every exchange ends;
- intelligence: what is called complete has an answer for everything, evidence is the
  target's own, partial results are kept, no request leads to a private destination;
- findings and score: the order of arrival does not matter, and seeing more never makes
  the target look better;
- history: what is stored, deleted and audited agree under every interleaving
  and crash; retention deletes only what its policy covers;
- backup: at every moment a complete database is under some known name.

## Modules

| Module | What it is |
|---|---|
| `ScanLifecycle` | engine and lifecycle of one scan; the properties; the inductive invariant |
| `ScanContract` | what a scan promises its caller, without its stages |
| `ActiveStages` | ports, services, SSH, HTTP and TLS of one scan, probe by probe |
| `StageContract` | what those stages promise the scan |
| `ActiveStagesProofs` | proofs about `ActiveStages`, the steps of `StageContract` included |
| `SshExchange`, `HttpInspection`, `TlsInspection` | one look at one endpoint, by protocol |
| `Probes` | any of the three, and the properties they share |
| `ProbeProofs` | proofs about `Probes` |
| `ZoneTransfer`, `NameChecks`, `DnsBaseline` | the zone transfer; DNSSEC, wildcard and dangling CNAME; the lookups every scan begins with |
| `DnsAnalysis`, `DnsLimits` | any of the three, and the limits they share |
| `DnsProofs` | proofs about `DnsAnalysis` |
| `SourceFetch` | clients, destinations and bounded reading of every intelligence source |
| `NetworkLookups`, `CertificateLog`, `RelatedDomains`, `SuppliedInputs` | RDAP and BGP; Certificate Transparency; related domains; supplied names, selectors and bundles |
| `Sources` | any of the four, and the properties they share |
| `SourceProofs` | proofs about `Sources` |
| `Assessment` | the findings rules and the score |
| `AssessmentProofs` | proofs about `Assessment` |
| `ScanCommand` | `surface scan`: the core scan extended by intelligence, finalization, storing, outputs, exit code |
| `ScanProofs` | proofs about `ScanLifecycle`, the steps of `ScanContract` included, and about `ScanCommand` on top of them |
| `History` | the scan history used by several processes |
| `HistoryLedger` | what the history promises: each scan stored once, deleted at most once, audited with its deletion |
| `HistoryProofs` | proofs about `History`, the implementation of `HistoryLedger` included |
| `Recovery` | the files of a backup and of a restore, with failures and crashes |
| `RecoveryProofs` | proofs about `Recovery` |
| `MC*` | the instance of each for TLC |

How they fit: `ScanCommand` extends `ScanLifecycle` and runs it whole. `ActiveStages` is the
part of `ScanLifecycle` between its first `Gate` and its last `Check` in detail, and
`StageContract` the bridge: it is what `Run` assumes of a stage, that it does all its
work, or is cut while a stop is there. `Probes` is one step of a pool of `ActiveStages`, `DnsAnalysis`
what the DNS actions of `ScanLifecycle` choose from, `Sources` what the answers of
`ScanCommand` stand for, `Assessment` what `Score` computes.

Definitions whose names end in `_Bug` show what a plausible mistake would make of
the definition after them. No specification uses them; putting one in the place of the
original makes TLC report the property it was written for, which shows that the
property depends on that code.

### ScanLifecycle

`pc` and `stage` are the position in `run_scan_inner` and `finalize`; `report` is
the `ScanReport`, reduced to what the properties tell apart:

- `errors` is the sequence of errors with stage, kind and recoverability;
- `skipped` is a function from checks to the reason recorded for each, because
  `add_skipped_check` keeps one entry, the first, per check;
- `dns` is the DNS observation: present or not, whether it has addresses and
  CNAMEs, and the verdict of each check;
- `found` is the set of active stages with observations, `score` whether a score
  was computed and calls itself incomplete, `completed` is `completed_at`.

`work` is a history variable: whether a stage did all its work or was cut. The
report does not contain it; most properties say that the report agrees with it.
`authority` is the evidence the baseline hands to the AXFR check.

One action is one piece of `run_scan_inner` between two points where the token
or the clock is read: a gate before an active stage (`Gate`), the stage (`Run`),
the checks after it (`Check`), each DNS check, `Finish`, and the three parts of
`finalize` (`Finalize`, `Score`, `Recheck`). `Cancel` and `Expire` are the operator
and the clock, enabled at any time. Where the code uses a biased `select!`, the
token wins over an answer and an answer may win over the deadline; where it uses
`finish_selected_report` only the token is asked. What the network answers is
chosen by existential quantification. After `done` a caller may finalize again.

Two abstractions deserve a note. A step reads the token and the clock once. Where
the code reads them twice without an await in between, an arrival between the two
reads is the same as an arrival after the second. And HTTP, TLS, services and
ports share `Gate`, `Run` and `Check`, since the code repeats the same lines for
each; `Proceed` is the order in which it does.

### ScanCommand

Extends `ScanLifecycle` with `run_scan_command`: the same report, token and deadline, a
command line (`request`) and the position in the command (`step`). `CoreScan` is any
step of the core up to `returned`; `FinalizeReport` is `finalize` again, with the skipped
intelligence checks in the score. In between, `Launch`, `Observe` and `Refuse` are the
supplied inputs, `Registration` and `Routes` the two lookups by address, `Answer` and
`Conclude` the two joined sources; then come `Persist` and `Write`.

- `collection` is the future of `analyze_intelligence`. The command awaits it under
  a biased `select!` with the token, so it is a task that can be dropped at every await:
  `Drop` forgets it, `Deliver` takes its result. Reading the bundle is awaited without
  a timer of its own, the inputs have one.
- `intelligence` is `report.intelligence`: present, complete, and which sources left
  evidence. `listed` counts the entries of each intelligence check in `skipped_checks`,
  because some places append without looking. The bundle's two checks are always
  listed together and are one here.
- `full` is a history variable: the sources that did all their work.
- `Signal` is Ctrl-C's task and the clock, from the validation until `finalize` has
  returned; afterwards neither is looked at.

What a source answers is chosen, except that no request succeeds after a stop, which
each request asks for first (`intelligence/http.rs`). How often Certificate
Transparency asks, and what makes an answer incomplete, is left to `Answers`.

### History

A process is `idle`, has opened the file, looks for the next migration
(`migrate`, `apply`), is `ready` for its one command, or has selected
candidates (`prune`). `applied`, `scans` and `audit` are the tables; `persisted` is a
history variable with every scan ever stored. Scans are numbered in the order
`(started_at, scan_id)` that the retention query uses, so a cutoff is a number.

A transaction is one step. All of them begin with a write, so SQLite's write
lock is held from their first statement to the commit, and errors and crashes
roll back. `Stop` is any of those, at any point, and also the end of the reading
commands. A `prune` is two steps because its query is outside of its
transaction. `Apply` fails when another process applied the same migration after
it was looked for: `CREATE TABLE` finds the table.

### Recovery

`database`, `archive` and `strays` are the file under the database's name, the backup
file, and former databases left under hidden names; `temporary` and `previous` are
a command's own hidden siblings, with fresh names, so that no one else sees them
and steps that only touch them are joined to the next visible one. A file is a
kind and the rows it holds. `owed` and `replaced` are history variables: the rows
ever in the database, and those a successful restore replaced.

`Restore`, `Aside`, `Install`, `Validate`, `Reject` and `Discard` are the pieces of
`restore_database` between two renames; `Backup`, `Copy` and `Publish` are those of
`backup_database`. `Use` and `Store` are any other command: it opens and migrates, and
it commits a row. `Stop` is an operation that fails where the code returns the error
at once, and a process that dies, at any point; a failure that the code undoes is a
disjunct of `Install` or `Reject`. As `SECURITY.md` asks, a restore begins only when
no other process uses the database, and none begins during it; backups and
stores interleave freely.

SQLite itself is external and modelled as its documentation has it: a process that
dies while it commits leaves a torn file and a hot journal beside it (`Tear`), and
`Opened` says what the next connection makes of the two. Connections that only
read cannot roll back, so `Validate` fails beside a hot journal. `Tears` switches this
off for the run and the theorem that need it.

### ActiveStages and StageContract

`at` is the current stage and where the engine is in it, `pool` the attempts not started
and those in flight, `fired` whether the deadline task of the stage has cancelled its
child token. `Gate` and `Check` are the engine's lines before and after a stage, `Start`
and `Finish` one place of `buffer_unordered`; ports are probed in two lanes, TCP and
UDP, each of half the concurrency rounded up. `Connect`, `Probe`, `InspectSsh` and
`Inspect` are what one task may leave behind: the selects of the scanner and of HTTP are not biased, so an
answer may win over a token; SSH and TLS ask the token first; SSH looks at the caller's
deadline itself and has no deadline task. `Collect` adds the services that are hinted at
without a probe, `Candidates` is what the next stage looks at. `classify_error` and
`hinted_service` are tables of the source.

The refinement maps a stage to `waiting`, `running`, `full` or `cut`; only the first
may be followed by another stage. `PassedIsWhole` says the same of the endpoints.

### Protocol probes

`SshExchange`: `ReadByte` is one byte of the identification, told apart by what the reader
tells apart (does it continue `SSH-`, is it CR, LF, a control byte), then `ReadLength`,
`ReadPacket` and `Parse` are the server's KEXINIT with any length, padding and lists.
`Cut` is the timeout, the deadline or the token dropping the exchange. `HttpInspection`: `Get`,
`Follow` and `Settled` are the redirect loop, `Chunk` is a part of the body, `EndBody` the server's
end of it and `FailBody` a reset or a client timeout in the middle; `body.failed` is a history field, which
remembers the latter because the observation does not. `check_path` asks for the
three well-known paths; a URL is an origin and a path. `TlsInspection`: the verifier callback records the
chain (`Record`) before its delegate judges it (`Verdict`), and a handshake that fails takes
the record (`Failed`); `Fit` is how many certificates the limits let in. Header and cookie
parsing, X.509 and the cryptography are data: what a server may present is a constant.

### DNS

`ZoneTransfer`: the evidence of the zone (one SOA, NS records, addresses, each within its
limit), then one attempt per endpoint, frame by frame (`ReadMessage`), with the counters
checked before a frame is taken, and the short wait after the closing SOA (`DrainSilence`,
`DrainFrame`). `NameChecks`: one lookup after the other, each with both stops before and
during it (`Ask`, `Lookup`), and the verdict operators of the source. `DnsBaseline`: the seven
types and three special names, the record limit, `ordered_cname_chain` and the
observation. A name server or resolver may answer anything of the constants. The probe's
limit on bytes is left out beside its limit on records.

What the source collects in loops and ordered maps is stated as sets, which is also what
the proofs speak of: a record answered is its place in `answered`, so that two equal ones are
two; the first few of an ordered map are those with fewer than the limit ahead of them;
records and bytes of a transfer are the `Places` and `Octets` of the frames taken; the walk
along the aliases is a function on the number of hops allowed.

### Sources

`SourceFetch` is the client: `ClientFor` resolves a host once, `validated_destinations`
refuses it when one address is not public, `get_bounded` limits a body, `Failures` are the
errors a wait may end with, where the select is biased to the token. On top of it
`NetworkLookups` has the bootstrap of each family, the registry of the longest prefix, and
the pool of requests of which one stop ends all (`Respond`); `CertificateLog` the pages
(`PageRead`, `PageFails`) and the pool of verifications whose results come in any order
(`Answer`, `Verified`); `RelatedDomains` the two joined requests; `SuppliedInputs` the loops over
names and selectors and the correlation of a bundle. `ending` is the scan's token and
deadline. Addresses have `Width` bits, so that prefixes are arithmetic.

### Assessment

An action is one observation that arrives; `generate_findings` and `calculate_exposure` are
operators over all that arrived. Each rule is an operator over one observation, in the
order in which the source evaluates them. What the source pushes into a vector is a function on
places: a place is the loop of `generate_findings` that pushes (`Loops`, `Pushed`), the observation it has
come to, and which of its pushes for that observation it is. `Retained` are the places that the
de-duplication keeps, and `Sorted` is the stable sort by `SortKey`, in which a finding comes
after as many as go before it. The score counts the points of the deductions one by one. The order of
names, addresses and texts is that of the numbers that stand for them.
The observations of the instance meet every rule and most of them meet two.

## Runs

| Run | Question | Bounds | States |
|---|---|---|---|
| `scan` | what the report of a scan says is what happened, and the scan implements `ScanContract`, liveness included | all 3 target kinds, all 8 selections, DNS errors none or two of different kinds; no other bound, the state space is finite | 411k |
| `stopped_score` | documented: a scan that is not completed has an incomplete score | as `scan`; violated | |
| `command` | the report after intelligence, the skipped checks, the exit code, and that the command ends | 17 command lines: every combination of supplied inputs that the code treats apart, 0 to 2 outputs, each way to store, DNS-only and port scans, no DNS errors | 743k |
| `stages` | limits, whole stages, and `StageContract` | 3 TCP endpoints (SSH, HTTPS, HTTP ports) and one UDP, service limit 2, concurrency 3, one kind of I/O error | 51k |
| `probes` | bounded reading, earned postures and evidence, one story, an end | lines of 10 bytes, 2 lines before the banner, all limits of the packet as in the source, 2 redirects over 3 origins, 3 bytes of body, 2 certificates of 3 bytes | 58k |
| `dns` | bounded transfers, earned verdicts, a baseline that tells, an end | 2 name servers, 2 addresses, 2 messages, 3 bytes, 3 records; 13 kinds of answers; chains of 3 hops | 571k |
| `identical_is_detected` | documented: two identical non-empty answers are a detected wildcard | as `dns`; violated | |
| `sources` | bounds and destinations, completeness, provenance, nothing undone, an end | addresses of 4 bits, 3 lookup addresses 2 at a time, 3 pages, 3 candidates 2 at a time, 2 supplied names and selectors | 122k |
| `assessment` | findings and score do not depend on the order, and only worsen | every sequence of up to 3 of 16 observations, compared with every other order of them | 3.4k |
| `history` | audit trail, migrations, pruning, the ledger | 2 processes, 4 scans of 2 targets, one with high findings, 2 migrations, 6 policies | 27k |
| `recovery` | backups and restores under failures and crashes | 2 processes, 3 rows, torn commits | 135k |
| `torn_restore` | documented: the current database is preserved until the restored one is valid | as `recovery`; violated | |

Several properties are conjunctions of named parts, each a statement of its own:
`AccountsForItself`, `NothingIsTakenBack`, `SkipsAreTold`, `AuditIsTrue`, `KnownSchemaOnly`,
`LimitsAreKept`, and those of `Probes`, `DnsAnalysis` and `Sources`, where a part belongs to
the module of the exchange it is about.

Why the bounds are enough: a scan is one sequential task, and the two batches of
DNS errors distinguish no error from errors, and an error of the deadline's own
kind from another one, which is all that the lifecycle looks at. The command's instance varies a request where its
part of the command is at stake; intelligence sees of the core only the status and the
addresses, which a DNS-only core already gives in every combination, so the stages
and the batches of errors that `scan` covers are not repeated. In the stages three TCP
endpoints let one lie beyond the service limit while two compete for a pool, and the
UDP endpoint takes the other lane; the ports chosen give every kind of candidate.
Limits that a loop counts up to are small enough to be met, passed by one and met
in the same step as an end: a line before the banner, a page, a frame, a chunk, a
candidate, a certificate. Limits that are only compared (the packet's length, the name
lists) keep the source's values, and the instance has the values on both sides. The
parts of `Probes`, `DnsAnalysis` and `Sources` never run at the same time on shared state
that one writes and another reads, except the stops, so that an instance runs one of
them at a time. In the history
every property speaks of one prune and its interference: two processes give every
pair of operations in every order, three scans of one target let two of them be
beyond `keep_last = 1`, a fourth tells targets apart, and two migrations let a
process stop or be overtaken between them. In the recovery model three rows let the
database, the backup and a former database differ; processes and rows are
interchangeable, so the runs use their symmetry. The theorems below do not depend on
these bounds.

Deadlock is checked for `scan`, `history` and `recovery`: a scan may be finalized again
and a process may always open the database again. It is not for the others, whose system
ends: the command exits, the stages settle, a probe, a DNS check and a source return, and no more
observations arrive.

### Where documentation and code differ

With a run that shows it:

- `stopped_score`: `finalize` scores first and looks at the token and the clock
  again afterwards. A stop in between gives an interrupted or partial report
  whose score has `incomplete` false, although `docs/scoring.md` says such scans
  set it to true.
- `torn_restore`: the rename does not take the rollback journal along. After a
  crash in the middle of a commit, a restore that stops half-way keeps a former
  database that nobody can repair, although `docs/database-schema.md` says that it
  is preserved until the replacement passes validation.
- `identical_is_detected`: a lookup that adds no new record makes a wildcard probe
  inconclusive (`core/dns.rs:1480`). Under a wildcard CNAME a resolver's answers to A and AAAA hold the
  CNAME record already, so the CNAME lookup adds none and the verdict is
  indeterminate, although the type says that identical non-empty answers are detected.
  The test of a wildcard CNAME answers A without the CNAME.

Seen while modelling, without a run of their own:

- Without an address the scan ends early as partial, and the selected active stages are
  not in `skipped_checks` (`core/engine.rs:480`), although `docs/report-schema.md` says that
  checks lacking required inputs are.
- Ctrl-C while supplied subdomains and selectors are looked up drops the collection, and
  what it had observed is in no report (`crates/surface-cli/src/main.rs:462`), although the
  README says that Ctrl-C preserves partial observations. The deadline does preserve them. What does
  hold is `SkipsAreTold`: the report lists the dropped checks.
- A prune's candidate is not looked at again when it is deleted (`crates/surface-storage/src/lib.rs:384`).
  With `--keep-last 1`, a scan selected as second newest is deleted although the newest
  one was deleted in between, and the target is left with none; `docs/database-schema.md`
  says that every condition matches. What does hold is `PruneJustified`: the conditions
  matched when counted among all scans stored so far. In the same situation a candidate
  that another process deleted gets a second event.
- A body cut short by a reset or by the client's timeout leaves the loop like one that
  ended (`core/http.rs:270`): the observation has `body_truncated` false and no error, and a reader
  cannot tell the part from the whole. The field is documented to be about the retention limit only. What
  does hold is `BodyIsAccounted`: what is kept is what was received up to the limit, and
  `body_truncated` is set if and only if more was received.
- `backup_database` looks for its destination before it copies and then renames over it
  (`backup.rs:26`), although its documentation says that it fails if the destination exists.
- Both transports of the port stage get half the concurrency rounded up
  (`core/engine.rs:507`), so that `--concurrency 1` runs two probes when both are scanned.
- A TXT lookup that fails and one without an answer are the same to the DKIM check when
  the failure is inside `lookup_txt`, so that `complete` stays true.
- A restore that dies between its two renames leaves no database under its name, only
  the hidden one that `RestoreKeepsFormer` promises, and the next command makes an
  empty one.
- An unreadable bundle, malformed subdomains or selectors, and `--persist` without
  `--database` are found only after the scan (`Refuse`, `Persist`), whose report is then lost.

## Fairness

`ScanLifecycle` assumes weak fairness of the scan's own steps: each awaited
operation has a timeout of its own (request, connect or probe timeout) under the
runtime, so the task always takes its next step. The same holds of `ScanCommand`
(each intelligence request has a timeout), of the stages' `Work` (a pool polls its probes,
and each probe has a timeout), and of `ProbeWork`, `DnsWork` and `SourceWork`, where every read,
lookup, request and drain is inside a timeout. Nothing is assumed of `Cancel`, `Expire`, `Fire` and the like:
no stop has to come for a scan to end. A peer's bytes are not assumed to end either: that
reading does is what `ProbeEnds` checks, and it relies on the limits.
The properties of the history, of recovery and of the assessment are safety properties
and assume nothing.

## Proofs

All theorems hold for every value of the constants that satisfies the named
assumptions.

`ScanProofs` is in two parts. The first, about the core, assumes `ErrorBatchesAssumption`: DNS checks add recoverable
errors of the DNS stage, which are neither configuration errors nor
cancellations. It proves type correctness and then that `IInv` is inductive.
The properties are not inductive alone: that a completed report is earned needs
to know, at each stage, that the stages behind it are full (`Worked`), which
locations have no outcome yet (`Phased`), and that a check of a pending stage has
no reason recorded yet, so that the reason which stops the scan is the one that
stays (`SkipsInOrder`). The lemmas say first what each lifecycle operation leaves
alone and decides, then how a stop, a return and an advance to the next location
preserve the invariant; each action's lemma is a case of these. From `IInv` follow
`CompletedIsEarned`, `CutIsReported`, `FailedIsEmpty`, `CompleteScoreIsEarned`,
`CommittedIsFinal` and `NoRecovery`.

Two more results need invariants of their own. In every step of a scan the report
grows (errors are appended, reasons only filled in, observations added), and a step that makes it
interrupted adds exactly one cancellation (`Moves`); that is `NothingIsTakenBack`.
`AccountsForItself` needs `Accounted`: which checks nobody asked for yet
(`Unasked`), that a cancellation is told once (`CancelledOnce`), and what a scan rejected at preflight
has not done (`Rejected`).

`ContractTheorem` says that every step of a scan is a step of `ScanContract` or a stutter
(`Contract!Steps`, its specification without the fairness). The engine's return is the contract's
`End`, a stop its `Request`, the last part of `finalize` its `Commit`. The first part is where the match is not
obvious, as it settles a report that the engine settled: without a stop that is a stutter, since a completed
report is conclusive (`CompletedIsEarned`), and with one an `Amend`. When it commits at once, the target was
rejected (`RejectedAtPreflight`: only preflight's error keeps a report from being scored).

The second part, about the command, assumes `RequestsAssumption` (what a command line is made of)
besides, and builds on the first: every step of the command is
a step of the core, a score, or an edit of the status that does not make it look
better (`CommandStepKinds`), and each of these preserves the core's `IInv`. Its own
invariant, `CommandIInv`, adds where the command can be relative to the core
(`Placed`), what is known of each source whose turn is over (`Settled`), and that a check
which will be listed without looking is not listed yet (`ListedInTurn`). The part a
reader would not guess is `CompleteSoFar`: a collection that the token drops leaves no
trace in `report.intelligence`, and the sources after it could make that look complete;
they cannot, because after the stop that dropped it none of them answers in full. From
it follow the invariants of the run and `CommandNoRecovery`. `CommittedAtTheEnd` needs to know of
the core that only preflight rejects a target, and of the command that such a one
never reaches `finalize`: otherwise a cancelled report could be committed as failed.

`CommandContractTheorem` says the same of the whole command as `ContractTheorem` of the scan inside of it, with the
end of all intelligence (`Conclude`) for the contract's `End`: before it a failed source may make a completed
scan partial without a stop, which no `Amend` allows, after it nothing but a stop changes the status. `FinalizeReport` is
the core's finalization and inherits its steps; the rest of the command is a stutter, or a `Request`. The
`command` run does not list `CommandKeepsContract`; adding it to the run's properties makes TLC check it in half a minute.

`ActiveStagesProofs` assumes `StagesAssumption`: finitely many endpoints of either transport, a
selection in which HTTP and TLS come with the services, concurrency of at least one, and no more endpoints for
the later stages than for the services. `IInv` says
where every candidate of a stage is (`Pooled`: waiting in its lane, in flight or through), that
what stopped a probe had happened (`Stopped`), that the stages passed are whole (`Worked`), what the
services left unidentified (`Identification`) and that the warning about them is given
(`Announced`). A stage that passes is whole because nobody is waiting or in flight at its end and
what is through without a result is through because of a stop, which the check after the stage sees:
that is `PassedIsWhole`. The candidates of a later stage are what earlier stages
wrote, so the proof also shows that a stage leaves what it reads alone.
`ContractTheorem` maps each step to one of `StageContract`.

`ProbeProofs` assumes the named assumptions of the three exchanges: limits are naturals, an
identification line fits into the preamble's limit, preferences are names, chains are
sequences of certificates. Its invariant is one per protocol, and a step of one leaves the
others alone. For SSH, `Reading` relates what was consumed to the part of the exchange, the
line and its limit; that a line which looks like an identification is as long as what was
matched of it is what keeps the buffer from filling up. That the selected algorithm is
the client's first rests on `LeastNatural`, a set of naturals has a least member. For HTTP,
`Asked` counts requests against redirects and `Chained` says where the chain stands before
it is the evidence's; `Kept` says that until the body is through nothing was cut or
failed, so that the one chunk past the limit is the only way to a truncated body. For TLS the record is a part of the chain because no more
certificates fit than there are (`BoundedIsAPart`), and what was left out of it is told because the
bytes that fit are a sum which only grows (`Totals`). From it follow `ProbesAreBounded`,
`HttpIsOneStory` and `EvidenceIsEarned`, for every limit and every peer.

`DnsProofs` assumes the assumptions of the three parts: limits are naturals, those on a transfer's endpoints
positive, zones are names, and answers are of the kinds that the decoder returns. One part
runs and the others stand still, so `DnsSafe` is a conjunction:

- `BaselineSafe`: the lookups still to make are the last of the ten, every alias met is kept, and
  every record too unless the observation says that it was cut (`Collected`). That the chain is a path
  which ends for a reason is shown along the walk: each prefix is a path, and it grew or had
  ended. A hop that fails this would have a first, which contradicts the one before it.
- `TransferSafe`: while an attempt reads, its counters are those of its frames, what it knows of
  the opening record is true of the first record of them, and every frame was an answer (`Reading`). A
  closing SOA turns this into `WholeTransfer`, and nothing else does. Afterwards only the
  counts are kept (`Tally`). That endpoints are attempted in order without a gap
  is `AttemptsAreEndpoints`, which is inductive with `TransferParts`.
- `CheckSafe`: names before the current one were asked everything, names after it nothing
  (`HeardParts`). A probe's fingerprints, flags and limit are those of what was heard under its
  name, and a probe that a stop cut short is not conclusive (`ProbeOf`). The statuses of DNSSEC are those of its
  answers, one by one; a destination has the status of its first place in the chain
  (`DanglingParts`), and one that was not asked everything has none.

`SourceProofs` assumes the named assumptions of the five modules it covers. `IInv` is one part
for the client (`PinnedIsPublic`) and one for each source:

- `LookupSafe`: `Accounted`, while nothing failed every eligible address is to be asked about,
  asked about or answered, and `Responsible`, a request goes to the registry of the longest prefix.
- `LogSafe`: nothing is listed while pages are read (`Paging`); then the candidates are the names
  found, in order, up to the limit (`Listing`), each of them is to be asked for, asked for or
  answered (`Verifying`), and a complete log has conclusive answers only (`Verdicts`).
- `RelatedSafe`: an answer that does not call itself cut holds fewer names than the limit (`FullAnswer`).
- `SuppliedSafe`: the next name or selector is the one after those gathered (`Upcoming`), and
  while the collection calls itself complete nothing before it is missing (`NothingMissing`).

From it follow `SourcesAreBounded`, `CompleteIsWhole`, `EvidenceIsItsOwn` and the action property
`NothingIsUndone`, for every limit, every order of answers and every moment of a stop.

`HistoryProofs` assumes `HistoryAssumption`: finitely many scans numbered by
naturals, and policies of the right type. Its `IInv` adds what a process in the
middle of a command knows: candidates were stored, and their policy covers them
when counted among everything stored so far (`SelectedJustified`). That is stable
because ranks only grow with the rows they are counted among (`RankMonotone`,
from the library's facts on cardinalities), while the same claim about the rows
present is not, as another process may delete them. From it follow the
invariants, `PruneJustified`, and `ImplementsLedger`: a persist is a `Store` of the
ledger, a deletion or prune a `Discard` of the rows it really removed, everything
else a stutter.

`RecoveryProofs` assumes nothing but that `Tears` is a boolean. Its `IInv` says what a
restore relies on between its steps (`Held`: it is alone, its copy is verified, what
it moved aside), what a backup relies on (`Current`: the database recovers to at
least the rows it began with), and, without torn commits, that every row is
readable outside of the file being replaced while that file may be removed again
(`Whole`, `Saved`). Two lemmas carry the proof: whatever ends a restore, no other
process relies on anything (`EndsRestore`), and nothing is lost if what was moved
aside is back or hidden (`SavedSurvives`). `NothingLostTheorem` is stated for `~Tears`;
`torn_restore` shows that it needs to be.

`AssessmentProofs` assumes `AssessmentAssumption`: observations have the fields their rules
look at, and names, texts and times are naturals. Nothing recursive is left in the rules, so no
induction over the findings is needed. `Found` is what is pushed for some observations, as a set, and depends
on the set of them only; it grows with it (`FoundGrows`), which is obvious of every rule but one:
whether TLS was to be expected looks at other observations, and more of them can only
make it so (`ExpectedMore`). Of each finding exactly one push is retained (`RetainedFacts`). The key of the
sort tells findings apart (`KeyFacts`; the severity is a function of the rule) and keys are in a strict total
order (`SmallerIsAnOrder`), so that the place in the report is how many findings come before, and
each place is taken once (`EachPlaceIsTaken`, by the pigeonhole principle). So the report is a
function of `Found` (`SortedFacts`): that is `SameInAnyOrder`, and that every finding is reported once and in
order. The first part of `SeeingMoreNeverHelps` is `FoundGrows`; the other two follow because a set
of deductions with more members has no fewer points to count (`ValueFalls`).

Model-checked only: liveness (the fairness of both contracts, `CommandEnds`, `ProbeEnds`, `DnsEnds`,
`SourceEnds`), because neither fairness nor ENABLED is within the provers' reach. Every other property
of a passing run is a theorem.

## Plan

Done: the core (`ScanLifecycle`, `ScanContract`, `ScanCommand`, `History`, `HistoryLedger`,
`Recovery`); the stages and their contract; the protocol probes; DNS; the intelligence sources; the
findings rules and the score; proofs of all of them.

What could be added: `diff_reports` as operators against a reference definition.

## Not modelled

Parsing of targets and port sets, packets, records, certificates, headers, banners, JSON
and bundles, and rendering, exports, projection, diff and signing are functions of data:
what the modelled code does with their results is modelled, with results as constants or
choices. The name of a default report is found by retrying `create_new`, which the file
system decides; the model has which outputs were written, not their names. Timing is
two events, the deadline and the operator's cancellation; request timeouts are part of what
a wait may end with. The legacy tables of migrations 2 and 3 are not used by the program.
File permissions are not modelled.
