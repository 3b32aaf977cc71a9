------------------------------ MODULE History ------------------------------
(***************************************************************************)
(* The SQLite scan history of surface-storage, used by several surface     *)
(* processes at once.  A process opens the database (which migrates it),   *)
(* runs one command of the CLI on it and exits.                            *)
(*                                                                         *)
(* A step is one SQLite transaction, or one query outside of any: every    *)
(* transaction of the code starts with a write, so it holds SQLite's write *)
(* lock from its first statement to its commit, and a crash or an error    *)
(* before the commit leaves the database as it was.                        *)
(***************************************************************************)
EXTENDS Naturals, FiniteSets

CONSTANTS
    Clients,     \* the processes
    Scans,       \* scan identifiers, numbered in the order (started_at, scan_id)
    Targets,
    TargetOf,    \* the normalized target of each scan
    High,        \* the scans with high or critical findings
    Latest,      \* the newest migration this build knows
    Policies,    \* the retention policies a prune may be asked for
    None         \* an option that was not given

ASSUME HistoryAssumption ==
    /\ Scans \subseteq Nat /\ IsFiniteSet(Scans)
    /\ TargetOf \in [Scans -> Targets]
    /\ High \subseteq Scans
    /\ Latest \in Nat \ {0}
    /\ None \notin Nat
    /\ Policies \subseteq [keep : Nat \cup {None}, cutoff : Nat \cup {None},
                           preserve : BOOLEAN, dry : BOOLEAN]

Actions == {"scan.delete", "retention.delete"}
Locations == {"idle", "open", "migrate", "apply", "ready", "prune"}

VARIABLES
    applied,     \* surface_schema_migrations
    scans,       \* the rows of scans (their findings cascade)
    audit,       \* audit_events: how many events of each action name each scan
    persisted,   \* history: every scan ever stored
    pc,          \* where each process is
    version,     \* the migration a process looks at next
    policy,      \* the policy of a process that prunes
    ids          \* the candidates a process selected for deletion

database == <<applied, scans, audit, persisted>>
vars == <<applied, scans, audit, persisted, pc, version, policy, ids>>

TypeOK ==
    /\ applied \in SUBSET (1..(Latest + 1))
    /\ scans \in SUBSET Scans /\ persisted \in SUBSET Scans
    /\ audit \in [Actions -> [Scans -> Nat]]
    /\ pc \in [Clients -> Locations]
    /\ version \in [Clients -> 1..(Latest + 1)]
    /\ policy \in [Clients -> Policies \cup {None}]
    /\ ids \in [Clients -> SUBSET Scans]

\* A new file, or one that an older, this or a newer release has migrated.
Init ==
    /\ \E newest \in 0..(Latest + 1) : applied = 1..newest
    /\ scans = {} /\ persisted = {}
    /\ audit = [a \in Actions |-> [s \in Scans |-> 0]]
    /\ pc = [c \in Clients |-> "idle"]
    /\ version = [c \in Clients |-> 1]
    /\ policy = [c \in Clients |-> None]
    /\ ids = [c \in Clients |-> {}]

-----------------------------------------------------------------------------

\* The command ends: with its result, with an error, or with the process.
End(c) == /\ pc' = [pc EXCEPT ![c] = "idle"]
          /\ version' = [version EXCEPT ![c] = 1]
          /\ policy' = [policy EXCEPT ![c] = None]
          /\ ids' = [ids EXCEPT ![c] = {}]

Goto(c, location) == pc' = [pc EXCEPT ![c] = location]

Open(c) == /\ pc[c] = "idle" /\ Goto(c, "open")
           /\ UNCHANGED <<database, version, policy, ids>>

\* apply_migrations refuses a database of a newer release.
Inspect(c) ==
    /\ pc[c] = "open"
    /\ \/ (\E v \in applied : v > Latest) /\ End(c)
       \/ /\ \A v \in applied : v <= Latest
          /\ Goto(c, "migrate") /\ UNCHANGED <<version, policy, ids>>
    /\ UNCHANGED database

Examine_Bug(c) ==   \* one migration in place stands for all of them
    /\ pc[c] = "migrate"
    /\ \/ version[c] \in applied \cup {Latest + 1} /\ Goto(c, "ready")
       \/ version[c] \notin applied \cup {Latest + 1} /\ Goto(c, "apply")
    /\ UNCHANGED <<database, version, policy, ids>>

Examine(c) ==
    /\ pc[c] = "migrate"
    /\ \/ version[c] > Latest /\ Goto(c, "ready") /\ UNCHANGED version
       \/ /\ version[c] <= Latest /\ version[c] \in applied
          /\ version' = [version EXCEPT ![c] = @ + 1] /\ UNCHANGED pc
       \/ /\ version[c] <= Latest /\ version[c] \notin applied
          /\ Goto(c, "apply") /\ UNCHANGED version
    /\ UNCHANGED <<database, policy, ids>>

\* Another process may have applied the migration since: its tables exist.
Apply(c) ==
    /\ pc[c] = "apply"
    /\ \/ version[c] \in applied /\ End(c) /\ UNCHANGED applied
       \/ /\ version[c] \notin applied
          /\ applied' = applied \cup {version[c]}
          /\ version' = [version EXCEPT ![c] = @ + 1]
          /\ Goto(c, "migrate") /\ UNCHANGED <<policy, ids>>
    /\ UNCHANGED <<scans, audit, persisted>>

\* persist_report: a report carries a fresh identifier and is stored by the
\* process that made it.
Persist(c) ==
    /\ pc[c] = "ready"
    /\ \E s \in Scans \ persisted : scans' = scans \cup {s} /\ persisted' = persisted \cup {s}
    /\ End(c)
    /\ UNCHANGED <<applied, audit>>

\* record_audit, for each scan of gone.
Record(action, gone) ==
    [audit EXCEPT ![action] = [s \in Scans |-> IF s \in gone THEN @[s] + 1 ELSE @[s]]]

DeleteScan_Bug(c) ==   \* the event is recorded whether or not a row was deleted
    /\ pc[c] = "ready"
    /\ \E s \in Scans : scans' = scans \ {s} /\ audit' = Record("scan.delete", {s})
    /\ End(c)
    /\ UNCHANGED <<applied, persisted>>

DeleteScan(c) ==
    /\ pc[c] = "ready"
    /\ \E s \in Scans : /\ scans' = scans \ {s}
                        /\ audit' = Record("scan.delete", {s} \cap scans)
    /\ End(c)
    /\ UNCHANGED <<applied, persisted>>

Rank(rows, s) == Cardinality({t \in rows : TargetOf[t] = TargetOf[s] /\ t >= s})

\* Every supplied condition of the policy holds of the scan.
Matches(p, rows, s) == /\ p.cutoff # None => s < p.cutoff
                       /\ p.keep # None => Rank(rows, s) > p.keep
                       /\ p.preserve => s \notin High

Unbounded(p) == p.keep = None /\ p.cutoff = None

Candidates_Bug(p) ==   \* one matching condition is enough
    {s \in scans : /\ \/ p.cutoff # None /\ s < p.cutoff
                      \/ p.keep # None /\ Rank(scans, s) > p.keep
                   /\ p.preserve => s \notin High}

Candidates(p) == {s \in scans : Matches(p, scans, s)}

\* prune selects its candidates in a query of its own.
Select(c) ==
    /\ pc[c] = "ready"
    /\ \E p \in Policies :
          \/ (Unbounded(p) \/ p.dry \/ Candidates(p) = {}) /\ End(c)
          \/ /\ ~Unbounded(p) /\ ~p.dry /\ Candidates(p) # {}
             /\ policy' = [policy EXCEPT ![c] = p]
             /\ ids' = [ids EXCEPT ![c] = Candidates(p)]
             /\ Goto(c, "prune") /\ UNCHANGED version
    /\ UNCHANGED database

Prune_Bug(c) ==   \* the events are recorded outside the transaction, and may be lost
    /\ pc[c] = "prune"
    /\ scans' = scans \ ids[c]
    /\ \E recorded \in {{}, ids[c]} : audit' = Record("retention.delete", recorded)
    /\ End(c)
    /\ UNCHANGED <<applied, persisted>>

\* Then deletes what it selected, and records an event for each candidate.
Prune(c) ==
    /\ pc[c] = "prune"
    /\ scans' = scans \ ids[c]
    /\ audit' = Record("retention.delete", ids[c])
    /\ End(c)
    /\ UNCHANGED <<applied, persisted>>

\* The database is busy, the disk fails or the process dies, and what it had not
\* committed is rolled back; or the command only reads (list, show).
Stop(c) == pc[c] # "idle" /\ End(c) /\ UNCHANGED database

Command(c) == \/ Inspect(c) \/ Examine(c) \/ Apply(c) \/ Persist(c) \/ DeleteScan(c)
              \/ Select(c) \/ Prune(c) \/ Stop(c)

Next == \E c \in Clients : Open(c) \/ Command(c)

Spec == Init /\ [][Next]_vars

-----------------------------------------------------------------------------
(* What the history may claim. *)

Audited == {s \in Scans : \E a \in Actions : audit[a][s] > 0}

\* A scan is named by an event exactly when it was stored and is no longer there.
AuditedIffDeleted == Audited = persisted \ scans

\* An explicit deletion succeeds, and is recorded, once per scan.
DeletedOnce == \A s \in Scans : audit["scan.delete"][s] <= 1

\* The audit trail and the history agree whatever the interleaving of processes that
\* store, delete and prune the same scans, and wherever one of them stops.
AuditIsTrue == AuditedIffDeleted /\ DeletedOnce

\* Migrations are applied without gaps, and no command works on a database that
\* is not fully migrated, whoever migrated it and wherever that process stopped.
WorksOnMigrated ==
    /\ \A v \in applied : 1..v \subseteq applied
    /\ \A c \in Clients : pc[c] \in {"ready", "prune"} => applied = 1..Latest

\* A database of a newer release is left alone.
NewerIsLeftAlone ==
    Latest + 1 \in applied =>
        persisted = {} /\ \A c \in Clients : pc[c] \in {"idle", "open"}

\* Nothing works on a schema it does not know, older or newer, when processes open,
\* migrate and die beside each other.
KnownSchemaOnly == WorksOnMigrated /\ NewerIsLeftAlone

Prunes(c) == pc[c] = "prune" /\ pc'[c] = "idle"

\* A prune deletes no scan its policy did not cover: each was older than the
\* cutoff, not to be preserved, and keep_last newer scans of its target had been
\* stored by then, whatever other processes store or delete between its query
\* and its transaction.
PruneJustified ==
    [][\A c \in Clients : Prunes(c) =>
          \A s \in scans \ scans' : Matches(policy[c], persisted, s)]_vars

\* A scan never comes back: the history is the ledger of HistoryLedger, in which
\* a scan is stored once and deleted, with its audit event, at most once.
Ledger == INSTANCE HistoryLedger WITH
    fate <- [s \in Scans |-> IF s \in scans THEN "stored"
                             ELSE IF s \in persisted THEN "deleted" ELSE "unknown"],
    audited <- Audited

ImplementsLedger == Ledger!Spec

-----------------------------------------------------------------------------
(* The inductive invariant: what a process in the middle of a prune knows. *)

SelectedStored ==
    /\ scans \subseteq persisted
    /\ \A c \in Clients : ids[c] \subseteq persisted

SelectedJustified ==
    \A c \in Clients : pc[c] = "prune" =>
        policy[c] \in Policies /\ \A s \in ids[c] : Matches(policy[c], persisted, s)

Pending == \A c \in Clients :
    /\ pc[c] \in {"idle", "open"} => version[c] = 1
    /\ pc[c] = "apply" => version[c] <= Latest
    /\ pc[c] \in {"migrate", "apply"} =>
          1..(version[c] - 1) \subseteq applied /\ \A v \in applied : v <= Latest

IInv == /\ TypeOK /\ SelectedStored /\ SelectedJustified /\ AuditedIffDeleted
        /\ DeletedOnce /\ WorksOnMigrated /\ Pending /\ NewerIsLeftAlone
=============================================================================
