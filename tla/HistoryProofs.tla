--------------------------- MODULE HistoryProofs ---------------------------
(* Proofs about History: its type, the inductive invariant, the properties  *)
(* that follow from it, and that it implements HistoryLedger.               *)
EXTENDS History, FiniteSetTheorems, TLAPS

(* Lemmas about the operators. *)

\* A process that ended holds nothing.
LEMMA EndFacts ==
    ASSUME TypeOK, NEW c \in Clients, End(c)
    PROVE  /\ pc' \in [Clients -> Locations] /\ pc'[c] = "idle" /\ version'[c] = 1
           /\ version' \in [Clients -> 1..(Latest + 1)]
           /\ policy' \in [Clients -> Policies \cup {None}]
           /\ ids' \in [Clients -> SUBSET Scans]
           /\ ids'[c] = {}
           /\ \A d \in Clients \ {c} : /\ pc'[d] = pc[d] /\ version'[d] = version[d]
                                       /\ policy'[d] = policy[d] /\ ids'[d] = ids[d]
BY HistoryAssumption DEF End, TypeOK, Locations

\* Recording events counts one more for the scans recorded, and nothing else.
LEMMA RecordFacts ==
    ASSUME TypeOK, NEW action \in Actions, NEW gone \in SUBSET Scans,
           audit' = Record(action, gone)
    PROVE  /\ audit' \in [Actions -> [Scans -> Nat]]
           /\ \A s \in gone : audit'[action][s] = audit[action][s] + 1
           /\ \A s \in Scans \ gone : audit'[action][s] = audit[action][s]
           /\ \A a \in Actions \ {action} : audit'[a] = audit[a]
           /\ Audited' = Audited \cup gone
<1>1. audit' \in [Actions -> [Scans -> Nat]]
  BY DEF TypeOK, Record
<1>2. \A s \in gone : audit'[action][s] = audit[action][s] + 1
  BY DEF TypeOK, Record
<1>3. \A s \in Scans \ gone : audit'[action][s] = audit[action][s]
  BY DEF TypeOK, Record
<1>4. \A a \in Actions \ {action} : audit'[a] = audit[a]
  BY DEF TypeOK, Record
<1>5. \A a \in Actions, s \in Scans : audit[a][s] \in Nat
  BY DEF TypeOK
<1>6. Audited' = Audited \cup gone
  <2>1. ASSUME NEW s \in gone PROVE s \in Audited'
    BY <1>2, <1>5 DEF Audited
  <2>2. ASSUME NEW s \in Scans \ gone PROVE s \in Audited' <=> s \in Audited
    BY <1>3, <1>4 DEF Audited
  <2>3. QED
    BY <2>1, <2>2 DEF Audited
<1>7. QED
  BY <1>1, <1>2, <1>3, <1>4, <1>6

\* A scan's rank only grows with the rows it is counted among.
LEMMA RankMonotone ==
    ASSUME NEW rows \in SUBSET Scans, NEW more \in SUBSET Scans, rows \subseteq more,
           NEW s \in Scans
    PROVE  Rank(rows, s) \in Nat /\ Rank(more, s) \in Nat /\ Rank(rows, s) <= Rank(more, s)
<1> DEFINE ahead(set) == {t \in set : TargetOf[t] = TargetOf[s] /\ t >= s}
<1>1. IsFiniteSet(more)
  BY HistoryAssumption, FS_Subset
<1>2. IsFiniteSet(ahead(more)) /\ ahead(rows) \subseteq ahead(more)
  BY <1>1, FS_Subset
<1>3. IsFiniteSet(ahead(rows)) /\ Cardinality(ahead(rows)) <= Cardinality(ahead(more))
  BY <1>2, FS_Subset
<1>4. Cardinality(ahead(rows)) \in Nat /\ Cardinality(ahead(more)) \in Nat
  BY <1>2, <1>3, FS_CardinalityType
<1>5. QED
  BY <1>3, <1>4 DEF Rank

\* So a policy that covers a scan keeps covering it as more scans are stored.
LEMMA MatchesMonotone ==
    ASSUME NEW rows \in SUBSET Scans, NEW more \in SUBSET Scans, rows \subseteq more,
           NEW s \in Scans, NEW p \in Policies, Matches(p, rows, s)
    PROVE  Matches(p, more, s)
<1>1. p.keep \in Nat \cup {None}
  BY HistoryAssumption
<1>2. Rank(rows, s) \in Nat /\ Rank(more, s) \in Nat /\ Rank(rows, s) <= Rank(more, s)
  BY RankMonotone
<1>3. p.keep # None /\ Rank(rows, s) > p.keep => Rank(more, s) > p.keep
  BY <1>1, <1>2
<1>4. QED
  BY <1>3 DEF Matches

-----------------------------------------------------------------------------
(* The inductive invariant, one lemma per action. *)

LEMMA InitIInv == Init => IInv
<1> SUFFICES ASSUME Init PROVE IInv
  OBVIOUS
<1>0. PICK newest \in 0..(Latest + 1) : applied = 1..newest
  BY DEF Init
<1>1. TypeOK
  BY <1>0, HistoryAssumption DEF Init, TypeOK, Locations, Actions
<1>2. SelectedStored /\ SelectedJustified /\ Pending
  BY DEF Init, SelectedStored, SelectedJustified, Pending
<1>3. AuditedIffDeleted /\ DeletedOnce
  BY DEF Init, AuditedIffDeleted, Audited, DeletedOnce, Actions
<1>4. WorksOnMigrated /\ NewerIsLeftAlone
  BY <1>0, HistoryAssumption DEF Init, WorksOnMigrated, NewerIsLeftAlone
<1>5. QED
  BY <1>1, <1>2, <1>3, <1>4 DEF IInv

\* A step of one process that leaves the rows and the events alone.
LEMMA QuietIInv ==
    ASSUME IInv, UNCHANGED <<scans, audit, persisted>>, SelectedJustified',
           \A c \in Clients : ids'[c] \subseteq persisted
    PROVE  SelectedStored' /\ AuditedIffDeleted' /\ DeletedOnce'
BY DEF IInv, SelectedStored, AuditedIffDeleted, Audited, DeletedOnce

LEMMA OpenIInv ==
    ASSUME IInv, NEW c \in Clients, Open(c)
    PROVE  IInv'
<1>1. /\ pc[c] = "idle" /\ pc' = [pc EXCEPT ![c] = "open"]
      /\ UNCHANGED <<applied, scans, audit, persisted, version, policy, ids>>
  BY DEF Open, Goto, database
<1>2. TypeOK'
  BY <1>1 DEF IInv, TypeOK, Locations
<1>3. \A d \in Clients : pc'[d] \in {pc[d], "open"} /\ (pc'[d] # pc[d] => pc'[d] = "open")
  BY <1>1 DEF IInv, TypeOK
<1>4. SelectedJustified' /\ Pending'
  BY <1>1, <1>3 DEF IInv, SelectedJustified, Matches, Rank, Pending
<1>5. WorksOnMigrated' /\ NewerIsLeftAlone'
  BY <1>1, <1>3 DEF IInv, WorksOnMigrated, NewerIsLeftAlone
<1>6. SelectedStored' /\ AuditedIffDeleted' /\ DeletedOnce'
  BY <1>1, <1>4, QuietIInv DEF IInv, SelectedStored
<1>7. QED
  BY <1>2, <1>4, <1>5, <1>6 DEF IInv

\* A command that ends leaves every other process as it was.
LEMMA EndKeeps ==
    ASSUME IInv, NEW c \in Clients, End(c), UNCHANGED <<applied, persisted>>
    PROVE  /\ SelectedJustified' /\ WorksOnMigrated' /\ Pending' /\ NewerIsLeftAlone'
           /\ \A d \in Clients : ids'[d] \subseteq persisted'
<1>1. /\ pc'[c] = "idle" /\ ids'[c] = {} /\ version'[c] = 1
      /\ \A d \in Clients \ {c} : /\ pc'[d] = pc[d] /\ version'[d] = version[d]
                                  /\ policy'[d] = policy[d] /\ ids'[d] = ids[d]
  BY EndFacts DEF IInv
<1>2. SelectedJustified'
  <2> SUFFICES ASSUME NEW d \in Clients, pc'[d] = "prune"
               PROVE  policy'[d] \in Policies /\ \A s \in ids'[d] : Matches(policy'[d], persisted', s)
    BY DEF SelectedJustified, Matches, Rank
  <2>1. d # c
    BY <1>1
  <2>2. pc[d] = "prune" /\ policy'[d] = policy[d] /\ ids'[d] = ids[d]
    BY <1>1, <2>1
  <2>3. QED
    BY <2>2 DEF IInv, SelectedJustified
<1>3. WorksOnMigrated' /\ NewerIsLeftAlone'
  BY <1>1 DEF IInv, WorksOnMigrated, NewerIsLeftAlone
<1>4. Pending'
  BY <1>1 DEF IInv, Pending
<1>5. \A d \in Clients : ids'[d] \subseteq persisted'
  BY <1>1 DEF IInv, SelectedStored
<1>6. QED
  BY <1>2, <1>3, <1>4, <1>5

LEMMA StopIInv ==
    ASSUME IInv, NEW c \in Clients, End(c), UNCHANGED database
    PROVE  IInv'
<1>0. UNCHANGED <<applied, scans, audit, persisted>>
  BY DEF database
<1>1. TypeOK'
  BY <1>0, EndFacts DEF IInv, TypeOK
<1>2. /\ SelectedJustified' /\ WorksOnMigrated' /\ Pending' /\ NewerIsLeftAlone'
      /\ \A d \in Clients : ids'[d] \subseteq persisted'
  BY <1>0, EndKeeps
<1>3. SelectedStored' /\ AuditedIffDeleted' /\ DeletedOnce'
  BY <1>0, <1>2, QuietIInv
<1>4. QED
  BY <1>1, <1>2, <1>3 DEF IInv

\* Only c moves, between two locations that are not "prune", and the database stays.
LEMMA MoveIInv ==
    ASSUME IInv, NEW c \in Clients, NEW location \in {"migrate", "apply", "ready"},
           pc' = [pc EXCEPT ![c] = location], UNCHANGED <<database, version, policy, ids>>,
           \A v \in applied : v <= Latest, 1..(version[c] - 1) \subseteq applied,
           location = "apply" => version[c] <= Latest,
           location = "ready" => version[c] > Latest
    PROVE  IInv'
<1>1. UNCHANGED <<applied, scans, audit, persisted, version, policy, ids>>
  BY DEF database
<1>2. TypeOK'
  BY <1>1 DEF IInv, TypeOK, Locations
<1>3. pc'[c] = location /\ \A d \in Clients \ {c} : pc'[d] = pc[d]
  BY DEF IInv, TypeOK
<1>4. SelectedJustified'
  BY <1>1, <1>3 DEF IInv, SelectedJustified, Matches, Rank
<1>5. Pending'
  BY <1>1, <1>3 DEF IInv, Pending
<1>6. applied \subseteq 1..(Latest + 1) /\ version[c] \in 1..(Latest + 1)
  BY DEF IInv, TypeOK
<1>7. location = "ready" => applied = 1..Latest
  <2> SUFFICES ASSUME location = "ready" PROVE applied = 1..Latest
    OBVIOUS
  <2>1. version[c] = Latest + 1 /\ (Latest + 1) - 1 = Latest
    BY <1>6, HistoryAssumption
  <2>2. 1..Latest \subseteq applied
    BY <2>1
  <2>3. applied \subseteq 1..Latest
    BY <1>6, HistoryAssumption
  <2>4. QED
    BY <2>2, <2>3
<1>8. WorksOnMigrated'
  BY <1>1, <1>3, <1>7 DEF IInv, WorksOnMigrated
<1>9. NewerIsLeftAlone'
  BY <1>1, HistoryAssumption DEF NewerIsLeftAlone
<1>10. SelectedStored' /\ AuditedIffDeleted' /\ DeletedOnce'
  BY <1>1, <1>4, QuietIInv DEF IInv, SelectedStored
<1>11. QED
  BY <1>2, <1>4, <1>5, <1>8, <1>9, <1>10 DEF IInv

LEMMA InspectIInv ==
    ASSUME IInv, NEW c \in Clients, Inspect(c)
    PROVE  IInv'
<1>1. CASE End(c)
  BY <1>1, StopIInv DEF Inspect
<1>2. CASE /\ \A v \in applied : v <= Latest
           /\ Goto(c, "migrate") /\ UNCHANGED <<version, policy, ids>>
  <2>1. version[c] \in 1..(Latest + 1) /\ pc[c] = "open"
    BY DEF IInv, TypeOK, Inspect
  <2>2. version[c] = 1
    BY <2>1 DEF IInv, Pending
  <2>3. 1..(version[c] - 1) \subseteq applied
    BY <2>2
  <2>4. QED
    BY <1>2, <2>3, MoveIInv DEF Inspect, Goto
<1>3. QED
  BY <1>1, <1>2 DEF Inspect

LEMMA ExamineIInv ==
    ASSUME IInv, NEW c \in Clients, Examine(c)
    PROVE  IInv'
<1>1. /\ pc[c] = "migrate" /\ UNCHANGED <<database, policy, ids>>
      /\ version[c] \in 1..(Latest + 1)
      /\ 1..(version[c] - 1) \subseteq applied /\ \A v \in applied : v <= Latest
  BY DEF IInv, TypeOK, Pending, Examine
<1>2. CASE version[c] > Latest /\ Goto(c, "ready") /\ UNCHANGED version
  BY <1>1, <1>2, MoveIInv DEF Goto
<1>3. CASE version[c] <= Latest /\ version[c] \notin applied /\ Goto(c, "apply") /\ UNCHANGED version
  BY <1>1, <1>3, MoveIInv DEF Goto
<1>4. CASE /\ version[c] <= Latest /\ version[c] \in applied
           /\ version' = [version EXCEPT ![c] = @ + 1] /\ UNCHANGED pc
  <2>1. UNCHANGED <<applied, scans, audit, persisted, policy, ids, pc>>
    BY <1>1, <1>4 DEF database
  <2>2. /\ version' \in [Clients -> 1..(Latest + 1)] /\ version'[c] = version[c] + 1
        /\ \A d \in Clients \ {c} : version'[d] = version[d]
    BY <1>1, <1>4, HistoryAssumption DEF IInv, TypeOK
  <2>3. 1..(version'[c] - 1) \subseteq applied
    <3>1. 1..(version'[c] - 1) = 1..(version[c] - 1) \cup {version[c]}
      BY <1>1, <2>2
    <3>2. QED
      BY <1>1, <1>4, <3>1
  <2>4. Pending'
    BY <1>1, <2>1, <2>2, <2>3 DEF IInv, Pending
  <2>5. TypeOK'
    BY <2>1, <2>2 DEF IInv, TypeOK
  <2>6. SelectedJustified' /\ WorksOnMigrated' /\ NewerIsLeftAlone'
    BY <2>1 DEF IInv, SelectedJustified, Matches, Rank, WorksOnMigrated, NewerIsLeftAlone
  <2>7. SelectedStored' /\ AuditedIffDeleted' /\ DeletedOnce'
    BY <2>1, <2>6, QuietIInv DEF IInv, SelectedStored
  <2>8. QED
    BY <2>4, <2>5, <2>6, <2>7 DEF IInv
<1>5. QED
  BY <1>2, <1>3, <1>4 DEF Examine

LEMMA ApplyIInv ==
    ASSUME IInv, NEW c \in Clients, Apply(c)
    PROVE  IInv'
<1>1. /\ pc[c] = "apply" /\ UNCHANGED <<scans, audit, persisted>>
      /\ version[c] \in 1..(Latest + 1) /\ version[c] <= Latest
      /\ 1..(version[c] - 1) \subseteq applied /\ \A v \in applied : v <= Latest
  BY DEF IInv, TypeOK, Pending, Apply
<1>2. CASE version[c] \in applied /\ End(c) /\ UNCHANGED applied
  BY <1>1, <1>2, StopIInv DEF database
<1>3. CASE /\ version[c] \notin applied
           /\ applied' = applied \cup {version[c]}
           /\ version' = [version EXCEPT ![c] = @ + 1]
           /\ Goto(c, "migrate") /\ UNCHANGED <<policy, ids>>
  <2>1. /\ version' \in [Clients -> 1..(Latest + 1)] /\ version'[c] = version[c] + 1
        /\ pc' \in [Clients -> Locations] /\ pc'[c] = "migrate"
        /\ \A d \in Clients \ {c} : version'[d] = version[d] /\ pc'[d] = pc[d]
    BY <1>1, <1>3, HistoryAssumption DEF IInv, TypeOK, Goto, Locations
  <2>2. TypeOK'
    BY <1>1, <1>3, <2>1 DEF IInv, TypeOK
  <2>3. 1..(version'[c] - 1) = 1..(version[c] - 1) \cup {version[c]}
    BY <1>1, <2>1
  <2>4. 1..(version'[c] - 1) \subseteq applied' /\ \A v \in applied' : v <= Latest
    BY <1>1, <1>3, <2>3
  <2>5. Pending'
    BY <1>3, <2>1, <2>4 DEF IInv, Pending
  <2>6. \A v \in applied' : 1..v \subseteq applied'
    <3>1. 1..version[c] \subseteq applied'
      BY <2>1, <2>4, <1>1
    <3>2. QED
      BY <1>3, <3>1 DEF IInv, WorksOnMigrated
  <2>7. \A d \in Clients : pc[d] \notin {"ready", "prune"}
    <3>1. version[c] \in 1..Latest
      BY <1>1, HistoryAssumption
    <3>2. QED
      BY <1>3, <3>1 DEF IInv, WorksOnMigrated
  <2>8. WorksOnMigrated'
    BY <2>1, <2>6, <2>7 DEF WorksOnMigrated
  <2>9. NewerIsLeftAlone'
    BY <2>4, HistoryAssumption DEF NewerIsLeftAlone
  <2>10. SelectedJustified'
    BY <2>1, <2>7 DEF SelectedJustified
  <2>11. SelectedStored' /\ AuditedIffDeleted' /\ DeletedOnce'
    BY <1>1, <1>3, <2>10, QuietIInv DEF IInv, SelectedStored
  <2>12. QED
    BY <2>2, <2>5, <2>8, <2>9, <2>10, <2>11 DEF IInv
<1>4. QED
  BY <1>2, <1>3 DEF Apply
LEMMA PersistIInv ==
    ASSUME IInv, NEW c \in Clients, Persist(c)
    PROVE  IInv'
<1>1. PICK s \in Scans \ persisted : /\ scans' = scans \cup {s}
                                      /\ persisted' = persisted \cup {s}
  BY DEF Persist
<1>2. /\ pc[c] = "ready" /\ End(c) /\ UNCHANGED <<applied, audit>>
      /\ TypeOK /\ applied = 1..Latest
  BY DEF Persist, IInv, WorksOnMigrated
<1>3. /\ pc'[c] = "idle" /\ version'[c] = 1 /\ ids'[c] = {}
      /\ \A d \in Clients \ {c} : /\ pc'[d] = pc[d] /\ version'[d] = version[d]
                                  /\ policy'[d] = policy[d] /\ ids'[d] = ids[d]
  BY <1>2, EndFacts
<1>4. TypeOK'
  BY <1>1, <1>2, EndFacts DEF TypeOK
<1>5. SelectedStored'
  BY <1>1, <1>3 DEF IInv, SelectedStored
<1>6. SelectedJustified'
  <2> SUFFICES ASSUME NEW d \in Clients, pc'[d] = "prune"
               PROVE  policy'[d] \in Policies /\ \A t \in ids'[d] : Matches(policy'[d], persisted', t)
    BY DEF SelectedJustified, Matches, Rank
  <2>1. /\ d # c /\ pc[d] = "prune" /\ policy'[d] = policy[d] /\ ids'[d] = ids[d]
        /\ policy[d] \in Policies /\ ids[d] \subseteq persisted
    BY <1>3 DEF IInv, SelectedJustified, SelectedStored
  <2>2. ASSUME NEW t \in ids[d] PROVE Matches(policy[d], persisted', t)
    <3>1. persisted \in SUBSET Scans /\ persisted' \in SUBSET Scans /\ t \in Scans
      BY <1>1, <1>2, <2>1 DEF TypeOK
    <3>2. Matches(policy[d], persisted, t)
      BY <2>1 DEF IInv, SelectedJustified
    <3>3. persisted \subseteq persisted'
      BY <1>1
    <3>4. QED
      BY <2>1, <3>1, <3>2, <3>3, MatchesMonotone
  <2>3. QED
    BY <2>1, <2>2
<1>7. AuditedIffDeleted' /\ DeletedOnce'
  BY <1>1, <1>2 DEF IInv, AuditedIffDeleted, Audited, DeletedOnce
<1>8. WorksOnMigrated' /\ Pending'
  BY <1>2, <1>3 DEF IInv, WorksOnMigrated, Pending
<1>9. NewerIsLeftAlone'
  BY <1>2, HistoryAssumption DEF NewerIsLeftAlone
<1>10. QED
  BY <1>4, <1>5, <1>6, <1>7, <1>8, <1>9 DEF IInv

\* A transaction that deletes the rows of gone, and records events for them.
LEMMA RemoveIInv ==
    ASSUME IInv, NEW c \in Clients, End(c), UNCHANGED <<applied, persisted>>,
           NEW action \in Actions, NEW gone \in SUBSET Scans, NEW recorded \in SUBSET Scans,
           scans' = scans \ gone, audit' = Record(action, recorded),
           gone \cap scans \subseteq recorded, recorded \subseteq gone \cap persisted,
           action = "scan.delete" => recorded \subseteq scans
    PROVE  IInv'
<1>1. /\ audit' \in [Actions -> [Scans -> Nat]]
      /\ \A s \in recorded : audit'[action][s] = audit[action][s] + 1
      /\ \A s \in Scans \ recorded : audit'[action][s] = audit[action][s]
      /\ \A a \in Actions \ {action} : audit'[a] = audit[a]
      /\ Audited' = Audited \cup recorded
  BY RecordFacts DEF IInv
<1>2. TypeOK'
  BY <1>1, EndFacts DEF IInv, TypeOK
<1>3. /\ SelectedJustified' /\ WorksOnMigrated' /\ Pending' /\ NewerIsLeftAlone'
      /\ \A d \in Clients : ids'[d] \subseteq persisted'
  BY EndKeeps
<1>4. SelectedStored'
  BY <1>3 DEF IInv, SelectedStored
<1>5. AuditedIffDeleted'
  BY <1>1 DEF IInv, AuditedIffDeleted
<1>6. DeletedOnce'
  <2> SUFFICES ASSUME NEW s \in Scans PROVE audit'["scan.delete"][s] <= 1
    BY DEF DeletedOnce
  <2>1. audit["scan.delete"][s] <= 1 /\ audit["scan.delete"][s] \in Nat
    BY DEF IInv, DeletedOnce, TypeOK, Actions
  <2>2. CASE action = "scan.delete" /\ s \in recorded
    <3>1. s \notin Audited
      BY <2>2 DEF IInv, AuditedIffDeleted
    <3>2. audit["scan.delete"][s] = 0
      BY <2>1, <3>1 DEF Audited, Actions
    <3>3. QED
      BY <1>1, <2>2, <3>2
  <2>3. CASE action # "scan.delete" \/ s \notin recorded
    BY <1>1, <2>1, <2>3 DEF Actions
  <2>4. QED
    BY <2>2, <2>3
<1>7. QED
  BY <1>2, <1>3, <1>4, <1>5, <1>6 DEF IInv

LEMMA DeleteScanIInv ==
    ASSUME IInv, NEW c \in Clients, DeleteScan(c)
    PROVE  IInv'
<1>1. PICK s \in Scans : /\ scans' = scans \ {s}
                         /\ audit' = Record("scan.delete", {s} \cap scans)
  BY DEF DeleteScan
<1>2. End(c) /\ UNCHANGED <<applied, persisted>>
  BY DEF DeleteScan
<1>3. {s} \cap scans \in SUBSET Scans /\ {s} \cap scans \subseteq persisted
  BY DEF IInv, SelectedStored
<1>4. QED
  BY <1>1, <1>2, <1>3, RemoveIInv DEF Actions

LEMMA SelectIInv ==
    ASSUME IInv, NEW c \in Clients, Select(c)
    PROVE  IInv'
<1>1. pc[c] = "ready" /\ UNCHANGED <<applied, scans, audit, persisted>> /\ UNCHANGED database
  BY DEF Select, database
<1>2. PICK p \in Policies :
          \/ End(c)
          \/ /\ policy' = [policy EXCEPT ![c] = p]
             /\ ids' = [ids EXCEPT ![c] = Candidates(p)]
             /\ Goto(c, "prune") /\ UNCHANGED version
  BY DEF Select
<1>3. CASE End(c)
  BY <1>1, <1>3, StopIInv
<1>4. CASE /\ policy' = [policy EXCEPT ![c] = p]
           /\ ids' = [ids EXCEPT ![c] = Candidates(p)]
           /\ Goto(c, "prune") /\ UNCHANGED version
  <2>1. Candidates(p) \subseteq scans /\ scans \subseteq persisted
        /\ scans \in SUBSET Scans /\ persisted \in SUBSET Scans
    BY DEF Candidates, IInv, SelectedStored, TypeOK
  <2>2. /\ pc' \in [Clients -> Locations] /\ pc'[c] = "prune"
        /\ policy' \in [Clients -> Policies \cup {None}] /\ policy'[c] = p
        /\ ids' \in [Clients -> SUBSET Scans] /\ ids'[c] = Candidates(p)
        /\ version' = version
        /\ \A d \in Clients \ {c} : /\ pc'[d] = pc[d] /\ policy'[d] = policy[d]
                                    /\ ids'[d] = ids[d]
    BY <1>4, <2>1 DEF IInv, TypeOK, Goto, Locations
  <2>3. TypeOK'
    BY <1>1, <2>2 DEF IInv, TypeOK
  <2>4. \A s \in Candidates(p) : Matches(p, persisted, s)
    <3> SUFFICES ASSUME NEW s \in Candidates(p) PROVE Matches(p, persisted, s)
      OBVIOUS
    <3>1. s \in Scans /\ Matches(p, scans, s)
      BY <2>1 DEF Candidates
    <3>2. QED
      BY <2>1, <3>1, MatchesMonotone
  <2>5. SelectedJustified'
    <3> SUFFICES ASSUME NEW d \in Clients, pc'[d] = "prune"
                 PROVE  policy'[d] \in Policies /\ \A t \in ids'[d] : Matches(policy'[d], persisted', t)
      BY DEF SelectedJustified, Matches, Rank
    <3>1. CASE d = c
      BY <1>1, <2>2, <2>4, <3>1
    <3>2. CASE d # c
      BY <1>1, <2>2, <3>2 DEF IInv, SelectedJustified
    <3>3. QED
      BY <3>1, <3>2
  <2>6. Pending' /\ WorksOnMigrated' /\ NewerIsLeftAlone'
    BY <1>1, <2>2, HistoryAssumption DEF IInv, Pending, WorksOnMigrated, NewerIsLeftAlone
  <2>7. \A d \in Clients : ids'[d] \subseteq persisted
    BY <2>1, <2>2 DEF IInv, SelectedStored
  <2>8. SelectedStored' /\ AuditedIffDeleted' /\ DeletedOnce'
    BY <1>1, <2>5, <2>7, QuietIInv
  <2>9. QED
    BY <2>3, <2>5, <2>6, <2>8 DEF IInv
<1>5. QED
  BY <1>2, <1>3, <1>4

LEMMA PruneIInv ==
    ASSUME IInv, NEW c \in Clients, Prune(c)
    PROVE  IInv'
<1>1. /\ scans' = scans \ ids[c] /\ audit' = Record("retention.delete", ids[c])
      /\ End(c) /\ UNCHANGED <<applied, persisted>>
  BY DEF Prune
<1>2. ids[c] \in SUBSET Scans /\ ids[c] \subseteq persisted
  BY DEF IInv, TypeOK, SelectedStored
<1>3. QED
  BY <1>1, <1>2, RemoveIInv DEF Actions

LEMMA NextIInv == IInv /\ [Next]_vars => IInv'
<1> SUFFICES ASSUME IInv, [Next]_vars PROVE IInv'
  OBVIOUS
<1>1. ASSUME NEW c \in Clients, Open(c) \/ Command(c) PROVE IInv'
  <2>1. CASE Stop(c)
    BY <2>1, StopIInv DEF Stop
  <2>2. QED
    BY <1>1, <2>1, OpenIInv, InspectIInv, ExamineIInv, ApplyIInv, PersistIInv, DeleteScanIInv,
       SelectIInv, PruneIInv DEF Command
<1>2. CASE UNCHANGED vars
  BY <1>2 DEF vars, IInv, TypeOK, SelectedStored, SelectedJustified, AuditedIffDeleted, Audited,
     DeletedOnce, WorksOnMigrated, Pending, NewerIsLeftAlone, Matches, Rank
<1>3. QED
  BY <1>1, <1>2 DEF Next

LEMMA Inductive == Spec => []IInv
BY InitIInv, NextIInv, PTL DEF Spec

-----------------------------------------------------------------------------
(* The theorems. *)

\* Every variable keeps its type.
THEOREM TypeCorrect == Spec => []TypeOK
BY Inductive, PTL DEF IInv

\* The audit trail names exactly the scans that were stored and are gone, and none as
\* explicitly deleted twice.
THEOREM AuditTheorem == Spec => []AuditIsTrue
<1>1. IInv => AuditIsTrue
  BY DEF IInv, AuditIsTrue
<1> QED
  BY <1>1, Inductive, PTL

\* Commands only work on a database migrated up to the newest known version, and leave
\* a newer one alone.
THEOREM MigratedTheorem == Spec => []KnownSchemaOnly
<1>1. IInv => KnownSchemaOnly
  BY DEF IInv, KnownSchemaOnly
<1> QED
  BY <1>1, Inductive, PTL

\* A prune only deletes what its policy covered, counting every scan stored so far.
THEOREM PruneTheorem == Spec => PruneJustified
<1>1. ASSUME IInv, [Next]_vars, NEW c \in Clients, Prunes(c), NEW s \in scans \ scans'
      PROVE  Matches(policy[c], persisted, s)
  <2>1. pc[c] = "prune" /\ pc'[c] = "idle"
    BY <1>1 DEF Prunes
  <2>2. s \in ids[c]
    <3>1. scans' # scans
      BY <1>1
    <3>2. PICK d \in Clients : Open(d) \/ Command(d)
      BY <1>1, <3>1 DEF Next, vars
    <3>3. d = c
      <4>1. CASE Open(d)
        BY <3>1, <4>1 DEF Open, database
      <4>2. CASE End(d)
        BY <1>1, <2>1, <4>2, EndFacts DEF IInv
      <4>3. CASE UNCHANGED database
        BY <3>1, <4>3 DEF database
      <4>4. QED
        BY <3>1, <3>2, <4>1, <4>2, <4>3 DEF Command, Inspect, Examine, Apply, Persist,
           DeleteScan, Select, Prune, Stop
    <3>4. Prune(c) \/ Stop(c)
      BY <2>1, <3>2, <3>3 DEF Command, Open, Inspect, Examine, Apply, Persist, DeleteScan, Select
    <3>5. QED
      BY <1>1, <3>1, <3>4 DEF Prune, Stop, database
  <2>3. QED
    BY <1>1, <2>1, <2>2 DEF IInv, SelectedJustified
<1>2. IInv /\ [Next]_vars =>
        [\A c \in Clients : Prunes(c) =>
            \A s \in scans \ scans' : Matches(policy[c], persisted, s)]_vars
  BY <1>1
<1>3. QED
  BY <1>2, Inductive, PTL DEF Spec, PruneJustified
-----------------------------------------------------------------------------
(* The history implements the ledger. *)

Fates == [s \in Scans |-> IF s \in scans THEN "stored"
                           ELSE IF s \in persisted THEN "deleted" ELSE "unknown"]

LEMMA LedgerInit == Init => Ledger!Init
BY DEF Init, Ledger!Init, Audited, Actions

\* Rows deleted together are one step of the ledger, even if some of them were
\* deleted, and recorded, before.
LEMMA LedgerRemove ==
    ASSUME IInv, UNCHANGED persisted, NEW gone \in SUBSET Scans,
           NEW recorded \in SUBSET persisted, scans' = scans \ gone,
           Audited' = Audited \cup recorded,
           gone \cap scans \subseteq recorded, recorded \subseteq gone
    PROVE  Ledger!Next
<1> DEFINE lost == gone \cap scans
<1>1. Audited' = Audited \cup lost
  BY DEF IInv, AuditedIffDeleted
<1>2. \A s \in lost : Fates[s] = "stored"
  BY DEF Fates
<1>3. Fates' = [s \in Scans |-> IF s \in lost THEN "deleted" ELSE Fates[s]]
  BY DEF Fates, IInv, SelectedStored
<1>4. lost \in SUBSET Scans
  OBVIOUS
<1>5. HIDE DEF lost
<1>6. \E any \in SUBSET Scans : Ledger!Discard(any)
  BY <1>1, <1>2, <1>3, <1>4 DEF Ledger!Discard, Fates
<1>7. QED
  BY <1>6 DEF Ledger!Next

LEMMA LedgerStep ==
    ASSUME IInv, [Next]_vars
    PROVE  [Ledger!Next]_<<Fates, Audited>>
<1>1. CASE UNCHANGED database
  BY <1>1 DEF database, Fates, Audited
<1>2. CASE UNCHANGED <<scans, persisted, audit>>
  BY <1>2 DEF Fates, Audited
<1>3. ASSUME NEW c \in Clients, Persist(c) PROVE Ledger!Next
  <2>1. PICK s \in Scans \ persisted : /\ scans' = scans \cup {s}
                                        /\ persisted' = persisted \cup {s}
    BY <1>3 DEF Persist
  <2>2. Audited' = Audited /\ s \notin scans
    BY <1>3 DEF Persist, Audited, IInv, SelectedStored
  <2>3. Fates[s] = "unknown" /\ Fates' = [Fates EXCEPT ![s] = "stored"]
    BY <2>1, <2>2 DEF Fates
  <2>4. Ledger!Store(s)
    BY <2>2, <2>3 DEF Ledger!Store, Fates
  <2>5. QED
    BY <2>4 DEF Ledger!Next
<1>4. ASSUME NEW c \in Clients, DeleteScan(c) PROVE Ledger!Next
  <2>1. PICK s \in Scans : scans' = scans \ {s} /\ audit' = Record("scan.delete", {s} \cap scans)
    BY <1>4 DEF DeleteScan
  <2>2. Audited' = Audited \cup ({s} \cap scans)
    BY <2>1, RecordFacts DEF Actions, IInv
  <2>3. UNCHANGED persisted /\ {s} \cap scans \in SUBSET persisted
    BY <1>4 DEF DeleteScan, IInv, SelectedStored
  <2>4. QED
    BY <2>1, <2>2, <2>3, LedgerRemove
<1>5. ASSUME NEW c \in Clients, Prune(c) PROVE Ledger!Next
  <2>1. scans' = scans \ ids[c] /\ audit' = Record("retention.delete", ids[c])
        /\ UNCHANGED persisted
    BY <1>5 DEF Prune
  <2>2. ids[c] \in SUBSET Scans /\ ids[c] \in SUBSET persisted
    BY DEF IInv, TypeOK, SelectedStored
  <2>3. Audited' = Audited \cup ids[c]
    BY <2>1, <2>2, RecordFacts DEF Actions, IInv
  <2>4. QED
    BY <2>1, <2>2, <2>3, LedgerRemove
<1>6. QED
  BY <1>1, <1>2, <1>3, <1>4, <1>5 DEF Next, Command, vars, Open, Inspect, Examine, Apply, Select,
     Stop, Fates

\* Every behaviour of the history, seen as the fate of each scan and the audited
\* scans, is a behaviour of the ledger.
THEOREM LedgerTheorem == Spec => ImplementsLedger
<1>1. IInv /\ [Next]_vars => [Ledger!Next]_<<Fates, Audited>>
  BY LedgerStep
<1>2. QED
  BY <1>1, LedgerInit, Inductive, PTL DEF Spec, ImplementsLedger, Ledger!Spec, Fates
=============================================================================
