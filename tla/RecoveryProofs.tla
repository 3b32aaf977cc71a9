--------------------------- MODULE RecoveryProofs ---------------------------
(* Proofs about Recovery: its type, the inductive invariant, and what survives *)
(* a backup or a restore.                                                      *)
EXTENDS Recovery, TLAPS

(* Lemmas about the operators. *)

\* The constant files are files, and of different kinds.
LEMMA FileFacts ==
    /\ Absent \in Contents /\ Blank \in Contents /\ Damaged \in Contents /\ Newer \in Contents
    /\ \A rows \in SUBSET Rows :
          /\ Sound(rows) \in Contents /\ File("torn", rows) \in Contents
          /\ Sound(rows).kind = "sound" /\ Sound(rows).rows = rows
          /\ File("torn", rows).kind = "torn" /\ File("torn", rows).rows = rows
    /\ Absent.kind = "absent" /\ Absent.rows = {}
    /\ Blank.kind = "blank" /\ Blank.rows = {}
    /\ Damaged.kind = "damaged" /\ Damaged.rows = {}
    /\ Newer.kind = "newer" /\ Newer.rows = {}
    /\ \A file \in Contents : /\ file.kind \in Kinds /\ file.rows \in SUBSET Rows
                              /\ file.kind \notin {"sound", "torn"} => file.rows = {}
BY DEF Contents, Kinds, File, Sound, Absent, Blank, Damaged, Newer

\* A process that ended holds nothing, and the others hold what they held.
LEMMA EndFacts ==
    ASSUME TypeOK, NEW c \in Clients, End(c)
    PROVE  /\ pc' \in [Clients -> Locations]
           /\ temporary' \in [Clients -> Contents] /\ previous' \in [Clients -> Contents]
           /\ floor' \in [Clients -> SUBSET Rows]
           /\ pc'[c] = "idle" /\ previous'[c] = Absent
           /\ \A d \in Clients \ {c} : /\ pc'[d] = pc[d] /\ temporary'[d] = temporary[d]
                                       /\ previous'[d] = previous[d] /\ floor'[d] = floor[d]
BY FileFacts DEF End, Goto, TypeOK, Locations

\* What the next connection finds has all rows of the database, or is damaged.
LEMMA OpenedFacts ==
    ASSUME TypeOK, NEW file \in Opened
    PROVE  /\ file \in Contents /\ file.kind \notin {"absent", "torn"}
           /\ Recovers => file = Sound(database.rows)
           /\ file.kind # "damaged" =>
                 database.kind # "damaged" /\ file.rows = database.rows
           /\ journal = "none" /\ database.kind # "torn" =>
                 file = database \/ (file = Blank /\ database.rows = {})
<1>1. CASE database.kind \in {"absent", "blank"}
  BY <1>1, FileFacts DEF Opened, TypeOK, Recovers
<1>2. CASE database.kind = "torn"
  BY <1>2, FileFacts DEF Opened, TypeOK, Recovers
<1>3. CASE database.kind \notin {"absent", "blank", "torn"}
  <2>1. file \in {database, Damaged} /\ (journal # "hot" => file = database)
    BY <1>3 DEF Opened
  <2>2. database.kind = "sound" => database = Sound(database.rows)
    BY DEF TypeOK, Contents, Sound, File
  <2>3. CASE file = database
    BY <1>3, <2>2, <2>3, FileFacts DEF TypeOK, Recovers
  <2>4. CASE file = Damaged
    BY <1>3, <2>1, <2>4, FileFacts DEF TypeOK, Recovers
  <2>5. QED
    BY <2>1, <2>3, <2>4
<1>4. QED
  BY <1>1, <1>2, <1>3

\* Migrating gives a new database a schema and leaves others alone.
LEMMA MigratedFacts ==
    ASSUME NEW file \in Contents
    PROVE  /\ Migrated(file) \in Contents /\ Migrated(file).kind # "blank"
           /\ Migrated(file).rows = file.rows
           /\ file.kind # "blank" => Migrated(file) = file
           /\ file.kind = "blank" => Migrated(file) = Sound({})
<1>1. file.kind = "blank" => file = Blank
  BY DEF Contents, Blank, File
<1>2. QED
  BY <1>1, FileFacts DEF Migrated

-----------------------------------------------------------------------------
(* The inductive invariant, one lemma per action. *)

\* Storage::open: what others rely on is rolled back to or stays.
LEMMA UseKeeps == ASSUME IInv, NEW c \in Clients, Use(c) PROVE IInv'
<1> PICK file \in Opened :
        /\ database' = Migrated(file)
        /\ \/ Migrated(file).kind = "sound" /\ Goto(c, "using")
           \/ Migrated(file).kind # "sound" /\ UNCHANGED pc
  BY DEF Use
<1>1. /\ TypeOK /\ Held /\ Current /\ pc[c] = "idle" /\ journal' = "none"
      /\ \A d \in Clients : pc[d] \notin Restoring
      /\ UNCHANGED <<archive, strays, local, history>>
  BY DEF IInv, Use, Begins
<1>2. /\ file \in Contents /\ database' \in Contents /\ database'.kind \notin {"absent", "torn", "blank"}
      /\ Recovers => database' = Sound(database.rows)
      /\ database'.kind # "damaged" =>
            database.kind # "damaged" /\ database'.rows = database.rows
  <2>1. /\ file \in Contents /\ file.kind \notin {"absent", "torn"}
        /\ Recovers => file = Sound(database.rows)
        /\ file.kind # "damaged" => database.kind # "damaged" /\ file.rows = database.rows
    BY <1>1, OpenedFacts
  <2>2. /\ Migrated(file) \in Contents /\ Migrated(file).kind # "blank"
        /\ Migrated(file).rows = file.rows
        /\ file.kind # "blank" => Migrated(file) = file
        /\ file.kind = "blank" => Migrated(file) = Sound({})
    BY <2>1, MigratedFacts
  <2>3. QED
    BY <2>1, <2>2, FileFacts DEF TypeOK
<1>3. pc' \in [Clients -> Locations] /\ \A d \in Clients : d # c => pc'[d] = pc[d]
  BY <1>1 DEF Goto, TypeOK, Locations
<1>4. pc'[c] \in {"idle", "using"} /\ (pc'[c] = "using" => database'.kind = "sound")
  BY <1>1 DEF Goto, TypeOK
<1>5. TypeOK'
  BY <1>1, <1>2, <1>3 DEF TypeOK, local, history
<1>6. Held'
  BY <1>1, <1>3, <1>4 DEF Held, local, Restoring
<1>7. Current'
  <2>1. Recovers => Recovers' /\ database'.rows = database.rows
    BY <1>1, <1>2, FileFacts DEF Recovers, TypeOK
  <2>2. pc'[c] = "using" => Recovers'
    BY <1>1, <1>4 DEF Recovers
  <2>3. QED
    BY <1>1, <1>2, <1>3, <1>4, <2>1, <2>2 DEF Current, local
<1>8. ~Tears => Whole'
  <2>1. SUFFICES ASSUME ~Tears PROVE Whole'
    OBVIOUS
  <2>2. Whole
    BY <2>1 DEF IInv
  <2>3. Kept(database)' = Kept(database) \/ Kept(database) = {}
    BY <1>1, <1>2, <2>2, OpenedFacts, MigratedFacts, FileFacts DEF Whole, Kept
  <2>4. QED
    BY <1>1, <1>2, <1>3, <1>4, <2>2, <2>3 DEF Whole, NothingLost, Kept, local, history, Restoring
<1>9. QED
  BY <1>5, <1>6, <1>7, <1>8 DEF IInv

\* A committed row is added to a database that is sound when it is reached.
LEMMA StoreKeeps == ASSUME IInv, NEW c \in Clients, Store(c) PROVE IInv'
<1> PICK row \in Rows \ owed, file \in Opened :
        database' = Sound(file.rows \cup {row}) /\ owed' = owed \cup {row}
  BY DEF Store
<1>1. /\ TypeOK /\ Held /\ Current /\ pc[c] = "using" /\ journal' = "none" /\ End(c)
      /\ UNCHANGED <<archive, strays, replaced>>
  BY DEF IInv, Store
<1>2. file = Sound(database.rows)
  BY <1>1, OpenedFacts DEF Current
<1>3. /\ database' \in Contents /\ database'.kind = "sound"
      /\ database'.rows = database.rows \cup {row}
  BY <1>1, <1>2, FileFacts DEF TypeOK
<1>4. TypeOK'
  BY <1>1, <1>3, EndFacts DEF TypeOK
<1>5. Held'
  BY <1>1, EndFacts DEF Held, Restoring
<1>6. Current'
  BY <1>1, <1>3, EndFacts DEF Current, Recovers
<1>7. ~Tears => Whole'
  <2>1. SUFFICES ASSUME ~Tears PROVE Whole'
    OBVIOUS
  <2>2. Whole
    BY <2>1 DEF IInv
  <2>3. Kept(database)' = Kept(database) \cup {row}
    BY <1>1, <1>3, <2>2 DEF Kept, Current, Recovers, Whole
  <2>4. \A d \in Clients : pc'[d] \notin Restoring
    BY <1>1, EndFacts DEF Held, Restoring
  <2>5. previous' = previous
    BY <1>1 DEF End, Held, TypeOK
  <2>6. NothingLost'
    <3> SUFFICES ASSUME NEW r \in owed' \ replaced'
                 PROVE  \E f \in {database'} \cup strays' \cup {previous'[d] : d \in Clients} :
                            r \in Kept(f)'
      BY DEF NothingLost
    <3>1. CASE r = row
      BY <2>3, <3>1
    <3>2. CASE r # row
      <4>1. PICK f \in {database} \cup strays \cup {previous[d] : d \in Clients} : r \in Kept(f)
        BY <1>1, <2>2, <3>2 DEF Whole, NothingLost
      <4>2. CASE f = database
        BY <2>3, <4>1, <4>2
      <4>3. CASE f # database
        BY <1>1, <2>2, <2>5, <4>1, <4>3 DEF Whole, Kept
      <4>4. QED
        BY <4>2, <4>3
    <3>3. QED
      BY <3>1, <3>2
  <2>7. QED
    BY <1>1, <1>3, <2>2, <2>4, <2>5, <2>6 DEF Whole, Restoring
<1>8. QED
  BY <1>4, <1>5, <1>6, <1>7 DEF IInv

\* A torn commit keeps what was committed, as long as its journal is there.
LEMMA TearKeeps == ASSUME IInv, NEW c \in Clients, Tear(c) PROVE IInv'
<1> PICK file \in Opened : database' = File("torn", file.rows)
  BY DEF Tear
<1>1. /\ TypeOK /\ Held /\ Current /\ pc[c] = "using" /\ journal' = "hot" /\ End(c) /\ Tears
      /\ UNCHANGED <<archive, strays, history>>
  BY DEF IInv, Tear
<1>2. file = Sound(database.rows)
  BY <1>1, OpenedFacts DEF Current
<1>3. /\ database' \in Contents /\ database'.kind = "torn" /\ database'.rows = database.rows
  BY <1>1, <1>2, FileFacts DEF TypeOK
<1>4. TypeOK'
  BY <1>1, <1>3, EndFacts DEF TypeOK, history
<1>5. Held'
  BY <1>1, EndFacts DEF Held, Restoring
<1>6. Current'
  BY <1>1, <1>3, EndFacts DEF Current, Recovers
<1>7. QED
  BY <1>1, <1>4, <1>5, <1>6 DEF IInv

\* A backup begins.
LEMMA BackupKeeps == ASSUME IInv, NEW c \in Clients, Backup(c) PROVE IInv'
<1>1. /\ TypeOK /\ Held /\ Current /\ pc[c] = "idle"
      /\ \A d \in Clients : pc[d] \notin Restoring
      /\ UNCHANGED <<files, temporary, previous, history>>
  BY DEF IInv, Backup, Begins
<1>2. /\ pc' \in [Clients -> Locations] /\ pc'[c] = "copy"
      /\ \A d \in Clients : d # c => pc'[d] = pc[d] /\ floor'[d] = floor[d]
      /\ floor' \in [Clients -> SUBSET Rows] /\ floor'[c] = database.rows
  BY FileFacts, <1>1 DEF Backup, Goto, TypeOK, Locations
<1>3. TypeOK'
  BY <1>1, <1>2 DEF TypeOK, files, history
<1>4. Held'
  BY <1>1, <1>2 DEF Held, files, Restoring
<1>5. Current'
  BY <1>1, <1>2 DEF Current, files, Recovers
<1>6. ~Tears => Whole'
  BY <1>1, <1>2 DEF IInv, Whole, NothingLost, Kept, files, history, Restoring
<1>7. QED
  BY <1>3, <1>4, <1>5, <1>6 DEF IInv

\* A backup copies what it finds.
LEMMA CopyKeeps == ASSUME IInv, NEW c \in Clients, Copy(c) PROVE IInv'
<1> PICK file \in Opened : /\ database' = file
                          /\ \E copy \in Copies(file) :
                                temporary' = [temporary EXCEPT ![c] = copy]
  BY DEF Copy
<1> PICK copy \in Copies(file) : temporary' = [temporary EXCEPT ![c] = copy]
  OBVIOUS
<1>1. /\ TypeOK /\ Held /\ Current /\ pc[c] = "copy" /\ journal' = "none"
      /\ UNCHANGED <<archive, strays, previous, floor, history>>
  BY DEF IInv, Copy
<1>2. /\ file \in Contents /\ file.kind \notin {"absent", "torn"}
      /\ Recovers => file = Sound(database.rows)
      /\ file.kind # "damaged" => database.kind # "damaged" /\ file.rows = database.rows
  BY <1>1, OpenedFacts
<1>3. pc' \in [Clients -> Locations] /\ pc'[c] = "publish" /\ \A d \in Clients : d # c => pc'[d] = pc[d]
  BY <1>1 DEF Copy, Goto, TypeOK, Locations
<1>4. copy \in Contents /\ (Verified(copy) => copy = file)
  BY <1>2, FileFacts DEF Copies, Verified
<1>5. /\ temporary' \in [Clients -> Contents] /\ temporary'[c] = copy
      /\ \A d \in Clients : d # c => temporary'[d] = temporary[d]
  BY <1>1, <1>4 DEF TypeOK
<1>6. TypeOK'
  BY <1>1, <1>2, <1>3, <1>5 DEF TypeOK, history
<1>7. \A d \in Clients : pc[d] \notin Restoring
  BY <1>1 DEF Held, Restoring
<1>8. Held'
  BY <1>1, <1>3, <1>5, <1>7 DEF Held, Restoring
<1>9. Current'
  <2>1. Recovers => Recovers' /\ database'.rows = database.rows
    BY <1>1, <1>2, FileFacts DEF Recovers, TypeOK
  <2>2. Verified(copy) => Recovers' /\ floor[c] \subseteq copy.rows /\ copy.rows = database'.rows
    BY <1>1, <1>2, <1>4 DEF Current, Recovers, Verified
  <2>3. QED
    BY <1>1, <1>2, <1>3, <1>5, <2>1, <2>2 DEF Current
<1>10. ~Tears => Whole'
  <2>1. SUFFICES ASSUME ~Tears PROVE Whole'
    OBVIOUS
  <2>2. Whole
    BY <2>1 DEF IInv
  <2>3. Kept(database)' = Kept(database) \/ Kept(database) = {}
    BY <1>1, <1>2, <2>2, OpenedFacts, FileFacts DEF Whole, Kept
  <2>4. NothingLost'
    BY <1>1, <2>2, <2>3 DEF Whole, NothingLost, Kept, history
  <2>5. QED
    BY <1>1, <1>2, <1>3, <1>7, <2>2, <2>4 DEF Whole, Restoring
<1>11. QED
  BY <1>6, <1>8, <1>9, <1>10 DEF IInv

\* Publishing changes the backup only.
LEMMA PublishKeeps == ASSUME IInv, NEW c \in Clients, Publish(c) PROVE IInv'
<1>1. /\ TypeOK /\ Held /\ Current /\ pc[c] = "publish" /\ End(c) /\ archive' = temporary[c]
      /\ UNCHANGED <<database, journal, strays, history>>
  BY DEF IInv, Publish
<1>2. TypeOK'
  BY <1>1, EndFacts DEF TypeOK, history
<1>3. Held'
  BY <1>1, EndFacts DEF Held, Restoring
<1>4. Current'
  BY <1>1, EndFacts DEF Current, Recovers
<1>5. previous' = previous /\ \A d \in Clients : pc'[d] \notin Restoring
  <2>1. previous' = previous
    BY <1>1 DEF End, Held, TypeOK
  <2>2. \A d \in Clients : pc'[d] \notin Restoring
    BY <1>1, EndFacts DEF Held, Restoring
  <2>3. QED
    BY <2>1, <2>2
<1>6. ~Tears => Whole'
  BY <1>1, <1>5 DEF IInv, Whole, NothingLost, Kept, history, Restoring
<1>7. QED
  BY <1>2, <1>3, <1>4, <1>6 DEF IInv

\* A restore begins with a verified copy, alone.
LEMMA RestoreKeeps == ASSUME IInv, NEW c \in Clients, Restore(c) PROVE IInv'
<1>1. /\ TypeOK /\ Held /\ Current /\ \A d \in Clients : pc[d] = "idle"
      /\ UNCHANGED <<files, previous, floor, history>>
  BY DEF IInv, Restore
<1>2. PICK copy \in Copies(archive) :
          Verified(copy) /\ temporary' = [temporary EXCEPT ![c] = copy]
  BY DEF Restore
<1>3. copy \in Contents
  BY <1>1, FileFacts DEF Copies, TypeOK
<1>4. /\ pc' \in [Clients -> Locations] /\ pc'[c] = "aside"
      /\ \A d \in Clients : d # c => pc'[d] = "idle"
  BY <1>1 DEF Restore, Goto, TypeOK, Locations, Restoring
<1>5. TypeOK'
  BY <1>1, <1>2, <1>3, <1>4 DEF TypeOK, files, history
<1>6. Held'
  BY <1>1, <1>2, <1>4 DEF Held, files, Restoring, TypeOK, Verified
<1>7. Current'
  BY <1>1, <1>4 DEF Current, files
<1>8. ~Tears => Whole'
  BY <1>1, <1>4 DEF IInv, Whole, NothingLost, Kept, files, history
<1>9. QED
  BY <1>5, <1>6, <1>7, <1>8 DEF IInv

\* During a restore no other process holds anything.
LEMMA RestoresAlone ==
    ASSUME Held, NEW c \in Clients, pc[c] \in Restoring
    PROVE  /\ Verified(temporary[c])
           /\ \A d \in Clients \ {c} : pc[d] = "idle" /\ previous[d] = Absent
BY DEF Held

\* What is moved aside keeps its rows.
LEMMA AsideKeeps == ASSUME IInv, NEW c \in Clients, Aside(c) PROVE IInv'
<1>1. /\ TypeOK /\ Held /\ Current /\ pc[c] = "aside" /\ database' = Absent
      /\ UNCHANGED <<journal, archive, strays, temporary, floor, history>>
  BY DEF IInv, Aside
<1>2. Verified(temporary[c]) /\ \A d \in Clients \ {c} : pc[d] = "idle" /\ previous[d] = Absent
  BY <1>1, RestoresAlone DEF Restoring
<1>3. /\ pc' \in [Clients -> Locations] /\ pc'[c] = "install"
      /\ previous' \in [Clients -> Contents] /\ previous'[c] = database
      /\ \A d \in Clients \ {c} : pc'[d] = "idle" /\ previous'[d] = Absent
  BY <1>1, <1>2 DEF Aside, Goto, TypeOK, Locations, Restoring
<1>4. TypeOK'
  BY <1>1, <1>3, FileFacts DEF TypeOK, history
<1>5. Held'
  BY <1>1, <1>2, <1>3 DEF Held, Restoring
<1>6. Current'
  BY <1>1, <1>3, FileFacts DEF Current
<1>7. ~Tears => Whole'
  <2>1. SUFFICES ASSUME ~Tears PROVE Whole'
    OBVIOUS
  <2>2. Whole
    BY <2>1 DEF IInv
  <2>3. ASSUME NEW row \in owed' \ replaced'
        PROVE  \E file \in strays' \cup {previous'[c]} : row \in Kept(file)'
    <3>1. PICK file \in {database} \cup strays \cup {previous[d] : d \in Clients} :
              row \in Kept(file)
      BY <1>1, <2>2 DEF Whole, NothingLost, history
    <3>2. previous[c] = Absent /\ Kept(Absent) = {}
      BY <1>1, FileFacts DEF Held, Kept
    <3>3. file \in {database} \cup strays
      BY <1>2, <3>1, <3>2
    <3>4. row \in Kept(file)'
      BY <1>1, <3>1 DEF Kept
    <3>5. QED
      BY <1>1, <1>3, <3>3, <3>4
  <2>4. NothingLost' /\ Saved(c)'
    BY <2>3 DEF NothingLost, Saved
  <2>5. \A d \in Clients : pc'[d] \in {"install", "validate", "discard"} => d = c
    BY <1>3
  <2>6. QED
    BY <1>1, <1>2, <1>3, <2>2, <2>4, <2>5, FileFacts DEF Whole
<1>8. QED
  BY <1>4, <1>5, <1>6, <1>7 DEF IInv

\* When a restore ends, no other process relies on anything.
LEMMA EndsRestore ==
    ASSUME IInv, NEW c \in Clients, pc[c] \in Restoring, End(c),
           database' \in Contents, journal' = journal, archive' = archive,
           strays' \subseteq Contents \ {Absent}, owed' \subseteq Rows, replaced' \subseteq Rows,
           ~Tears => Whole'
    PROVE  IInv'
<1>1. TypeOK /\ Held
  BY DEF IInv
<1>2. /\ \A d \in Clients : pc'[d] = "idle"
      /\ \A d \in Clients : previous'[d] = Absent
  BY <1>1, RestoresAlone, EndFacts
<1>3. TypeOK'
  BY <1>1, EndFacts DEF TypeOK
<1>4. Held' /\ Current'
  BY <1>2 DEF Held, Current, Restoring
<1>5. QED
  BY <1>3, <1>4 DEF IInv

\* A restore that ends without a verdict loses nothing, if what it moved aside is
\* back or stays under its hidden name.
LEMMA SavedSurvives ==
    ASSUME IInv, Whole, NEW c \in Clients, pc[c] \in {"install", "validate", "discard"}, End(c),
           UNCHANGED <<journal, owed, replaced>>, database'.kind # "torn",
           strays \subseteq strays', previous[c] \in strays' \cup {database', Absent}
    PROVE  Whole'
<1>1. TypeOK /\ Held /\ Saved(c) /\ journal' = "none"
  BY DEF IInv, Whole
<1>2. \A d \in Clients : pc'[d] = "idle" /\ previous'[d] = Absent
  BY <1>1, RestoresAlone, EndFacts DEF Restoring
<1>3. NothingLost'
  <2> SUFFICES ASSUME NEW row \in owed' \ replaced'
               PROVE  \E file \in {database'} \cup strays' : row \in Kept(file)'
    BY DEF NothingLost
  <2>1. PICK file \in strays \cup {previous[c]} : row \in Kept(file)
    BY <1>1 DEF Saved
  <2>2. file # Absent /\ row \in Kept(file)'
    BY <1>1, <2>1, FileFacts DEF Kept
  <2>3. QED
    BY <2>1, <2>2
<1>4. QED
  BY <1>1, <1>2, <1>3, FileFacts DEF Whole

\* The copy is installed, or the former database comes back.
LEMMA InstallKeeps == ASSUME IInv, NEW c \in Clients, Install(c) PROVE IInv'
<1>1. /\ TypeOK /\ Held /\ Current /\ pc[c] = "install"
      /\ UNCHANGED <<journal, archive, strays, history>>
  BY DEF IInv, Install
<1>2. Verified(temporary[c]) /\ \A d \in Clients \ {c} : pc[d] = "idle" /\ previous[d] = Absent
  BY <1>1, RestoresAlone DEF Restoring
<1>3. CASE database' = temporary[c] /\ Goto(c, "validate") /\ UNCHANGED local
  <2>1. /\ pc' \in [Clients -> Locations] /\ pc'[c] = "validate"
        /\ \A d \in Clients \ {c} : pc'[d] = "idle"
    BY <1>1, <1>2, <1>3 DEF Goto, TypeOK, Locations, Restoring
  <2>2. TypeOK'
    BY <1>1, <1>3, <2>1 DEF TypeOK, local, history
  <2>3. Held'
    BY <1>1, <1>2, <1>3, <2>1 DEF Held, local, Restoring
  <2>4. Current'
    BY <1>1, <1>2, <1>3, <2>1 DEF Current, Verified, local
  <2>5. ~Tears => Whole'
    <3>1. SUFFICES ASSUME ~Tears PROVE Whole'
      OBVIOUS
    <3>2. /\ journal = "none"
          /\ previous[c].kind # "torn" /\ Saved(c)
      BY <1>1, <3>1 DEF IInv, Whole
    <3>3. Saved(c)'
      BY <1>1, <1>3, <3>2 DEF Saved, Kept, local, history
    <3>4. NothingLost'
      BY <3>3 DEF Saved, NothingLost
    <3>5. QED
      BY <1>1, <1>2, <1>3, <2>1, <3>1, <3>2, <3>3, <3>4, FileFacts
      DEF IInv, Whole, Verified, local
  <2>6. QED
    BY <2>2, <2>3, <2>4, <2>5 DEF IInv
<1>4. CASE database' = previous[c] /\ End(c)
  <2>1. previous[c] \in Contents
    BY <1>1 DEF TypeOK
  <2>2. ~Tears => Whole'
    <3>1. SUFFICES ASSUME ~Tears PROVE Whole'
      OBVIOUS
    <3>2. Whole /\ database'.kind # "torn"
      BY <1>4, <3>1 DEF IInv, Whole
    <3>3. QED
      BY <1>1, <1>4, <3>2, SavedSurvives DEF history
  <2>3. QED
    BY <1>1, <1>4, <2>1, <2>2, EndsRestore DEF TypeOK, history, Restoring
<1>5. QED
  BY <1>3, <1>4 DEF Install

\* Validation changes nothing: it gives leave to discard.
LEMMA ValidateKeeps == ASSUME IInv, NEW c \in Clients, Validate(c) PROVE IInv'
<1>1. /\ TypeOK /\ Held /\ Current /\ pc[c] = "validate" /\ journal = "none"
      /\ UNCHANGED <<files, local, history>>
  BY DEF IInv, Validate
<1>2. \A d \in Clients \ {c} : pc[d] = "idle"
  BY <1>1, RestoresAlone DEF Restoring
<1>3. /\ pc' \in [Clients -> Locations] /\ pc'[c] = "discard"
      /\ \A d \in Clients \ {c} : pc'[d] = "idle"
  BY <1>1, <1>2 DEF Validate, Goto, TypeOK, Locations, Restoring
<1>4. TypeOK'
  BY <1>1, <1>3 DEF TypeOK, files, local, history
<1>5. Held'
  BY <1>1, <1>3 DEF Held, files, local, Restoring
<1>6. Current'
  BY <1>3 DEF Current
<1>7. ~Tears => Whole'
  BY <1>1, <1>3 DEF IInv, Whole, NothingLost, Saved, Kept, files, local, history
<1>8. QED
  BY <1>4, <1>5, <1>6, <1>7 DEF IInv

\* A rejected copy gives way to the former database, which is at least kept.
LEMMA RejectKeeps == ASSUME IInv, NEW c \in Clients, Reject(c) PROVE IInv'
<1>1. /\ TypeOK /\ Held /\ pc[c] = "validate" /\ End(c)
      /\ UNCHANGED <<journal, archive, history>>
      /\ strays \subseteq strays'
      /\ database' \in {previous[c], Absent}
      /\ previous[c] \in strays' \cup {database', Absent}
      /\ strays' \subseteq (strays \cup {previous[c]}) \ {Absent}
  BY DEF IInv, Reject, TypeOK
<1>2. previous[c] \in Contents
  BY <1>1 DEF TypeOK
<1>3. database' \in Contents /\ strays' \subseteq Contents \ {Absent}
  BY <1>1, <1>2, FileFacts DEF TypeOK
<1>4. ~Tears => Whole'
  <2>1. SUFFICES ASSUME ~Tears PROVE Whole'
    OBVIOUS
  <2>2. Whole /\ database'.kind # "torn"
    BY <1>1, <2>1, FileFacts DEF IInv, Whole
  <2>3. QED
    BY <1>1, <2>2, SavedSurvives DEF history
<1>5. QED
  BY <1>1, <1>3, <1>4, EndsRestore DEF TypeOK, history, Restoring

\* A restore that succeeds replaces the rows it does not bring.
LEMMA DiscardKeeps == ASSUME IInv, NEW c \in Clients, Discard(c) PROVE IInv'
<1>1. /\ TypeOK /\ Held /\ pc[c] = "discard" /\ End(c) /\ UNCHANGED files
      /\ owed' = owed \cup database.rows
      /\ replaced' = (replaced \cup previous[c].rows) \ database.rows
  BY DEF IInv, Discard
<1>2. Verified(temporary[c]) /\ database = temporary[c]
  BY <1>1, RestoresAlone DEF Restoring, Held
<1>3. \A d \in Clients : pc'[d] = "idle" /\ previous'[d] = Absent
  BY <1>1, RestoresAlone, EndFacts DEF Restoring
<1>4. previous[c] \in Contents /\ owed' \subseteq Rows /\ replaced' \subseteq Rows
  BY <1>1, FileFacts DEF TypeOK
<1>5. ~Tears => Whole'
  <2>1. SUFFICES ASSUME ~Tears PROVE Whole'
    OBVIOUS
  <2>2. Whole /\ Saved(c)
    BY <1>1, <2>1 DEF IInv, Whole
  <2>3. ASSUME NEW row \in owed' \ replaced'
        PROVE  \E file \in {database'} \cup strays' : row \in Kept(file)'
    <3>1. CASE row \in database.rows
      BY <1>1, <1>2, <3>1 DEF Kept, Verified, files
    <3>2. CASE row \notin database.rows
      <4>1. row \in owed \ replaced /\ row \notin previous[c].rows
        BY <1>1, <3>2
      <4>2. PICK file \in strays \cup {previous[c]} : row \in Kept(file)
        BY <2>2, <4>1 DEF Saved
      <4>3. file \in strays /\ row \in Kept(file)'
        BY <1>1, <4>1, <4>2 DEF Kept, files
      <4>4. QED
        BY <1>1, <4>3 DEF files
    <3>3. QED
      BY <3>1, <3>2
  <2>4. NothingLost'
    BY <2>3 DEF NothingLost
  <2>5. QED
    BY <1>1, <1>3, <2>2, <2>4, FileFacts DEF Whole, files
<1>6. QED
  BY <1>1, <1>4, <1>5, EndsRestore DEF TypeOK, files, Restoring

\* A process that stops anywhere leaves its hidden files.
LEMMA StopKeeps == ASSUME IInv, NEW c \in Clients, Stop(c) PROVE IInv'
<1>1. /\ TypeOK /\ Held /\ Current /\ End(c) /\ pc[c] # "idle"
      /\ UNCHANGED <<database, journal, archive, history>>
      /\ strays' = (strays \cup {previous[c]}) \ {Absent}
  BY DEF IInv, Stop
<1>2. previous[c] \in Contents
  BY <1>1 DEF TypeOK
<1>3. /\ strays' \subseteq Contents \ {Absent} /\ strays \subseteq strays'
      /\ previous[c] \in strays' \cup {Absent}
  BY <1>1, <1>2 DEF TypeOK
<1>4. CASE pc[c] \in {"install", "validate", "discard"}
  <2>1. ~Tears => Whole'
    <3>1. SUFFICES ASSUME ~Tears PROVE Whole'
      OBVIOUS
    <3>2. Whole /\ database'.kind # "torn"
      BY <1>1, <3>1 DEF IInv, Whole
    <3>3. QED
      BY <1>1, <1>3, <1>4, <3>2, SavedSurvives DEF history
  <2>2. QED
    BY <1>1, <1>3, <1>4, <2>1, EndsRestore DEF TypeOK, history, Restoring
<1>5. CASE pc[c] \notin {"install", "validate", "discard"}
  <2>1. previous[c] = Absent
    BY <1>1, <1>5 DEF Held
  <2>2. previous' = previous /\ strays' = strays
    BY <1>1, <2>1 DEF End, TypeOK
  <2>3. /\ pc' \in [Clients -> Locations] /\ pc'[c] = "idle"
        /\ temporary' \in [Clients -> Contents] /\ floor' \in [Clients -> SUBSET Rows]
        /\ \A d \in Clients \ {c} : /\ pc'[d] = pc[d] /\ temporary'[d] = temporary[d]
                                    /\ floor'[d] = floor[d]
    BY <1>1, EndFacts
  <2>4. TypeOK'
    BY <1>1, <2>2, <2>3 DEF TypeOK, history
  <2>5. Held'
    <3>1. c \in Clients /\ pc'[c] = "idle" /\ previous'[c] = Absent
      BY <2>1, <2>2, <2>3
    <3>2. \A d \in Clients \ {c} : \A e \in Clients \ {d} : pc[e] = "idle" => pc'[e] = "idle"
      BY <2>3
    <3>3. QED
      BY <1>1, <2>2, <2>3, <3>1, <3>2 DEF Held, Restoring
  <2>6. Current'
    BY <1>1, <2>3 DEF Current, Recovers
  <2>7. ~Tears => Whole'
    BY <1>1, <2>2, <2>3 DEF IInv, Whole, NothingLost, Saved, Kept, history
  <2>8. QED
    BY <2>4, <2>5, <2>6, <2>7 DEF IInv
<1>6. QED
  BY <1>4, <1>5

-----------------------------------------------------------------------------
(* The invariant, and what follows from it. *)

\* Initially nothing is restored, backed up or owed but what there is.
LEMMA InitHolds == Init => IInv
<1> SUFFICES ASSUME Init PROVE IInv
  OBVIOUS
<1>1. database \in Contents /\ database.kind # "torn" /\ (database.rows # {} => database.kind = "sound")
  <2>1. CASE database \in {Absent, Sound({}), Newer}
    BY <2>1, FileFacts
  <2>2. ASSUME NEW r \in Rows, database = Sound({r}) PROVE database \in Contents /\ database.kind = "sound"
    BY <2>2, FileFacts
  <2>3. QED
    BY <2>1, <2>2 DEF Init
<1>2. archive \in Contents
  <2>1. CASE archive \in {Absent, Blank, Damaged, Newer}
    BY <2>1, FileFacts
  <2>2. ASSUME NEW r \in Rows, archive = Sound({r}) PROVE archive \in Contents
    BY <2>2, FileFacts
  <2>3. QED
    BY <2>1, <2>2 DEF Init
<1>3. TypeOK
  BY <1>1, <1>2, FileFacts DEF Init, TypeOK, Locations
<1>4. Held /\ Current
  BY DEF Init, Held, Current, Restoring
<1>5. NothingLost
  BY <1>1 DEF Init, NothingLost, Kept
<1>6. Whole
  BY <1>1, <1>5, FileFacts DEF Init, Whole
<1>7. QED
  BY <1>3, <1>4, <1>6 DEF IInv

\* Every step keeps the invariant.
LEMMA StepHolds == IInv /\ [Next]_vars => IInv'
<1> SUFFICES ASSUME IInv, [Next]_vars PROVE IInv'
  OBVIOUS
<1>1. CASE Next
  <2>1. PICK c \in Clients : Command(c)
    BY <1>1 DEF Next
  <2>2. CASE Use(c)
    BY <2>2, UseKeeps
  <2>3. CASE Store(c)
    BY <2>3, StoreKeeps
  <2>4. CASE Tear(c)
    BY <2>4, TearKeeps
  <2>5. CASE Backup(c)
    BY <2>5, BackupKeeps
  <2>6. CASE Copy(c)
    BY <2>6, CopyKeeps
  <2>7. CASE Publish(c)
    BY <2>7, PublishKeeps
  <2>8. CASE Restore(c)
    BY <2>8, RestoreKeeps
  <2>9. CASE Aside(c)
    BY <2>9, AsideKeeps
  <2>10. CASE Install(c)
    BY <2>10, InstallKeeps
  <2>11. CASE Validate(c)
    BY <2>11, ValidateKeeps
  <2>12. CASE Reject(c)
    BY <2>12, RejectKeeps
  <2>13. CASE Discard(c)
    BY <2>13, DiscardKeeps
  <2>14. CASE Stop(c)
    BY <2>14, StopKeeps
  <2>15. QED
    BY <2>1, <2>2, <2>3, <2>4, <2>5, <2>6, <2>7, <2>8, <2>9, <2>10, <2>11, <2>12, <2>13,
       <2>14 DEF Command
<1>2. CASE UNCHANGED vars
  BY <1>2 DEF vars, files, local, history, IInv, TypeOK, Held, Current, Recovers, Whole,
              NothingLost, Saved, Kept
<1>3. QED
  BY <1>1, <1>2

\* IInv holds in every reachable state.
THEOREM Invariance == Spec => []IInv
BY InitHolds, StepHolds, PTL DEF Spec

\* Every variable keeps its type, for any number of processes and rows.
THEOREM TypeCorrect == Spec => []TypeOK
<1>1. IInv => TypeOK
  BY DEF IInv
<1>2. QED
  BY Invariance, <1>1, PTL

\* restore_database removes the former database only when the copy is in its place
\* and no journal of another database will be rolled into it.
THEOREM DiscardTheorem == Spec => []DiscardsWhenValid
<1>1. IInv => DiscardsWhenValid
  <2>1. SUFFICES ASSUME IInv, NEW c \in Clients, pc[c] = "discard"
                 PROVE  database = temporary[c] /\ Verified(database) /\ Opened = {database}
    BY DEF DiscardsWhenValid
  <2>2. database = temporary[c] /\ Verified(database) /\ journal = "none"
    BY <2>1 DEF IInv, Held, Restoring
  <2>3. Opened = {database}
    BY <2>2 DEF Opened, Verified
  <2>4. QED
    BY <2>2, <2>3
<1>2. QED
  BY Invariance, <1>1, PTL

\* Unless a process died in the middle of a commit, no step of a backup or of a
\* restore, and no crash between two, loses a row.
THEOREM NothingLostTheorem == ~Tears => (Spec => []NothingLost)
<1> SUFFICES ASSUME ~Tears PROVE Spec => []NothingLost
  OBVIOUS
<1>1. IInv => NothingLost
  BY DEF IInv, Whole
<1>2. QED
  BY Invariance, <1>1, PTL

\* backup_database publishes only complete and current copies.
THEOREM BackupTheorem == Spec => BackupIsCurrent
<1>1. IInv /\ [Next]_vars =>
        [\A c \in Clients : Publishes(c) =>
            /\ Verified(archive')
            /\ floor[c] \subseteq archive'.rows /\ archive'.rows \subseteq database.rows]_vars
  <2>1. SUFFICES ASSUME IInv, Next, NEW c \in Clients, Publishes(c)
                 PROVE  /\ Verified(archive')
                        /\ floor[c] \subseteq archive'.rows
                        /\ archive'.rows \subseteq database.rows
    BY DEF Publishes
  <2>2. PICK d \in Clients : Command(d)
    BY <2>1 DEF Next
  <2>3. TypeOK /\ Current /\ pc[c] = "publish" /\ pc'[c] = "idle" /\ archive' # archive
    BY <2>1 DEF IInv, Publishes
  <2>4. Publish(d)
    BY <2>2, <2>3 DEF Command, Use, Store, Tear, Backup, Copy, Restore, Aside, Install,
                     Validate, Reject, Discard, Stop, files
  <2>5. d = c
    BY <2>3, <2>4 DEF Publish, End, Goto, TypeOK
  <2>6. QED
    BY <2>3, <2>4, <2>5 DEF Publish, Current
<1>2. QED
  BY Invariance, <1>1, PTL DEF Spec, BackupIsCurrent

\* Wherever restore_database fails or dies, the former database is still there.
THEOREM FormerTheorem == Spec => RestoreKeepsFormer
<1>1. IInv /\ [Next]_vars =>
        [\A c \in Clients : pc[c] \in Restoring \ {"discard"} /\ pc'[c] = "idle" =>
            Former(c) \in {database', Absent} \cup strays']_vars
  <2>1. SUFFICES ASSUME IInv, Next, NEW c \in Clients,
                        pc[c] \in Restoring \ {"discard"}, pc'[c] = "idle"
                 PROVE  Former(c) \in {database', Absent} \cup strays'
    OBVIOUS
  <2>2. PICK d \in Clients : Command(d)
    BY <2>1 DEF Next
  <2>3. TypeOK /\ Held
    BY <2>1 DEF IInv
  <2>4. d = c
    <3>1. SUFFICES ASSUME d # c PROVE FALSE
      OBVIOUS
    <3>2. pc'[c] = pc[c]
      BY <2>2, <2>3, <3>1 DEF Command, Use, Store, Tear, Backup, Copy, Publish, Restore, Aside,
         Install, Validate, Reject, Discard, Stop, End, Goto, TypeOK
    <3>3. QED
      BY <2>1, <3>2 DEF Restoring
  <2>5. Install(c) \/ Reject(c) \/ Stop(c)
    BY <2>1, <2>2, <2>3, <2>4 DEF Command, Use, Store, Tear, Backup, Copy, Publish, Restore,
       Aside, Validate, Discard, Begins, Goto, TypeOK, Restoring
  <2>6. QED
    BY <2>1, <2>3, <2>5 DEF Install, Goto, Reject, Stop, Former, Restoring, TypeOK, Held
<1>2. QED
  BY Invariance, <1>1, PTL DEF Spec, RestoreKeepsFormer
=============================================================================
