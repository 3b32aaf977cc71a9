------------------------------ MODULE Recovery ------------------------------
(***************************************************************************)
(* backup_database and restore_database of surface-storage, and what they  *)
(* leave behind: the files of one database, of one backup of it, and the   *)
(* hidden siblings of both.  Processes store scans, back up or restore;    *)
(* each may fail or die between any two changes of the file system.        *)
(*                                                                         *)
(* Of SQLite the model has the rollback journal: a process that dies while *)
(* it commits leaves a torn database and, under the database's own name, a *)
(* hot journal that the next access rolls back.  Renaming the database     *)
(* does not rename its journal.                                            *)
(***************************************************************************)
EXTENDS FiniteSets

CONSTANTS
    Clients,     \* the processes
    Rows,        \* the scans that may be stored
    Tears        \* whether a process may die in the middle of a commit

ASSUME RecoveryAssumption == Tears \in BOOLEAN

Kinds == {"absent", "blank", "sound", "torn", "damaged", "newer"}
Contents == {file \in [kind : Kinds, rows : SUBSET Rows] :
                file.kind \in {"sound", "torn"} \/ file.rows = {}}

File(kind, rows) == [kind |-> kind, rows |-> rows]
Sound(rows) == File("sound", rows)
Absent == File("absent", {})
Blank == File("blank", {})         \* a database without a schema
Damaged == File("damaged", {})
Newer == File("newer", {})         \* of a newer release

Restoring == {"aside", "install", "validate", "discard"}
Locations == {"idle", "using", "copy", "publish"} \cup Restoring

VARIABLES
    database,    \* the file under the database's name
    journal,     \* "hot": a journal that is to be rolled back lies beside it
    archive,     \* the file a backup writes and a restore reads
    strays,      \* databases left under hidden ".previous." names
    temporary,   \* each process's hidden copy
    previous,    \* what a restore moved aside
    pc,
    floor,       \* history: the rows there were when a backup began
    owed,        \* history: every row ever in the database ...
    replaced     \* ... but for those a successful restore replaced

files == <<database, journal, archive, strays>>
local == <<temporary, previous, floor>>
history == <<owed, replaced>>
vars == <<files, local, pc, history>>

TypeOK ==
    /\ database \in Contents /\ archive \in Contents
    /\ journal \in {"none", "hot"}
    /\ strays \subseteq Contents \ {Absent}
    /\ temporary \in [Clients -> Contents] /\ previous \in [Clients -> Contents]
    /\ pc \in [Clients -> Locations]
    /\ floor \in [Clients -> SUBSET Rows]
    /\ owed \subseteq Rows /\ replaced \subseteq Rows

Init ==
    /\ database \in {Absent, Sound({}), Newer} \cup {Sound({r}) : r \in Rows}
    /\ archive \in {Absent, Blank, Damaged, Newer} \cup {Sound({r}) : r \in Rows}
    /\ journal = "none" /\ strays = {}
    /\ temporary = [c \in Clients |-> Absent] /\ previous = [c \in Clients |-> Absent]
    /\ pc = [c \in Clients |-> "idle"]
    /\ floor = [c \in Clients |-> {}]
    /\ owed = database.rows /\ replaced = {}

-----------------------------------------------------------------------------

Goto(c, location) == pc' = [pc EXCEPT ![c] = location]

\* The command returns, and forgets the names of its hidden files.
End(c) ==
    /\ Goto(c, "idle")
    /\ temporary' = [temporary EXCEPT ![c] = Absent]
    /\ previous' = [previous EXCEPT ![c] = Absent]
    /\ floor' = [floor EXCEPT ![c] = {}]

\* No other process uses a database that is restored, as SECURITY.md asks.
Begins(c) == pc[c] = "idle" /\ \A d \in Clients : pc[d] \notin Restoring

\* What the next connection that may write finds: SQLite creates a missing file,
\* deletes the journal of an empty one, and rolls a hot one back, into whatever
\* database has the name.
Opened ==
    IF database.kind \in {"absent", "blank"} THEN {Blank}
    ELSE IF database.kind = "torn"
         THEN {IF journal = "hot" THEN Sound(database.rows) ELSE Damaged}
    ELSE IF journal = "hot" THEN {database, Damaged} ELSE {database}

\* verify_database: integrity, and a schema that is present and supported.
Verified(file) == file.kind = "sound"

\* VACUUM INTO a hidden file; the medium may spoil the copy.
Copies(file) == {file, Damaged}

Migrated(file) == IF file = Blank THEN Sound({}) ELSE file

\* Storage::open: create, recover and migrate the database, or fail.
Use(c) ==
    /\ Begins(c)
    /\ journal' = "none"
    /\ \E file \in Opened :
          /\ database' = Migrated(file)
          /\ \/ Migrated(file).kind = "sound" /\ Goto(c, "using")
             \/ Migrated(file).kind # "sound" /\ UNCHANGED pc
    /\ UNCHANGED <<archive, strays, local, history>>

Store(c) ==
    /\ pc[c] = "using"
    /\ \E row \in Rows \ owed, file \in Opened :
          /\ Verified(file)
          /\ database' = Sound(file.rows \cup {row})
          /\ owed' = owed \cup {row}
    /\ journal' = "none"
    /\ End(c)
    /\ UNCHANGED <<archive, strays, replaced>>

\* The process dies with some pages of its commit written.
Tear(c) ==
    /\ Tears /\ pc[c] = "using"
    /\ \E file \in Opened : Verified(file) /\ database' = File("torn", file.rows)
    /\ journal' = "hot"
    /\ End(c)
    /\ UNCHANGED <<archive, strays, history>>

\* backup_database looks for the destination first ...
Backup(c) ==
    /\ Begins(c) /\ archive = Absent
    /\ floor' = [floor EXCEPT ![c] = database.rows]
    /\ Goto(c, "copy")
    /\ UNCHANGED <<files, temporary, previous, history>>

Copy(c) ==
    /\ pc[c] = "copy"
    /\ journal' = "none"
    /\ \E file \in Opened :
          /\ database' = file
          /\ \E copy \in Copies(file) : temporary' = [temporary EXCEPT ![c] = copy]
    /\ Goto(c, "publish")
    /\ UNCHANGED <<archive, strays, previous, floor, history>>

Publish_Bug(c) ==   \* the copy is published before it is verified
    /\ pc[c] = "publish"
    /\ archive' = temporary[c]
    /\ End(c)
    /\ UNCHANGED <<database, journal, strays, history>>

\* ... and renames the verified copy over whatever is there by now.
Publish(c) ==
    /\ pc[c] = "publish" /\ Verified(temporary[c])
    /\ archive' = temporary[c]
    /\ End(c)
    /\ UNCHANGED <<database, journal, strays, history>>

\* restore_database verifies the backup, and the copy it makes of it.
Restore(c) ==
    /\ Begins(c) /\ \A d \in Clients : pc[d] = "idle"
    /\ Verified(archive)
    /\ \E copy \in Copies(archive) :
          Verified(copy) /\ temporary' = [temporary EXCEPT ![c] = copy]
    /\ Goto(c, "aside")
    /\ UNCHANGED <<files, previous, floor, history>>

\* Rename the database, if there is one, to its hidden name.
Aside(c) ==
    /\ pc[c] = "aside"
    /\ previous' = [previous EXCEPT ![c] = database]
    /\ database' = Absent
    /\ Goto(c, "install")
    /\ UNCHANGED <<journal, archive, strays, temporary, floor, history>>

\* Rename the copy to the database's name; if that fails, rename back.
Install(c) ==
    /\ pc[c] = "install"
    /\ \/ /\ database' = temporary[c]
          /\ Goto(c, "validate") /\ UNCHANGED local
       \/ database' = previous[c] /\ End(c)
    /\ UNCHANGED <<journal, archive, strays, history>>

Validate_Bug(c) ==   \* the file is verified, and not what its next reader will see
    /\ pc[c] = "validate" /\ Verified(database)
    /\ Goto(c, "discard")
    /\ UNCHANGED <<files, local, history>>

\* A connection that only reads cannot roll a hot journal back, and fails.
Validate(c) ==
    /\ pc[c] = "validate" /\ Verified(database) /\ journal = "none"
    /\ Goto(c, "discard")
    /\ UNCHANGED <<files, local, history>>

Reject_Bug(c) ==   \* the installed file is removed and nothing comes back
    /\ pc[c] = "validate"
    /\ database' = Absent
    /\ End(c)
    /\ UNCHANGED <<journal, archive, strays, history>>

\* The verification fails, if only to read: remove the file and rename the former
\* database back, both of which may fail in silence.
Reject(c) ==
    /\ pc[c] = "validate"
    /\ \/ database' = previous[c] /\ UNCHANGED strays
       \/ database' = Absent /\ strays' = (strays \cup {previous[c]}) \ {Absent}
    /\ End(c)
    /\ UNCHANGED <<journal, archive, history>>

\* The restore succeeds: the former database is removed.
Discard(c) ==
    /\ pc[c] = "discard"
    /\ owed' = owed \cup database.rows
    /\ replaced' = (replaced \cup previous[c].rows) \ database.rows
    /\ End(c)
    /\ UNCHANGED files

\* An operation fails where nothing is undone (or undoing fails too), or the
\* process dies: its hidden files stay.
Stop(c) ==
    /\ pc[c] # "idle"
    /\ strays' = (strays \cup {previous[c]}) \ {Absent}
    /\ End(c)
    /\ UNCHANGED <<database, journal, archive, history>>

Command(c) == \/ Use(c) \/ Store(c) \/ Tear(c) \/ Backup(c) \/ Copy(c) \/ Publish(c)
              \/ Restore(c) \/ Aside(c) \/ Install(c) \/ Validate(c) \/ Reject(c)
              \/ Discard(c) \/ Stop(c)

Next == \E c \in Clients : Command(c)

Spec == Init /\ [][Next]_vars

-----------------------------------------------------------------------------
(* What survives. *)

Publishes(c) == pc[c] = "publish" /\ pc'[c] = "idle" /\ archive' # archive

\* A published backup is complete and current: it verifies, has every row the
\* database had when the backup began, and none that the database never had,
\* whoever writes or dies meanwhile.
BackupIsCurrent ==
    [][\A c \in Clients : Publishes(c) =>
          /\ Verified(archive')
          /\ floor[c] \subseteq archive'.rows /\ archive'.rows \subseteq database.rows]_vars

\* The former database is discarded only when its replacement is the verified copy
\* and whoever opens it next finds it as it is.
DiscardsWhenValid ==
    \A c \in Clients : pc[c] = "discard" =>
        database = temporary[c] /\ Verified(database) /\ Opened = {database}

\* However a restore ends that does not succeed, the database it found is under its
\* own name again or under a hidden one.
Former(c) == IF pc[c] = "aside" THEN database ELSE previous[c]

RestoreKeepsFormer ==
    [][\A c \in Clients : pc[c] \in Restoring \ {"discard"} /\ pc'[c] = "idle" =>
          Former(c) \in {database', Absent} \cup strays']_vars

\* The rows that can still be read from a file.
Kept(file) ==
    IF file.kind = "sound" \/ (file.kind = "torn" /\ journal = "hot") THEN file.rows ELSE {}

\* docs/database-schema.md:36, "preserves the current database until the replacement
\* passes validation": only a restore that succeeds makes stored rows unreadable.
\* True unless a process died in the middle of a commit.
NothingLost ==
    \A row \in owed \ replaced :
        \E file \in {database} \cup strays \cup {previous[c] : c \in Clients} :
            row \in Kept(file)

-----------------------------------------------------------------------------
(* The inductive invariant. *)

\* What a restore relies on between its steps.
Held ==
    \A c \in Clients :
        /\ pc[c] \in Restoring =>
              Verified(temporary[c]) /\ \A d \in Clients \ {c} : pc[d] = "idle"
        /\ pc[c] \notin {"install", "validate", "discard"} => previous[c] = Absent
        /\ pc[c] = "install" => database = Absent
        /\ pc[c] \in {"validate", "discard"} => database = temporary[c]
        /\ pc[c] = "discard" => journal = "none"

\* A database in use recovers to what it holds.
Recovers == \/ database.kind = "sound" /\ journal = "none"
            \/ database.kind = "torn" /\ journal = "hot"

\* What a backup relies on.
Current ==
    \A c \in Clients :
        /\ pc[c] = "using" => Recovers
        /\ pc[c] = "copy" /\ database.kind # "damaged" => floor[c] \subseteq database.rows
        /\ pc[c] = "publish" /\ Verified(temporary[c]) =>
              /\ Recovers
              /\ floor[c] \subseteq temporary[c].rows
              /\ temporary[c].rows \subseteq database.rows

\* Every row is in the database moved aside or in one left under a hidden name.
Saved(c) == \A row \in owed \ replaced :
                \E file \in strays \cup {previous[c]} : row \in Kept(file)

\* Without torn databases, what a restore takes from the database's name is kept
\* under hidden names.
Whole ==
    /\ journal = "none" /\ database.kind # "torn"
    /\ NothingLost
    /\ \A c \in Clients : /\ previous[c].kind # "torn"
                          /\ pc[c] \in {"install", "validate", "discard"} => Saved(c)

IInv == TypeOK /\ Held /\ Current /\ (~Tears => Whole)
=============================================================================
