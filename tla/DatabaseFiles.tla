---------------------------- MODULE DatabaseFiles ----------------------------
(***************************************************************************)
(* The database as files: opened, copied and migrated by open_db           *)
(* (src/hushclaw/memory/db.py), encrypted by `hushclaw database encrypt`   *)
(* (src/hushclaw/cli/database.py), exported and imported by `hushclaw      *)
(* backup` (src/hushclaw/cli/backup.py), with the key in its store         *)
(* (src/hushclaw/memory/encryption.py).                                    *)
(*                                                                         *)
(* The commands work while the server is stopped, so one process has the   *)
(* files at a time.  It may be interrupted between any two changes of the  *)
(* directory.  A database is abstracted to the facts recorded in it, its   *)
(* schema version and the key that it is encrypted with; a file that is    *)
(* being copied is not there yet.  The owner has noted the recovery key.   *)
(***************************************************************************)
EXTENDS Integers, FiniteSets

CONSTANTS
    Facts,            \* what the server may record
    KeyInFile,        \* there is no vault: the key is a file beside the database
    Modes,            \* the values of memory.database_encryption to begin with
    MaxRelease,       \* bound on the schema versions
    MaxSnapshots,     \* bound on the copies made by migrations
    MaxKeys,          \* bound on the keys created
    MaxArchives       \* bound on the archives exported

ASSUME FilesAssumption ==
    /\ KeyInFile \in BOOLEAN
    /\ Modes \subseteq {"auto", "off", "sqlcipher"}
    /\ {MaxRelease, MaxSnapshots, MaxKeys, MaxArchives} \subseteq Nat

VARIABLES
    dir,           \* the data directory, by path: a database and its rollback
    key, keys,     \* the stored key, and the number of keys created
    mode,          \* memory.database_encryption
    release,       \* the schema version of the installed program
    doing,         \* the process: its command, where it is, its path, and the seal of
                   \* the database that it begins
    archive,       \* the exported archive
    recorded,      \* the facts that the owner's database should hold
    strayed,       \* the database was begun anew beside one set aside, or is being restored
    cut            \* history: the snapshots at which the process ended between the
                   \* renames of an encryption

databaseVars == <<dir, key, keys, mode, release, doing, archive, recorded, strayed, cut>>

-----------------------------------------------------------------------------

Live == 0
Snapshots == 1 .. MaxSnapshots
Paths == {Live} \cup Snapshots

Unsealed == 0   \* the seal of plaintext, and the key of an empty store

\* No file, and an empty one.  A database has version 1 when it has a schema, and
\* one more for every migration.
NoFile == [version |-> -1, facts |-> {}, seal |-> Unsealed]
Blank == [version |-> 0, facts |-> {}, seal |-> Unsealed]
NoPair == [db |-> NoFile, rollback |-> NoFile]

\* database_file_format: plaintext, or encrypted.
IsPlain(f) == f.version > 0 /\ f.seal = Unsealed
IsSealed(f) == f.seal # Unsealed
Opens(f) == f # NoFile /\ f.seal \in {Unsealed, key}

NoArchive == [dir |-> [p \in Paths |-> NoPair], mode |-> "none"]

Idle == [cmd |-> "none", at |-> "", path |-> Live, seal |-> Unsealed]
At(cmd, step) == doing.cmd = cmd /\ doing.at = step
Step(step) == [doing EXCEPT !.at = step]

LiveFile == dir[Live].db
PlainSnapshots == {p \in Snapshots : IsPlain(dir[p].db)}
HiddenSnapshots == {p \in Snapshots : IsPlain(dir[p].rollback)}
FreeSnapshots == {p \in Snapshots : dir[p] = NoPair}

\* DatabaseKeyStore.get_or_create.
KeyCreated ==
    IF key # Unsealed THEN UNCHANGED <<key, keys>>
    ELSE keys < MaxKeys /\ keys' = keys + 1 /\ key' = keys + 1

-----------------------------------------------------------------------------

DatabaseInit ==
    /\ dir = [p \in Paths |-> NoPair]
    /\ key = Unsealed /\ keys = 0
    /\ mode \in Modes
    /\ release = 1
    /\ doing = Idle
    /\ archive = NoArchive
    /\ recorded = {} /\ strayed = FALSE /\ cut = {}

\* A newer program is installed.
InstallRelease ==
    /\ doing = Idle
    /\ release < MaxRelease
    /\ release' = release + 1
    /\ UNCHANGED <<dir, key, keys, mode, doing, archive, recorded, strayed, cut>>

\* connect_database: what a mode lets be opened.
MayConnect(m) ==
    /\ IsSealed(LiveFile) => m # "off" /\ Opens(LiveFile)
    /\ IsPlain(LiveFile) => m # "sqlcipher"
    /\ LiveFile.version <= release

\* open_db up to the copy: a missing or empty database is begun, encrypted or not.
\* The encryption has created the file when it opens it.
OpenDatabase(m, cmd) ==
    /\ MayConnect(m)
    /\ LET fresh == LiveFile.version <= 0
           seals == fresh /\ m = "sqlcipher" IN
       /\ IF seals THEN KeyCreated ELSE UNCHANGED <<key, keys>>
       /\ dir' = IF fresh THEN [dir EXCEPT ![Live].db = Blank] ELSE dir
       /\ strayed' = (strayed \/ (fresh /\ recorded # {}))
       /\ doing' = [Idle EXCEPT
                      !.cmd = cmd, !.seal = IF seals THEN key' ELSE Unsealed,
                      !.at = IF /\ LiveFile # NoFile \/ cmd = "encrypt"
                                /\ LiveFile.version < release
                             THEN "copy" ELSE "migrate"]
    /\ UNCHANGED <<mode, release, archive, recorded, cut>>

StartDatabase == doing = Idle /\ OpenDatabase(mode, "serve")

\* backup_existing_db, under a name that is not taken.
TakeSnapshot ==
    /\ doing.at = "copy"
    /\ \E p \in FreeSnapshots :
          /\ \A q \in FreeSnapshots : p <= q
          /\ dir' = [dir EXCEPT ![p].db = LiveFile]
    /\ doing' = Step("migrate")
    /\ UNCHANGED <<key, keys, mode, release, archive, recorded, strayed, cut>>

\* The schema, or the next migration, which commits together with its version.
MigrateOne ==
    /\ doing.at = "migrate"
    /\ LiveFile.version < release
    /\ dir' = [dir EXCEPT ![Live].db.version = @ + 1,
                          ![Live].db.seal = IF LiveFile = Blank THEN doing.seal ELSE @]
    /\ UNCHANGED <<key, keys, mode, release, doing, archive, recorded, strayed, cut>>

\* The database is ready: the server runs, and the command goes on with the key.
Opened ==
    /\ doing.at = "migrate"
    /\ LiveFile.version = release
    /\ doing' = [doing EXCEPT !.at = IF doing.cmd = "serve" THEN "run" ELSE "key",
                              !.seal = Unsealed]
    /\ UNCHANGED <<dir, key, keys, mode, release, archive, recorded, strayed, cut>>

\* A statement of the copy or of a migration fails, and is rolled back.
OpenFails ==
    /\ doing.at \in {"copy", "migrate"}
    /\ doing' = Idle
    /\ UNCHANGED <<dir, key, keys, mode, release, archive, recorded, strayed, cut>>

RecordFact(f) ==
    /\ At("serve", "run")
    /\ dir' = [dir EXCEPT ![Live].db.facts = @ \cup {f}]
    /\ recorded' = recorded \cup {f}
    /\ UNCHANGED <<key, keys, mode, release, doing, archive, strayed, cut>>

StopDatabase ==
    /\ At("serve", "run")
    /\ doing' = Idle
    /\ UNCHANGED <<dir, key, keys, mode, release, archive, recorded, strayed, cut>>

-----------------------------------------------------------------------------

\* The encryption of a database that is encrypted already continues with its
\* copies; any other is opened first, created when it is missing.
BeginEncryption ==
    /\ doing = Idle
    /\ IF IsSealed(LiveFile)
       THEN /\ Opens(LiveFile)
            /\ doing' = [Idle EXCEPT !.cmd = "encrypt", !.at = "choose"]
            /\ UNCHANGED <<dir, key, keys, mode, release, archive, recorded, strayed, cut>>
       ELSE OpenDatabase("off", "encrypt")

TakeKey ==
    /\ At("encrypt", "key")
    /\ KeyCreated
    /\ doing' = Step("choose")
    /\ UNCHANGED <<dir, mode, release, archive, recorded, strayed, cut>>

\* Variant: the database before its copies.
LiveFirst ==
    IF IsPlain(LiveFile) THEN {Live} ELSE PlainSnapshots

\* The copies first, and the database last.
NextToSeal ==
    IF PlainSnapshots # {} THEN PlainSnapshots
    ELSE IF IsPlain(LiveFile) THEN {Live} ELSE {}

\* _replace_with_encrypted, first step: an encrypted export, verified.  Only this
\* process reads it, so that it is not part of the directory.
ExportSealed ==
    /\ At("encrypt", "choose")
    /\ \E p \in NextToSeal : doing' = [doing EXCEPT !.at = "aside", !.path = p]
    /\ UNCHANGED <<dir, key, keys, mode, release, archive, recorded, strayed, cut>>

\* An older rollback is removed, and the database takes its place.
SetAside ==
    /\ At("encrypt", "aside")
    /\ dir' = [dir EXCEPT ![doing.path].rollback = dir[doing.path].db,
                          ![doing.path].db = NoFile]
    /\ doing' = Step("replace")
    /\ UNCHANGED <<key, keys, mode, release, archive, recorded, strayed, cut>>

\* The export takes the database's place.
PutSealed ==
    /\ At("encrypt", "replace")
    /\ dir' = [dir EXCEPT ![doing.path].db = [dir[doing.path].rollback EXCEPT !.seal = key]]
    /\ doing' = Step("verify")
    /\ UNCHANGED <<key, keys, mode, release, archive, recorded, strayed, cut>>

\* Variant: the rollback is removed after a failure too.
Cleared(t) == [t EXCEPT !.rollback = NoFile]

\* A failure puts the rollback back.
PutBack(t) == [t EXCEPT !.db = t.rollback, !.rollback = NoFile]

\* The export or the replacement fails: the command ends with an error.
EncryptionFails ==
    /\ doing.cmd = "encrypt"
    /\ \/ doing.at = "aside" /\ UNCHANGED dir
       \/ /\ doing.at \in {"replace", "verify"}
          /\ dir' = [dir EXCEPT ![doing.path] = PutBack(@)]
    /\ doing' = Idle
    /\ UNCHANGED <<key, keys, mode, release, archive, recorded, strayed, cut>>

DropRollback ==
    /\ At("encrypt", "verify")
    /\ dir' = [dir EXCEPT ![doing.path].rollback = NoFile]
    /\ doing' = [doing EXCEPT !.at = "choose", !.path = Live]
    /\ UNCHANGED <<key, keys, mode, release, archive, recorded, strayed, cut>>

\* Everything is encrypted: the mode is written, and the command reports it.
Encrypted ==
    /\ At("encrypt", "choose")
    /\ NextToSeal = {}
    /\ mode' = "sqlcipher"
    /\ doing' = Idle
    /\ UNCHANGED <<dir, key, keys, release, archive, recorded, strayed, cut>>

-----------------------------------------------------------------------------

\* `backup export`: the directory without the key, and the configuration.
ExportArchive ==
    /\ doing = Idle
    /\ MaxArchives > 0 /\ archive = NoArchive /\ recorded # {}
    /\ LiveFile = NoFile \/ Opens(LiveFile)
    /\ archive' = [dir |-> dir, mode |-> mode]
    /\ UNCHANGED <<dir, key, keys, mode, release, doing, recorded, strayed, cut>>

\* `backup import --force`: the configuration is replaced first.
BeginRestore ==
    /\ doing = Idle
    /\ archive # NoArchive
    /\ mode' = archive.mode
    /\ doing' = [Idle EXCEPT !.cmd = "restore", !.at = "remove"]
    /\ UNCHANGED <<dir, key, keys, release, archive, recorded, strayed, cut>>

\* rmtree removes one path after the other, the key's file among them.
RemoveOne ==
    /\ At("restore", "remove")
    /\ \/ /\ \E p \in Paths : dir[p] # NoPair /\ dir' = [dir EXCEPT ![p] = NoPair]
          /\ UNCHANGED key
       \/ KeyInFile /\ key # Unsealed /\ key' = Unsealed /\ UNCHANGED dir
    /\ strayed' = TRUE
    /\ UNCHANGED <<keys, mode, release, doing, archive, recorded, cut>>

Removed ==
    /\ At("restore", "remove")
    /\ dir = NoArchive.dir
    /\ KeyInFile => key = Unsealed
    /\ doing' = Step("copy back")
    /\ UNCHANGED <<dir, key, keys, mode, release, archive, recorded, strayed, cut>>

CopyBack ==
    /\ At("restore", "copy back")
    /\ \E p \in Paths : /\ dir[p] # archive.dir[p]
                        /\ dir' = [dir EXCEPT ![p] = archive.dir[p]]
    /\ UNCHANGED <<key, keys, mode, release, doing, archive, recorded, strayed, cut>>

\* The key that opened the archive's database is stored, and the command ends.
Restored ==
    /\ At("restore", "copy back")
    /\ dir = archive.dir
    /\ key' = IF IsSealed(LiveFile) THEN LiveFile.seal ELSE key
    /\ doing' = Idle
    /\ IF LiveFile = NoFile THEN UNCHANGED <<recorded, strayed>>
       ELSE recorded' = LiveFile.facts /\ strayed' = FALSE
    /\ UNCHANGED <<dir, keys, mode, release, archive, cut>>

\* The process ends where it is.
Interrupt ==
    /\ doing # Idle
    /\ doing' = Idle
    /\ cut' = IF doing.at \in {"replace", "verify"} THEN cut \cup ({doing.path} \ {Live}) ELSE cut
    /\ UNCHANGED <<dir, key, keys, mode, release, archive, recorded, strayed>>

-----------------------------------------------------------------------------

DatabaseNext ==
    \/ InstallRelease
    \/ StartDatabase \/ TakeSnapshot \/ MigrateOne \/ Opened \/ OpenFails
    \/ (\E f \in Facts : RecordFact(f)) \/ StopDatabase
    \/ BeginEncryption \/ TakeKey \/ ExportSealed \/ SetAside \/ PutSealed
    \/ EncryptionFails \/ DropRollback \/ Encrypted
    \/ ExportArchive \/ BeginRestore \/ RemoveOne \/ Removed \/ CopyBack \/ Restored
    \/ Interrupt

DatabaseSpec == DatabaseInit /\ [][DatabaseNext]_databaseVars

-----------------------------------------------------------------------------
(***************************************************************************)
(* Properties.                                                             *)
(***************************************************************************)

\* The file holds everything that was recorded, and the stored key opens it.
Holds(f) == Opens(f) /\ recorded \subseteq f.facts

\* What was recorded is in the database, or in the rollback beside it when an
\* encryption has been interrupted between its two renames; except that a new
\* database may have been begun in the place of the one set aside, or a restore
\* may be under way or interrupted.
RecordsAreKept ==
    \/ strayed \/ recorded = {}
    \/ Holds(LiveFile)
    \/ LiveFile = NoFile /\ Holds(dir[Live].rollback)

\* The command encrypts the database only when no snapshot is left in plaintext,
\* neither under its own name nor as the hidden rollback of its conversion, whatever
\* failed and was repeated; except for the rollback of a snapshot at which the process
\* ended between the renames.  A later run does not look at it (it looks for "*.db"),
\* and seals the database, although src/hushclaw/cli/database.py:288-290 says that it
\* stays plaintext "until every historical copy is protected".
CopiesBeforeLive ==
    [][doing.cmd = "encrypt" /\ ~IsSealed(LiveFile) /\ IsSealed(LiveFile')
       => PlainSnapshots = {} /\ HiddenSnapshots \subseteq cut]_databaseVars

\* What cmd_database_encrypt says of itself: "An interruption is safely
\* resumable" (src/hushclaw/cli/database.py:288-290): when the command reports
\* success, the database holds what was recorded.
InterruptionIsResumable ==
    [][Encrypted => recorded \subseteq LiveFile.facts]_databaseVars

=============================================================================
