------------------------------- MODULE Backups -------------------------------
(***************************************************************************)
(* The backups of the database: perform_backup, rotate_backups and the     *)
(* worker that calls them (src/db/backup.rs).                              *)
(*                                                                         *)
(* A backup is a file named for the second it is begun in.  VACUUM INTO    *)
(* writes it, and leaves a part of it when the process stops or the disk   *)
(* is full; a rotation counts every file that ends in .db, whole or not.   *)
(*                                                                         *)
(* Abstracted: the interval, of which it matters that two backups of one   *)
(* worker are not begun in one second unless the clock is set back, and    *)
(* the permissions of the files.                                           *)
(***************************************************************************)
EXTENDS Naturals, FiniteSets, Maps

CONSTANTS
    MaxKept,  \* max_backups_kept
    MaxTime   \* bound of the model

ASSUME BackupsAssumption == MaxKept \in Nat /\ MaxTime \in Nat

VARIABLES
    files,     \* the directory: name -> [modified, whole]
    clock,
    due,       \* the ticker has ticked
    worker,    \* where the worker is
    latest,    \* history: the names of the last backup that succeeded
    setBack    \* history: the clock was set back

backupVars == <<files, clock, due, worker, latest, setBack>>

Resting == [step |-> "rest"]

(* Mutant: the oldest come first. *)
NewestLast(f, g) == files[f].modified < files[g].modified

(* files.sort_by(b.cmp(a)): f comes before g. *)
Before(f, g) == files[f].modified > files[g].modified

(* files.skip(max_kept), for some order of files of one second *)
Skipped(S) ==
    /\ S \subseteq DOMAIN files
    /\ Cardinality(S) = IF Cardinality(DOMAIN files) > MaxKept
                        THEN Cardinality(DOMAIN files) - MaxKept ELSE 0
    /\ \A f \in S, g \in DOMAIN files \ S : ~Before(f, g)

-----------------------------------------------------------------------------
(* VACUUM INTO refuses a file that is there. *)
BeginBackup ==
    /\ worker = Resting /\ due
    /\ due' = FALSE
    /\ IF clock \in DOMAIN files
       THEN UNCHANGED <<files, worker>>
       ELSE /\ files'  = Put(files, clock, [modified |-> clock, whole |-> FALSE])
            /\ worker' = [step |-> "vacuum", name |-> clock]
    /\ UNCHANGED <<clock, latest, setBack>>

(* The snapshot is whole; its permissions may not be set, which ends it.   *)
BackupDone ==
    /\ worker.step = "vacuum"
    /\ files'  = Put(files, worker.name, [modified |-> clock, whole |-> TRUE])
    /\ worker' \in {[step |-> "rotate"], Resting}
    /\ latest' = {worker.name}
    /\ UNCHANGED <<clock, due, setBack>>

(* The disk is full: a part of the file stays, or nothing. *)
BackupFails ==
    /\ worker.step = "vacuum"
    /\ files'  \in {files, Without(files, {worker.name})}
    /\ worker' = Resting
    /\ UNCHANGED <<clock, due, latest, setBack>>

(* rotate_backups reads the directory. *)
Rotate ==
    /\ worker.step = "rotate"
    /\ \E S \in SUBSET DOMAIN files :
        /\ Skipped(S)
        /\ worker' = [step |-> "prune", old |-> S]
    /\ UNCHANGED <<files, clock, due, latest, setBack>>

(* The files are removed from the newest on; an error passes over one.     *)
Prune ==
    /\ worker.step = "prune"
    /\ IF worker.old = {}
       THEN worker' = Resting /\ UNCHANGED files
       ELSE \E f \in worker.old :
                /\ \A g \in worker.old : ~Before(g, f)
                /\ worker' = [worker EXCEPT !.old = @ \ {f}]
                /\ files' \in {files, Without(files, {f})}
    /\ UNCHANGED <<clock, due, latest, setBack>>

(* The process stops and starts again. *)
Crash ==
    /\ worker' = Resting
    /\ due' = FALSE
    /\ UNCHANGED <<files, clock, latest, setBack>>

Second ==
    /\ clock < MaxTime
    /\ clock' = clock + 1
    /\ due' \in {due, TRUE}
    /\ UNCHANGED <<files, worker, latest, setBack>>

SetBack ==
    /\ clock' \in 0 .. clock - 1
    /\ setBack' = TRUE
    /\ UNCHANGED <<files, due, worker, latest>>

BackupsInit ==
    /\ files = << >> /\ clock = 0 /\ due = FALSE
    /\ worker = Resting /\ latest = {} /\ setBack = FALSE

BackupsNext ==
    BeginBackup \/ BackupDone \/ BackupFails \/ Rotate \/ Prune \/ Crash \/ Second \/ SetBack

BackupsSpec == BackupsInit /\ [][BackupsNext]_backupVars

-----------------------------------------------------------------------------
(* Properties *)

(* Whatever fails or stops in the middle, the last backup that succeeded   *)
(* is there and whole, as long as the clock is not set back and more than  *)
(* one are kept: parts of later ones and the rotation do not push it out.  *)
(* (Of two that were finished in one second by the clock of the directory  *)
(* a rotation that keeps one may keep either.)                             *)
LatestIsKept ==
    ~setBack /\ MaxKept > 1 => \A f \in latest : f \in DOMAIN files /\ files[f].whole
=============================================================================
