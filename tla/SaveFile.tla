------------------------------ MODULE SaveFile ------------------------------
(***************************************************************************)
(* kb::kfs::SaveFile (filesystem/save_file.cpp): a new version of a file   *)
(* is written to a temporary one; commit() moves the current version to a  *)
(* backup and the temporary file into its place, one system call after the *)
(* other.  Any call can fail, and the program can stop between any two.    *)
(*                                                                         *)
(* A file holds 0 when it does not exist, n when it is the complete n-th   *)
(* version and -n when only a part of it was written.                      *)
(***************************************************************************)
EXTENDS Integers, FiniteSets, FiniteSetsExt

CONSTANTS
    MaxVersions,   \* bound: saves that are begun
    MaxFaults      \* bound: crashes and failures of the file system

VARIABLES
    disk,      \* what the files tmp, bak and dst hold
    pc,        \* how far the SaveFile object is
    good,      \* tmp_stream_.good()
    committed, \* committed_
    version,   \* the version being saved
    durable,   \* the last version for which commit() returned NO_ERROR
    faults     \* crashes and failures so far

vars == <<disk, pc, good, committed, version, durable, faults>>

none == 0

Init ==
    /\ disk = [tmp |-> none, bak |-> none, dst |-> none]
    /\ pc = "none" /\ good = TRUE /\ committed = FALSE
    /\ version = 0 /\ durable = 0 /\ faults = 0

Fault == faults < MaxFaults /\ faults' = faults + 1

\* The temporary file has a new name, and one a crash left behind is forgotten.
Open ==
    /\ pc = "none" /\ version < MaxVersions
    /\ version' = version + 1
    /\ pc' = "open" /\ committed' = FALSE
    /\ \/ good' = TRUE /\ disk' = [disk EXCEPT !.tmp = -version'] /\ UNCHANGED faults
       \/ good' = FALSE /\ disk' = [disk EXCEPT !.tmp = none] /\ Fault
    /\ UNCHANGED durable

\* The client writes the version to stream().
Write ==
    /\ pc = "open" /\ good /\ disk.tmp = -version
    /\ \/ disk' = [disk EXCEPT !.tmp = version] /\ UNCHANGED <<good, faults>>
       \/ good' = FALSE /\ UNCHANGED disk /\ Fault
    /\ UNCHANGED <<pc, committed, version, durable>>

\* commit(), up to the check of the stream.  A second commit(), after one that
\* could not rename, closes a closed file, which makes the stream bad.
Close ==
    /\ \/ pc = "open" /\ (~good \/ disk.tmp = version)
       \/ pc = "failed"
    /\ IF good /\ pc = "open" THEN pc' = "closed" /\ UNCHANGED <<disk, good>>
       ELSE pc' = "bad" /\ disk' = [disk EXCEPT !.tmp = none] /\ good' = FALSE
    /\ UNCHANGED <<committed, version, durable, faults>>

RemoveBackup ==
    /\ pc = "closed"
    /\ pc' = "unbacked" /\ disk' = [disk EXCEPT !.bak = none]
    /\ UNCHANGED <<good, committed, version, durable, faults>>

\* MUTANT: the old version is removed rather than moved.
MoveAsideLost ==
    /\ pc = "unbacked"
    /\ pc' = "aside" /\ disk' = [disk EXCEPT !.dst = none]
    /\ UNCHANGED <<good, committed, version, durable, faults>>

MoveAside ==
    /\ pc = "unbacked"
    /\ \/ /\ pc' = "aside" /\ UNCHANGED faults
          /\ disk' = IF disk.dst = none THEN disk
                     ELSE [disk EXCEPT !.bak = disk.dst, !.dst = none]
       \/ pc' = "failed" /\ UNCHANGED disk /\ Fault
    /\ UNCHANGED <<good, committed, version, durable>>

MoveIn ==
    /\ pc = "aside"
    /\ \/ /\ pc' = "renamed" /\ UNCHANGED faults
          /\ disk' = [disk EXCEPT !.dst = disk.tmp, !.tmp = none]
       \/ pc' = "failed" /\ UNCHANGED disk /\ Fault
    /\ UNCHANGED <<good, committed, version, durable>>

Finish ==
    /\ pc = "renamed"
    /\ pc' = "done" /\ committed' = TRUE /\ durable' = version
    /\ disk' = [disk EXCEPT !.tmp = none]
    /\ UNCHANGED <<good, version, faults>>

\* ~SaveFile(), with or without a commit() before.
Destroy ==
    /\ pc \in {"open", "bad", "failed", "done"}
    /\ pc' = "none"
    /\ disk' = IF committed THEN disk ELSE [disk EXCEPT !.tmp = none]
    /\ UNCHANGED <<good, committed, version, durable, faults>>

\* The program stops; so it does when the backup cannot be removed, for
\* commit() is noexcept and fs::remove() throws.
Crash ==
    /\ pc # "none" /\ Fault
    /\ pc' = "none"
    /\ UNCHANGED <<disk, good, committed, version, durable>>

Next ==
    \/ Open \/ Write \/ Close \/ RemoveBackup \/ MoveAside \/ MoveIn \/ Finish \/ Destroy
    \/ Crash

Spec == Init /\ [][Next]_vars

-----------------------------------------------------------------------------
\* Whoever opens the file or its backup, at any moment and after any crash,
\* reads a whole version.
NoTornFile == disk.dst >= 0 /\ disk.bak >= 0

\* A version commit() has confirmed is not lost to one crash or one failing
\* call: it, or a later complete one, is still on disk.
SaveKept == faults <= 1 => Max({disk.dst, disk.bak, disk.tmp}) >= durable

\* An abandoned save leaves nothing behind, and changes nothing but the backup.
NoLitter == pc = "none" /\ faults = 0 => disk.tmp = none /\ disk.dst = durable

(* The saved file and its backup are whole versions at any moment; one     *)
(* that commit() confirmed survives one crash or one failing call, and an  *)
(* abandoned save leaves no temporary file.                                *)
SaveSafe == NoTornFile /\ SaveKept /\ NoLitter

-----------------------------------------------------------------------------
(* The inductive invariant: what the three files hold at each step of      *)
(* commit(), and, as long as at most one thing went wrong, where the       *)
(* confirmed version is when no new one is on its way.                     *)
PC == {"none", "open", "closed", "bad", "failed", "unbacked", "aside", "renamed", "done"}

TypeOK ==
    /\ disk \in [tmp : Int, bak : Nat, dst : Nat] /\ pc \in PC
    /\ version \in Nat /\ durable \in Nat /\ durable <= version /\ faults \in Nat

Staged ==
    /\ pc = "open" /\ good => disk.tmp \in {-version, version}
    /\ pc \in {"closed", "unbacked", "aside", "failed"} => disk.tmp = version
    /\ pc = "unbacked" => disk.bak = none
    /\ pc \in {"renamed", "done"} => disk.dst = version /\ disk.tmp = none
    /\ pc = "done" => durable = version

Unharmed ==
    faults = 0 =>
        /\ pc = "none" => disk.tmp = none
        /\ pc # "failed"
        /\ pc = "aside" => disk.dst = none /\ disk.bak = durable
        /\ pc \notin {"aside", "renamed"} => disk.dst = durable

Survives ==
    faults <= 1 /\ pc \in {"none", "open", "bad", "failed"} =>
        disk.dst >= durable \/ disk.bak >= durable

Inv ==
    /\ TypeOK /\ Staged /\ Unharmed /\ Survives
    /\ pc \notin {"none", "done"} => ~committed
=============================================================================
