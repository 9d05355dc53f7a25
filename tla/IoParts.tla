------------------------------- MODULE IoParts -------------------------------
(***************************************************************************)
(* The logger, a save file, the file system, a checksum and the sockets    *)
(* side by side: the parts of the input and output that are proved about   *)
(* as well as model-checked.                                               *)
(***************************************************************************)
EXTENDS Logger

CONSTANTS
    MaxVersions, MaxFaults,                  \* SaveFile
    Names, MaxTime, MaxFailures, Aliases, Dirs, Packs,    \* FileSystem
    k_block_size, LengthSize, Pieces, MaxFed, \* Md5
    MaxFd                                    \* Net

VARIABLES
    disk, save_pc, good, committed, version, durable, faults,
    source, target, now, outcome, aliases, wanted, home, app_data, app_settings,
    md5, fed, finished,
    open, acceptor, accepted, sink, leaked

save_vars == <<disk, save_pc, good, committed, version, durable, faults>>
fs_vars == <<source, target, now, outcome, aliases, wanted, home, app_data, app_settings>>
md5_vars == <<md5, fed, finished>>
net_vars == <<open, acceptor, accepted, sink, leaked>>

S == INSTANCE SaveFile WITH pc <- save_pc
F == INSTANCE FileSystem
M == INSTANCE Md5
N == INSTANCE Net

ASSUME FilesAssumption == F!AliasAssumption
ASSUME DigestAssumption == M!Md5Assumption

(* The saved file and its backup are whole versions at any moment; one     *)
(* that commit() confirmed survives one crash or one failing call, and an  *)
(* abandoned save leaves no temporary file.                                *)
SaveSafe == S!SaveSafe

(* After a sync() that logged no error the target mirrors the source; a    *)
(* path with an alias finds its file in the merged pack and directory; the *)
(* data directory another program finds is the one last set up.            *)
FilesFound == F!SyncMirrors /\ F!MergedView /\ F!AppDataFound

(* The digest is that of the whole message, in whatever pieces it came.    *)
DigestOfMessage == M!DigestOfMessage

(* No two objects share a descriptor, and none closes another's.           *)
FdExclusive == N!FdExclusive
=============================================================================
