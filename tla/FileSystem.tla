----------------------------- MODULE FileSystem -----------------------------
(***************************************************************************)
(* kb::kfs::FileSystem (filesystem/filesystem.cpp): one directory is kept  *)
(* in step with another by sync(); aliases stand for a directory, a pack   *)
(* or both; the directories of the application are created below the home  *)
(* directory.                                                              *)
(*                                                                         *)
(* A directory is a function from names to entries; directories below the  *)
(* first level hold files only.  Every write happens at a later time than  *)
(* the one before.                                                         *)
(***************************************************************************)
EXTENDS Integers, Sequences, FiniteSets, SequencesExt

CONSTANTS
    Names,      \* the names in a directory
    MaxTime,    \* bound: writes and syncs
    MaxFailures, \* bound: copies and removals of one sync() that fail
    Aliases,    \* alias names
    Dirs,       \* directories that can be aliased, with the names they hold
    Packs       \* packs that can be aliased, with the names they hold

(* The aliases of the application's own directories are not given to       *)
(* others.                                                                 *)
AliasAssumption == Aliases \cap {"appdata", "config"} = {}

VARIABLES
    source, target,   \* the two directories of sync()
    now,              \* the time
    outcome,          \* how the last call of sync() ended, "none" before the first and after a write
    aliases,          \* aliases_
    wanted,           \* the directory and the pack last given for each alias
    home,             \* the directories that exist below the home directory
    app_data,         \* app_data_directory_, the path last set up
    app_settings      \* app_settings_directory_

vars == <<source, target, now, outcome, aliases, wanted, home, app_data, app_settings>>
tree_vars == <<source, target, now, outcome>>
alias_vars == <<aliases, wanted>>
home_vars == <<home, app_data, app_settings>>

-----------------------------------------------------------------------------
(* Synchronization.                                                        *)

Self == "."
NoEntry == [kind |-> "none"]
File(time, data) == [kind |-> "file", time |-> time, data |-> data]
Dir(sub) == [kind |-> "dir", sub |-> sub]
Exists(e) == e.kind # "none"
EmptyDir == [n \in Names |-> NoEntry]

\* The data of a file from elsewhere, and of one whose copy failed halfway.
Foreign == -2
Cut == -3

\* MUTANT: what exists is not written again.
sync_file_once(s, t, fails, cut) == IF Exists(t) THEN t ELSE File(now, s.data)

\* copy_file() stamps the copy with the time of the copy.  When it fails, which
\* is logged, the target is as it was, or holds a part of the file, with the
\* time of the attempt.
Stale(s, t) == s.kind = "file" /\ (~Exists(t) \/ (t.kind = "file" /\ s.time > t.time))
sync_file(s, t, fails, cut) ==
    IF ~Stale(s, t) THEN t
    ELSE IF ~fails THEN File(now, s.data)
    ELSE IF cut THEN File(now, Cut) ELSE t

\* remove_all() of a directory may fail with some of its files gone.
remove_all(t, fails, gone) ==
    IF ~fails THEN NoEntry
    ELSE IF t.kind = "dir" THEN Dir([m \in Names |-> IF m \in gone THEN NoEntry ELSE t.sub[m]])
    ELSE t

\* The entries below a directory; the names in errors are those whose copy or
\* removal fails.
Below(t) == IF Exists(t) THEN t.sub ELSE EmptyDir
sync_files(s, t, errors, cut) ==
    [m \in Names |-> IF Exists(s[m]) THEN sync_file(s[m], t[m], m \in errors, m \in cut)
                     ELSE remove_all(t[m], m \in errors, {})]

sync_entry(s, t, errors, cut) ==
    IF s.kind = "dir" THEN Dir(sync_files(s.sub, Below(t), errors, cut))
    ELSE sync_file(s, t, Self \in errors, Self \in cut)

\* An entry n of the directory fails as <<n, Self>>, one below it as <<n, m>>.
At(paths, n) == {m \in Names \union {Self} : <<n, m>> \in paths}

\* What the target no longer has in the source is removed last, unless an
\* exception came before.  Entries are visited in any order.
sync_directory(s, t, visited, thrown, errors, cut) ==
    [n \in Names |-> IF n \in visited THEN sync_entry(s[n], t[n], At(errors, n), At(cut, n))
                     ELSE IF ~thrown /\ ~Exists(s[n])
                          THEN remove_all(t[n], Self \in At(errors, n), At(cut, n))
                     ELSE t[n]]

\* The calls that may fail.  Those that copy a file over a directory, which
\* happens when the directory is older, always do.
MayFail(s, t) == Stale(s, t) \/ (s.kind = "file" /\ t.kind = "dir") \/ (~Exists(s) /\ Exists(t))
Fallible(visited, thrown) ==
    {<<n, Self>> : n \in {k \in Names : /\ k \in visited \/ (~thrown /\ ~Exists(source[k]))
                                       /\ MayFail(source[k], target[k])}}
    \union {p \in visited \X Names : /\ source[p[1]].kind = "dir"
                                     /\ MayFail(source[p[1]].sub[p[2]], Below(target[p[1]])[p[2]])}

\* Iterating over a file as if it were a directory throws, and so does a
\* directory that cannot be created.
Throws(s, t) == s.kind = "dir" /\ t.kind = "file"
Creates(s, t) == s.kind = "dir" /\ ~Exists(t)

Sync ==
    LET present == {n \in Names : Exists(source[n])}
        always == {n \in present : Throws(source[n], target[n])}
        created == {n \in present : Creates(source[n], target[n])}
    IN  /\ now < MaxTime /\ now' = now + 1
        /\ \E uncreated \in SUBSET created :
           \E visited \in SUBSET (present \ (always \union uncreated)) :
           \E thrown \in {always \union uncreated # {}} :
           \E errors \in SUBSET Fallible(visited, thrown) :
           \E cut \in SUBSET (errors \union {p \in Names \X Names : <<p[1], Self>> \in errors}) :
             /\ ~thrown => visited = present
             /\ Cardinality(errors) <= MaxFailures
             /\ target' = sync_directory(source, target, visited, thrown, errors, cut)
             /\ outcome' = IF thrown THEN "thrown" ELSE IF errors = {} THEN "done" ELSE "failed"
        /\ UNCHANGED <<source, alias_vars, home_vars>>

\* The target may not be written to: an error in the log.
SyncDenied ==
    /\ outcome' = "denied"
    /\ UNCHANGED <<source, target, now, alias_vars, home_vars>>

\* The user changes the source.
Write == \E n \in Names :
    /\ now < MaxTime /\ now' = now + 1
    /\ source' \in {[source EXCEPT ![n] = File(now, now)], [source EXCEPT ![n] = NoEntry]}
         \union IF source[n].kind = "dir"
                THEN {[source EXCEPT ![n].sub[m] = File(now, now)] : m \in Names}
                ELSE IF Exists(source[n]) THEN {} ELSE {[source EXCEPT ![n] = Dir(EmptyDir)]}
    /\ outcome' = "none"
    /\ UNCHANGED <<target, alias_vars, home_vars>>

-----------------------------------------------------------------------------
(* Aliases.                                                                *)

NoPath == "none"
NoAlias == [base |-> NoPath, pak |-> NoPath]
AliasNames == Aliases \union {"appdata", "config"}

alias_directory(a, dir) == [aliases EXCEPT ![a].base = dir]
alias_packfile(a, pack) == [aliases EXCEPT ![a].pak = pack]

GiveDirectory(a, dir) ==
    aliases' = alias_directory(a, dir) /\ wanted' = [wanted EXCEPT ![a].base = dir]

\* For directories that exist; the call does nothing for others.
AliasDirectory == \E a \in Aliases, dir \in DOMAIN Dirs :
    GiveDirectory(a, dir) /\ UNCHANGED <<tree_vars, home_vars>>

AliasPackfile == \E a \in AliasNames, pack \in DOMAIN Packs :
    /\ aliases' = alias_packfile(a, pack)
    /\ wanted' = [wanted EXCEPT ![a].pak = pack]
    /\ UNCHANGED <<tree_vars, home_vars>>

\* The directory a universal path with this alias is relative to.  An alias of
\* a pack alone has an empty base, and its paths are relative to the current directory.
to_regular_path(a) == IF aliases[a].base = NoPath THEN "cwd" ELSE aliases[a].base

\* The directories of the application are empty when they are made.
Holds(dir) == IF dir \in DOMAIN Dirs THEN Dirs[dir] ELSE {}

\* Behind a name that is no alias the path is empty.
parse_universal_path(a) == aliases[a] # NoAlias

\* Where get_input_stream() finds the file; it asserts that there is one.
get_input_stream(a, n) ==
    IF aliases[a].pak # NoPath /\ n \in Packs[aliases[a].pak] THEN aliases[a].pak
    ELSE IF parse_universal_path(a) /\ n \in Holds(to_regular_path(a)) THEN to_regular_path(a)
    ELSE "assert"

-----------------------------------------------------------------------------
(* The directories of the application, for one vendor and one name.        *)

\* "share" is ~/.local/share and "config" ~/.config; "appdata" and "settings"
\* are the application's directories there, the others those of the fallback.
data_candidates == <<"appdata", "fallback_appdata">>

AppDataPath == IF "share" \in home THEN "appdata" ELSE "fallback_appdata"
SettingsPath == IF "config" \in home THEN "settings" ELSE "fallback_settings"

\* The directory is created or was there, and gets its alias; or it cannot be
\* created, and false is returned with the path already set.
SetUp(dir, alias) ==
    \/ home' = home \union {dir} /\ GiveDirectory(alias, dir)
    \/ dir \notin home /\ UNCHANGED <<home, alias_vars>>

setup_app_data_directory ==
    /\ app_data' = AppDataPath
    /\ SetUp(AppDataPath, "appdata")
    /\ UNCHANGED <<app_settings, tree_vars>>

setup_settings_directory ==
    /\ app_settings' = SettingsPath
    /\ SetUp(SettingsPath, "config")
    /\ UNCHANGED <<app_data, tree_vars>>

\* Another program creates ~/.local/share or ~/.config.
MakeShared == \E d \in {"share", "config"} :
    /\ d \notin home
    /\ home' = home \union {d}
    /\ UNCHANGED <<app_data, app_settings, tree_vars, alias_vars>>

get_app_data_directory ==
    IF data_candidates[1] \in home THEN data_candidates[1]
    ELSE IF data_candidates[2] \in home THEN data_candidates[2] ELSE NoPath

-----------------------------------------------------------------------------
\* Files the target has had from elsewhere are older or newer than those of the source.
InitialSource == {NoEntry, File(2, -1)} \union {Dir([EmptyDir EXCEPT ![n] = File(2, -1)]) : n \in Names}
InitialTarget ==
    LET files == {NoEntry, File(1, Foreign), File(3, Foreign)}
    IN  files \union {Dir([EmptyDir EXCEPT ![n] = f]) : n \in Names, f \in files}

Init ==
    /\ source \in [Names -> InitialSource]
    /\ target \in [Names -> InitialTarget]
    /\ now = 4 /\ outcome = "none"
    /\ aliases = [a \in AliasNames |-> NoAlias]
    /\ wanted = [a \in AliasNames |-> NoAlias]
    /\ home = {} /\ app_data = NoPath /\ app_settings = NoPath

SyncNext == Sync \/ SyncDenied \/ Write
PathNext ==
    \/ AliasDirectory \/ AliasPackfile
    \/ setup_app_data_directory \/ setup_settings_directory \/ MakeShared
Next == SyncNext \/ PathNext

Spec == Init /\ [][Next]_vars

-----------------------------------------------------------------------------
(* Once sync() has returned without an error in the log, the target holds  *)
(* the names of the source, and of each file what the source holds, or a   *)
(* version that is not older and that somebody else put there, or that an  *)
(* earlier call left when its copy failed: a file cut short is newer than  *)
(* its source, and no later call repairs it.  A directory in the place of  *)
(* a file stays there.                                                     *)
InStep(s, t) ==
    \/ s.kind = "none" /\ t.kind = "none"
    \/ s.kind = "file" /\ t.kind = "dir"
    \/ s.kind = "file" /\ t.kind = "file" /\ (t.data = s.data \/ (t.data \in {Foreign, Cut} /\ t.time >= s.time))
SyncMirrors ==
    outcome = "done" =>
        \A n \in Names :
            \/ InStep(source[n], target[n])
            \/ /\ source[n].kind = "dir" /\ target[n].kind = "dir"
               /\ \A m \in Names : InStep(source[n].sub[m], target[n].sub[m])

(* After a call that logged no error, nothing changes the target before    *)
(* the source is written to: a second call copies and removes nothing,     *)
(* whatever would fail in it, and throws nothing.                          *)
SyncIdempotent ==
    [][outcome = "done" => target' = target /\ outcome' # "thrown"]_tree_vars

(* A file is found where the merged hierarchies of the last pack and the   *)
(* last directory given for the alias have it, the pack first.  Nothing is *)
(* claimed of a file that is in neither: filesystem.h has it created.      *)
MergedView ==
    \A a \in AliasNames, n \in Names :
        LET packed == wanted[a].pak # NoPath /\ n \in Packs[wanted[a].pak]
            dir == wanted[a].base
        IN  /\ packed => get_input_stream(a, n) = wanted[a].pak
            /\ ~packed /\ dir # NoPath /\ n \in Holds(dir) => get_input_stream(a, n) = dir

(* Another program that asks for the data directory of this one gets the   *)
(* one this one set up last, and the alias leads there.                    *)
AppDataFound ==
    app_data \in home =>
        get_app_data_directory = app_data /\ aliases["appdata"].base = app_data

-----------------------------------------------------------------------------
(* Why they hold.                                                          *)

Flat == {NoEntry} \union [kind : {"file"}, time : Int, data : Int]
Entries == Flat \union [kind : {"dir"}, sub : [Names -> Flat]]

(* Times lie in the past; a file of the target that is not older than the  *)
(* one of the source is a copy of it, or somebody else's.                  *)
Past(e, t) == e.kind = "file" => e.time < t
CopyOf(s, t) == s.kind = "file" /\ t.kind = "file" /\ s.time <= t.time => t.data \in {s.data, Foreign, Cut}
UpToDate(s, t) ==
    \/ s.kind = "none" /\ t.kind = "none"
    \/ s.kind = "file" /\ t.kind = "dir"
    \/ s.kind = "file" /\ t.kind = "file" /\ s.time <= t.time

(* The same of what is below a directory.                                  *)
AllPast(e, t) == Past(e, t) /\ (e.kind = "dir" => \A m \in Names : Past(e.sub[m], t))
AllCopies(s, t) ==
    /\ CopyOf(s, t)
    /\ s.kind = "dir" /\ t.kind = "dir" => \A m \in Names : CopyOf(s.sub[m], t.sub[m])
AllUpToDate(s, t) ==
    \/ UpToDate(s, t)
    \/ s.kind = "dir" /\ t.kind = "dir" /\ \A m \in Names : UpToDate(s.sub[m], t.sub[m])

TreeInv ==
    /\ now \in Int /\ source \in [Names -> Entries] /\ target \in [Names -> Entries]
    /\ \A n \in Names :
          /\ AllPast(source[n], now) /\ AllPast(target[n], now) /\ AllCopies(source[n], target[n])
          /\ outcome = "done" => AllUpToDate(source[n], target[n])

(* Aliases hold what they were given; the directory that get_app_data_-    *)
(* directory() finds first is made only once its parent is there to stay.  *)
AliasInv ==
    /\ aliases = wanted /\ wanted = [a \in AliasNames |-> wanted[a]]
    /\ \A a \in AliasNames : wanted[a] = [base |-> wanted[a].base, pak |-> wanted[a].pak]
HomeInv ==
    /\ home \subseteq {"share", "config", "appdata", "fallback_appdata", "settings", "fallback_settings"}
    /\ app_data \in {NoPath, "appdata", "fallback_appdata"}
    /\ "appdata" \in home => "share" \in home /\ app_data = "appdata"
    /\ app_data \in home => aliases["appdata"].base = app_data

Inv == TreeInv /\ AliasInv /\ HomeInv
=============================================================================
