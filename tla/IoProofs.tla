------------------------------- MODULE IoProofs -------------------------------
(***************************************************************************)
(* Proofs about SaveFile, Net, FileSystem and Logger, for any number of    *)
(* versions, faults, descriptors, names, aliases, threads, sinks and       *)
(* entries.                                                                *)
(***************************************************************************)
EXTENDS IoParts, FiniteSetTheorems, SequenceTheorems, NaturalsInduction, WellFoundedInduction, TLAPS

-----------------------------------------------------------------------------
(* Save files.                                                             *)

(* Max of the three files.                                                 *)
LEMMA MaxOfThree ==
    ASSUME NEW a \in Int, NEW b \in Int, NEW c \in Int
    PROVE  \A d \in Int : a >= d \/ b >= d \/ c >= d => S!Max({a, b, c}) >= d
<1>1. \E x \in {a, b, c} : \A y \in {a, b, c} : x >= y
  OBVIOUS
<1>2. S!Max({a, b, c}) \in {a, b, c} /\ \A y \in {a, b, c} : S!Max({a, b, c}) >= y
  BY <1>1 DEF S!Max
<1>. QED
  BY <1>2

LEMMA SaveInit == S!Init => S!Inv
BY DEF S!Init, S!Inv, S!TypeOK, S!Staged, S!Unharmed, S!Survives, S!PC, S!none

(* Every system call of a save, failing or not, and a crash between any    *)
(* two.                                                                    *)
LEMMA SaveStep == S!Inv /\ [S!Next]_(S!vars) => S!Inv'
<1>. SUFFICES ASSUME S!Inv, [S!Next]_(S!vars) PROVE S!Inv'
  OBVIOUS
<1>. USE DEF S!Inv, S!TypeOK, S!Staged, S!Unharmed, S!Survives, S!PC, S!none, S!Fault
<1>1. CASE S!Open
  BY <1>1 DEF S!Open
<1>2. CASE S!Write
  <2>0. disk \in [tmp : Int, bak : Nat, dst : Nat] /\ version \in Int /\ disk.tmp = -version
    BY <1>2 DEF S!Write
  <2>a. disk' = [disk EXCEPT !.tmp = version] \/ disk' = disk
    BY <1>2 DEF S!Write
  <2>1. /\ disk'.bak = disk.bak /\ disk'.dst = disk.dst /\ disk'.tmp \in {version, disk.tmp}
        /\ disk.tmp = -version /\ disk' \in [tmp : Int, bak : Nat, dst : Nat]
    BY <2>0, <2>a
  <2>2. save_pc = "open" /\ save_pc' = save_pc /\ version' = version /\ durable' = durable
    BY <1>2 DEF S!Write
  <2>3. faults' \in {faults, faults + 1} /\ faults \in Nat
    BY <1>2 DEF S!Write
  <2>4. committed' = committed
    BY <1>2 DEF S!Write
  <2>5. S!TypeOK'
    BY <2>1, <2>2, <2>3
  <2>6. S!Staged'
    BY <2>1, <2>2
  <2>7. S!Unharmed' /\ S!Survives'
    BY <2>1, <2>2, <2>3
  <2>. QED
    BY <2>2, <2>4, <2>5, <2>6, <2>7
<1>3. CASE S!Close
  BY <1>3 DEF S!Close
<1>4. CASE S!RemoveBackup
  BY <1>4 DEF S!RemoveBackup
<1>5. CASE S!MoveAside
  <2>1. CASE save_pc' = "failed" /\ disk' = disk /\ S!Fault
    BY <1>5, <2>1 DEF S!MoveAside
  <2>2. CASE /\ save_pc' = "aside" /\ UNCHANGED faults
             /\ disk' = IF disk.dst = S!none THEN disk
                        ELSE [disk EXCEPT !.bak = disk.dst, !.dst = S!none]
    <3>1. /\ disk'.tmp = disk.tmp /\ disk'.bak = disk.dst /\ disk'.dst = S!none
          /\ disk' \in [tmp : Int, bak : Nat, dst : Nat]
      BY <1>5, <2>2 DEF S!MoveAside
    <3>. QED
      BY <1>5, <2>2, <3>1 DEF S!MoveAside
  <2>. QED
    BY <1>5, <2>1, <2>2 DEF S!MoveAside
<1>6. CASE S!MoveIn
  <2>1. CASE save_pc' = "failed" /\ disk' = disk /\ S!Fault
    BY <1>6, <2>1 DEF S!MoveIn
  <2>2. CASE /\ save_pc' = "renamed" /\ UNCHANGED faults
             /\ disk' = [disk EXCEPT !.dst = disk.tmp, !.tmp = S!none]
    <3>0. disk \in [tmp : Int, bak : Nat, dst : Nat] /\ version \in Nat /\ disk.tmp = version
      BY <1>6 DEF S!MoveIn
    <3>1. /\ disk'.tmp = S!none /\ disk'.bak = disk.bak /\ disk'.dst = version
          /\ disk' \in [tmp : Int, bak : Nat, dst : Nat]
      <4>. DEFINE moved == [disk EXCEPT !.dst = disk.tmp]
      <4>1. /\ moved \in [tmp : Int, bak : Nat, dst : Nat]
            /\ moved.bak = disk.bak /\ moved.dst = version
        BY <3>0
      <4>2. disk' = [moved EXCEPT !.tmp = S!none]
        BY <2>2
      <4>. HIDE DEF moved
      <4>. QED
        BY <4>1, <4>2
    <3>2. /\ save_pc = "aside" /\ version' = version /\ durable' = durable /\ durable <= version
          /\ faults' = faults
      BY <1>6, <2>2 DEF S!MoveIn
    <3>3. S!TypeOK' /\ S!Staged'
      BY <2>2, <3>1, <3>2
    <3>4. S!Unharmed' /\ S!Survives'
      BY <2>2, <3>1, <3>2
    <3>5. ~committed'
      BY <1>6, <3>2 DEF S!MoveIn
    <3>. QED
      BY <3>3, <3>4, <3>5
  <2>. QED
    BY <1>6, <2>1, <2>2 DEF S!MoveIn
<1>7. CASE S!Finish
  BY <1>7 DEF S!Finish
<1>8. CASE S!Destroy
  BY <1>8 DEF S!Destroy
<1>9. CASE S!Crash
  BY <1>9 DEF S!Crash
<1>10. CASE UNCHANGED S!vars
  BY <1>10 DEF S!vars
<1>. QED
  BY <1>1, <1>2, <1>3, <1>4, <1>5, <1>6, <1>7, <1>8, <1>9, <1>10 DEF S!Next

LEMMA SaveImplies == S!Inv => SaveSafe
<1>. SUFFICES ASSUME S!Inv PROVE SaveSafe
  OBVIOUS
<1>0. /\ disk.tmp \in Int /\ disk.bak \in Nat /\ disk.dst \in Nat
      /\ durable \in Nat /\ version \in Nat /\ durable <= version
  BY DEF S!Inv, S!TypeOK
<1>1. faults <= 1 => disk.dst >= durable \/ disk.bak >= durable \/ disk.tmp >= durable
  BY <1>0 DEF S!Inv, S!TypeOK, S!Staged, S!Survives, S!PC
<1>2. S!NoTornFile
  BY <1>0 DEF S!NoTornFile
<1>3. S!SaveKept
  BY <1>0, <1>1, MaxOfThree DEF S!SaveKept
<1>4. S!NoLitter
  BY DEF S!Inv, S!Unharmed, S!NoLitter
<1>. QED
  BY <1>2, <1>3, <1>4 DEF SaveSafe, S!SaveSafe

(* For any number of saves: nobody ever reads a torn file, a version that  *)
(* commit() confirmed survives one crash or one failing call at any        *)
(* moment, and a save without faults leaves nothing behind.                *)
THEOREM SaveSafeHolds == S!Spec => []SaveSafe
BY SaveInit, SaveStep, SaveImplies, PTL DEF S!Spec

-----------------------------------------------------------------------------
(* Descriptors.                                                            *)

(* A set of natural numbers has a least element.                           *)
LEMMA LeastNat ==
    ASSUME NEW X \in SUBSET Nat, X # {}
    PROVE  \E m \in X : \A k \in X : m <= k
<1>. DEFINE R == {p \in Nat \X Nat : p[1] < p[2]}
<1>1. IsWellFoundedOn(R, Nat)
  BY NatLessThanWellFounded DEF OpToRel
<1>2. PICK m \in X : \A k \in X : ~(<<k, m>> \in R)
  <2>. HIDE DEF R
  <2>. QED
    BY <1>1, WFMin
<1>3. \A k \in X : ~(k < m)
  BY <1>2
<1>. QED
  BY <1>3

(* The kernel gives out a descriptor that is not open.                     *)
LEMMA FreshFd ==
    ASSUME MaxFd \in Nat, N!Inv, N!Free # {}
    PROVE  N!Min(N!Free) \in N!Fds /\ N!Min(N!Free) \notin open
<1>1. N!Free \in SUBSET Nat
  BY DEF N!Free, N!Fds
<1>2. PICK m \in N!Free : \A k \in N!Free : m <= k
  BY <1>1, LeastNat
<1>3. N!Min(N!Free) \in N!Free
  BY <1>2 DEF N!Min
<1>. QED
  BY <1>3 DEF N!Free

LEMMA NetStep == ASSUME MaxFd \in Nat, N!Inv, [N!Next]_(N!vars) PROVE N!Inv'
<1>0. /\ \A fd \in N!socket : fd = N!Failed \/ (fd \in N!Fds /\ fd \notin open)
      /\ 0 \notin N!Fds /\ N!Failed \notin N!Fds /\ N!Failed # 0
  BY FreshFd DEF N!socket, N!Fds, N!Failed
<1>. USE DEF N!Inv, N!FdExclusive, N!Forgotten, N!Valid
<1>1. CASE N!StartFails
  <2>1. PICK fd \in N!socket : /\ acceptor.alive /\ ~acceptor.listening
                              /\ acceptor' = [acceptor EXCEPT !.lfd = fd]
                              /\ open' = open \union N!Valid(fd)
                              /\ leaked' = leaked \union N!Forgotten
                              /\ UNCHANGED <<accepted, sink>>
    BY <1>1 DEF N!StartFails
  <2>. QED
    BY <1>0, <2>1
<1>2. CASE N!Start
  <2>1. PICK fd \in N!socket \ {N!Failed} :
           /\ acceptor.alive /\ ~acceptor.listening
           /\ acceptor' = [acceptor EXCEPT !.lfd = fd, !.listening = TRUE]
           /\ open' = open \union {fd}
           /\ leaked' = leaked \union N!Forgotten
           /\ UNCHANGED <<accepted, sink>>
    BY <1>2 DEF N!Start
  <2>2. /\ acceptor'.alive /\ acceptor'.listening /\ acceptor'.lfd = fd
        /\ acceptor' \in [alive : BOOLEAN, lfd : N!Fds \union {0, N!Failed}, listening : BOOLEAN]
        /\ fd \in N!Fds /\ fd \notin open
    BY <1>0, <2>1
  <2>3. N!FdExclusive'
    BY <1>0, <2>1, <2>2
  <2>. QED
    BY <2>1, <2>2, <2>3
<1>3. CASE N!Accept
  BY <1>0, <1>3 DEF N!Accept
<1>4. CASE N!DestroyAcceptor
  BY <1>0, <1>4 DEF N!DestroyAcceptor
<1>5. CASE N!NewAcceptor
  BY <1>0, <1>5 DEF N!NewAcceptor
<1>6. CASE N!DestroyStream
  BY <1>0, <1>6 DEF N!DestroyStream
<1>7. CASE N!Connect
  BY <1>0, <1>7 DEF N!Connect
<1>8. CASE N!DestroySink
  BY <1>0, <1>8 DEF N!DestroySink
<1>9. CASE UNCHANGED N!vars
  BY <1>9 DEF N!vars
<1>. QED
  BY <1>1, <1>2, <1>3, <1>4, <1>5, <1>6, <1>7, <1>8, <1>9 DEF N!Next

(* For any number of descriptors, none included: whatever fails, socket()  *)
(* too, or is forgotten, every object that is alive has no descriptor or   *)
(* an open one of its own, and an acceptor that listens has one.           *)
THEOREM FdExclusiveHolds == ASSUME MaxFd \in Nat PROVE N!Spec => []FdExclusive
<1>1. N!Init => N!Inv
  BY DEF N!Init, N!Inv, N!FdExclusive, N!Fds, N!Valid, N!Failed
<1>2. N!Inv /\ [N!Next]_(N!vars) => N!Inv'
  BY NetStep
<1>3. N!Inv => FdExclusive
  BY DEF N!Inv, FdExclusive
<1>. QED
  BY <1>1, <1>2, <1>3, PTL DEF N!Spec

-----------------------------------------------------------------------------
(* Files in sync, aliases, and the directories of the application.         *)

(* What becomes of a file of the target.                                   *)
LEMMA SyncFile ==
    ASSUME now \in Int, NEW s \in F!Flat, s.kind = "file", NEW t \in F!Entries,
           F!Past(s, now), F!Past(t, now), F!CopyOf(s, t),
           NEW fails \in BOOLEAN, NEW cut \in BOOLEAN
    PROVE  LET r == F!sync_file(s, t, fails, cut)
           IN  /\ r \in F!Entries /\ (t \in F!Flat => r \in F!Flat)
               /\ F!Past(r, now + 1) /\ F!CopyOf(s, r) /\ (~fails => F!UpToDate(s, r))
               /\ F!UpToDate(s, t) => r = t
               /\ r = t \/ r.kind = "file"
<1>. DEFINE copy == F!File(now, s.data)
            part == F!File(now, F!Cut)
            r == F!sync_file(s, t, fails, cut)
<1>1. s \in [kind : {"file"}, time : Int, data : Int]
  BY DEF F!Flat, F!NoEntry
<1>2. /\ copy \in [kind : {"file"}, time : Int, data : Int]
      /\ copy.kind = "file" /\ copy.time = now /\ copy.data = s.data
  BY <1>1 DEF F!File
<1>3. copy \in F!Flat /\ copy \in F!Entries
  BY <1>2 DEF F!Flat, F!Entries
<1>10. /\ part \in [kind : {"file"}, time : Int, data : Int]
       /\ part.kind = "file" /\ part.time = now /\ part.data = F!Cut
  BY DEF F!File, F!Cut
<1>11. part \in F!Flat /\ part \in F!Entries
  BY <1>10 DEF F!Flat, F!Entries
<1>4. \/ t.kind = "none"
      \/ t.kind = "file" /\ t.time \in Int /\ t.time < now
      \/ t.kind = "dir"
  BY DEF F!Entries, F!Flat, F!NoEntry, F!Past
<1>5. s.time \in Int /\ s.time < now
  BY <1>1 DEF F!Past
<1>6. \/ r = copy
      \/ r = part /\ fails
      \/ r = t /\ (fails \/ t.kind = "dir" \/ (t.kind = "file" /\ s.time <= t.time))
  BY <1>4, <1>5 DEF F!sync_file, F!Stale, F!Exists
<1>7. F!UpToDate(s, t) => r = t
  BY <1>4, <1>5 DEF F!sync_file, F!Stale, F!Exists, F!UpToDate
<1>8. CASE r = copy
  <2>1. F!Past(copy, now + 1) /\ F!CopyOf(s, copy) /\ F!UpToDate(s, copy)
    BY <1>2, <1>5 DEF F!Past, F!CopyOf, F!UpToDate
  <2>. HIDE DEF copy, r
  <2>. QED
    BY <1>2, <1>3, <1>7, <1>8, <2>1 DEF r
<1>9. CASE r = t /\ (fails \/ t.kind = "dir" \/ (t.kind = "file" /\ s.time <= t.time))
  <2>1. F!Past(t, now + 1) /\ (~fails => F!UpToDate(s, t))
    BY <1>4, <1>9 DEF F!Past, F!UpToDate
  <2>. HIDE DEF r
  <2>. QED
    BY <1>9, <2>1 DEF r
<1>12. CASE r = part /\ fails
  <2>1. F!Past(part, now + 1) /\ F!CopyOf(s, part)
    BY <1>10, <1>5 DEF F!Past, F!CopyOf
  <2>. HIDE DEF part, r
  <2>. QED
    BY <1>7, <1>10, <1>11, <1>12, <2>1 DEF r
<1>. QED
  BY <1>6, <1>8, <1>9, <1>12

(* A condition is a truth value.                                           *)
LEMMA Flag == ASSUME NEW x, NEW xs PROVE \E b \in BOOLEAN : b = (x \in xs)
<1>1. CASE x \in xs
  <2>1. (x \in xs) = TRUE
    BY <1>1
  <2>. WITNESS TRUE \in BOOLEAN
  <2>. QED
    BY <2>1
<1>2. CASE x \notin xs
  <2>1. (x \in xs) = FALSE
    BY <1>2
  <2>. WITNESS FALSE \in BOOLEAN
  <2>. QED
    BY <2>1
<1>. QED
  BY <1>1, <1>2

(* What becomes of the files below a directory.                            *)
LEMMA SyncFiles ==
    ASSUME now \in Int, NEW s \in [Names -> F!Flat], NEW t \in [Names -> F!Flat],
           \A m \in Names : F!Past(s[m], now) /\ F!Past(t[m], now) /\ F!CopyOf(s[m], t[m]),
           NEW errors, NEW cut
    PROVE  LET f == F!sync_files(s, t, errors, cut)
           IN  /\ f \in [Names -> F!Flat]
               /\ \A m \in Names : F!Past(f[m], now + 1) /\ F!CopyOf(s[m], f[m])
               /\ errors = {} => \A m \in Names : F!UpToDate(s[m], f[m])
               /\ (\A m \in Names : F!UpToDate(s[m], t[m])) => f = t
<1>. DEFINE f == F!sync_files(s, t, errors, cut)
<1>1. ASSUME NEW m \in Names
      PROVE  /\ f[m] \in F!Flat /\ F!Past(f[m], now + 1) /\ F!CopyOf(s[m], f[m])
             /\ m \notin errors => F!UpToDate(s[m], f[m])
             /\ F!UpToDate(s[m], t[m]) => f[m] = t[m]
  <2>1. s[m].kind \in {"none", "file"}
    BY DEF F!Flat, F!NoEntry
  <2>2. CASE s[m].kind = "file"
    <3>1. t[m] \in F!Entries
      BY DEF F!Entries
    <3>2. PICK fails \in BOOLEAN, half \in BOOLEAN : fails = (m \in errors) /\ half = (m \in cut)
      BY Flag
    <3>3. f[m] = F!sync_file(s[m], t[m], fails, half)
      BY <2>2, <3>2 DEF F!sync_files, F!Exists
    <3>4. PICK a \in F!Flat, c \in F!Flat :
             /\ a = s[m] /\ c = t[m] /\ c \in F!Entries /\ a.kind = "file"
             /\ F!Past(a, now) /\ F!Past(c, now) /\ F!CopyOf(a, c)
      BY <2>2, <3>1
    <3>. DEFINE r == F!sync_file(a, c, fails, half)
    <3>5. /\ r \in F!Flat /\ F!Past(r, now + 1) /\ F!CopyOf(a, r)
          /\ ~fails => F!UpToDate(a, r)
          /\ F!UpToDate(a, c) => r = c
      BY <3>4, SyncFile
    <3>6. f[m] = r
      BY <3>3, <3>4
    <3>. HIDE DEF f, r
    <3>. QED
      BY <3>2, <3>4, <3>5, <3>6
  <2>3. CASE s[m].kind = "none"
    <3>0. t[m] \in F!Flat /\ t[m].kind # "dir" /\ F!Past(t[m], now + 1)
      <4>1. t[m] = F!NoEntry \/ t[m] \in [kind : {"file"}, time : Int, data : Int]
        BY DEF F!Flat
      <4>. QED
        BY <4>1 DEF F!Past, F!NoEntry, F!Flat
    <3>1. f[m] = F!NoEntry \/ (m \in errors /\ f[m] = t[m])
      BY <2>3, <3>0 DEF F!sync_files, F!remove_all, F!Exists
    <3>2. F!UpToDate(s[m], t[m]) => t[m] = F!NoEntry
      BY <2>3 DEF F!UpToDate, F!Flat, F!NoEntry
    <3>. HIDE DEF f
    <3>. QED
      BY <2>3, <3>0, <3>1, <3>2 DEF F!Past, F!CopyOf, F!UpToDate, F!Flat, F!NoEntry
  <2>. QED
    BY <2>1, <2>2, <2>3
<1>2. f = [m \in Names |-> f[m]]
  BY DEF F!sync_files
<1>. HIDE DEF f
<1>3. f \in [Names -> F!Flat]
  BY <1>1, <1>2
<1>4. (\A m \in Names : F!UpToDate(s[m], t[m])) => f = t
  BY <1>1, <1>3
<1>. QED
  BY <1>1, <1>3, <1>4 DEF f

(* What becomes of an entry that is in the source.                         *)
LEMMA SyncEntry ==
    ASSUME now \in Int, NEW s \in F!Entries, F!Exists(s), NEW t \in F!Entries, ~F!Throws(s, t),
           F!AllPast(s, now), F!AllPast(t, now), F!AllCopies(s, t), NEW errors, NEW cut
    PROVE  LET r == F!sync_entry(s, t, errors, cut)
           IN  /\ r \in F!Entries /\ F!AllPast(r, now + 1) /\ F!AllCopies(s, r)
               /\ errors = {} => F!AllUpToDate(s, r)
               /\ F!AllUpToDate(s, t) => r = t
<1>. DEFINE r == F!sync_entry(s, t, errors, cut)
<1>1. s.kind \in {"file", "dir"} /\ t.kind \in {"none", "file", "dir"}
  BY DEF F!Entries, F!Flat, F!NoEntry, F!Exists
<1>2. CASE s.kind = "file"
  <2>0. PICK fails \in BOOLEAN, half \in BOOLEAN : fails = (F!Self \in errors) /\ half = (F!Self \in cut)
    BY Flag
  <2>1. s \in F!Flat /\ r = F!sync_file(s, t, fails, half)
    BY <1>2, <2>0 DEF F!Entries, F!sync_entry
  <2>2. F!Past(s, now) /\ F!Past(t, now) /\ F!CopyOf(s, t)
    BY DEF F!AllPast, F!AllCopies
  <2>. HIDE DEF r
  <2>3. /\ r \in F!Entries /\ F!Past(r, now + 1) /\ F!CopyOf(s, r) /\ (~fails => F!UpToDate(s, r))
        /\ F!UpToDate(s, t) => r = t
        /\ r = t \/ r.kind = "file"
    BY <1>2, <2>1, <2>2, SyncFile
  <2>4. r.kind = "dir" => r = t
    BY <2>3
  <2>5. ASSUME r.kind = "dir", NEW m \in Names PROVE F!Past(r.sub[m], now + 1)
    <3>1. F!Past(t.sub[m], now) /\ t.sub[m] \in F!Flat
      BY <2>4, <2>5 DEF F!AllPast, F!Entries, F!Flat, F!NoEntry
    <3>. QED
      BY <2>4, <2>5, <3>1 DEF F!Past, F!Flat, F!NoEntry
  <2>6. F!AllUpToDate(s, t) => F!UpToDate(s, t)
    BY <1>2 DEF F!AllUpToDate
  <2>7. errors = {} => ~fails
    BY <2>0, Zenon
  <2>. QED
    BY <1>2, <2>3, <2>5, <2>6, <2>7 DEF F!AllPast, F!AllCopies, F!AllUpToDate, r
<1>3. CASE s.kind = "dir"
  <2>. DEFINE below == F!Below(t)
              f == F!sync_files(s.sub, below, errors, cut)
  <2>1. t.kind \in {"none", "dir"}
    BY <1>1, <1>3 DEF F!Throws
  <2>2. s.sub \in [Names -> F!Flat] /\ (t.kind = "dir" => t.sub \in [Names -> F!Flat])
    BY <1>3 DEF F!Entries, F!Flat, F!NoEntry
  <2>3. F!EmptyDir \in [Names -> F!Flat] /\ \A m \in Names : F!EmptyDir[m].kind = "none"
    BY DEF F!EmptyDir, F!Flat, F!NoEntry
  <2>4. below \in [Names -> F!Flat]
    BY <2>1, <2>2, <2>3 DEF F!Exists, F!Below
  <2>5. \A m \in Names : F!Past(s.sub[m], now) /\ F!Past(below[m], now) /\ F!CopyOf(s.sub[m], below[m])
    <3>1. CASE t.kind = "dir"
      BY <1>3, <3>1 DEF F!Exists, F!Below, F!AllPast, F!AllCopies
    <3>2. CASE t.kind = "none"
      BY <1>3, <2>3, <3>2 DEF F!Exists, F!Below, F!AllPast, F!Past, F!CopyOf
    <3>. QED
      BY <2>1, <3>1, <3>2
  <2>. HIDE DEF below
  <2>6. /\ f \in [Names -> F!Flat]
        /\ \A m \in Names : F!Past(f[m], now + 1) /\ F!CopyOf(s.sub[m], f[m])
        /\ errors = {} => \A m \in Names : F!UpToDate(s.sub[m], f[m])
        /\ (\A m \in Names : F!UpToDate(s.sub[m], below[m])) => f = below
    BY <2>2, <2>4, <2>5, SyncFiles
  <2>7. r = F!Dir(f)
    BY <1>3 DEF F!sync_entry, below
  <2>. HIDE DEF f, r
  <2>8. r.kind = "dir" /\ r.sub = f /\ r \in F!Entries
    BY <2>6, <2>7 DEF F!Dir, F!Entries
  <2>9. F!AllPast(r, now + 1) /\ F!AllCopies(s, r) /\ (errors = {} => F!AllUpToDate(s, r))
    BY <1>3, <2>6, <2>8 DEF F!AllPast, F!AllCopies, F!AllUpToDate, F!Past, F!CopyOf
  <2>10. ASSUME F!AllUpToDate(s, t) PROVE r = t
    <3>1. t.kind = "dir" /\ below = t.sub /\ \A m \in Names : F!UpToDate(s.sub[m], t.sub[m])
      BY <1>3, <2>10 DEF F!AllUpToDate, F!UpToDate, below, F!Below, F!Exists
    <3>2. t = [kind |-> "dir", sub |-> t.sub]
      BY <3>1 DEF F!Entries, F!Flat, F!NoEntry
    <3>. QED
      BY <2>6, <2>7, <3>1, <3>2 DEF F!Dir
  <2>. QED
    BY <2>8, <2>9, <2>10 DEF r
<1>. QED
  BY <1>1, <1>2, <1>3

LEMMA Later ==
    ASSUME now \in Int, NEW e \in F!Entries, F!AllPast(e, now)
    PROVE  F!AllPast(e, now + 1)
<1>1. e.kind = "file" => e.time \in Int
  BY DEF F!Entries, F!Flat, F!NoEntry
<1>2. e.kind = "dir" => \A m \in Names : e.sub[m] \in F!Flat /\ (e.sub[m].kind = "file" => e.sub[m].time \in Int)
  BY DEF F!Entries, F!Flat, F!NoEntry
<1>. QED
  BY <1>1, <1>2 DEF F!AllPast, F!Past

(* An entry the user has just written is newer than whatever the target    *)
(* has.                                                                    *)
LEMMA FileWritten ==
    ASSUME now \in Int, NEW s \in F!Entries, NEW t \in F!Entries,
           F!AllPast(s, now), F!AllPast(t, now), F!AllCopies(s, t),
           NEW e, \/ e \in {F!NoEntry, F!File(now, now), F!Dir(F!EmptyDir)}
                  \/ s.kind = "dir" /\ \E m \in Names : e = [s EXCEPT !.sub[m] = F!File(now, now)]
    PROVE  e \in F!Entries /\ F!AllPast(e, now + 1) /\ F!AllCopies(e, t)
<1>. DEFINE file == F!File(now, now)
<1>1. /\ file \in [kind : {"file"}, time : Int, data : Int]
      /\ file.kind = "file" /\ file.time = now
  BY DEF F!File
<1>2. file \in F!Flat /\ F!Past(file, now + 1)
  BY <1>1 DEF F!Flat, F!Past
<1>3. \A u \in F!Entries : F!Past(u, now) => F!CopyOf(file, u)
  BY <1>1 DEF F!Past, F!CopyOf, F!Entries, F!Flat, F!NoEntry
<1>. HIDE DEF file
<1>4. CASE e = F!NoEntry
  BY <1>4 DEF F!NoEntry, F!Entries, F!Flat, F!AllPast, F!Past, F!AllCopies, F!CopyOf
<1>5. CASE e = file
  BY <1>1, <1>2, <1>3, <1>5 DEF F!Entries, F!AllPast, F!AllCopies
<1>6. CASE e = F!Dir(F!EmptyDir)
  <2>1. F!EmptyDir \in [Names -> F!Flat] /\ \A m \in Names : F!EmptyDir[m].kind = "none"
    BY DEF F!EmptyDir, F!Flat, F!NoEntry
  <2>2. e.kind = "dir" /\ e.sub = F!EmptyDir /\ e \in F!Entries
    BY <1>6, <2>1 DEF F!Dir, F!Entries
  <2>. QED
    BY <2>1, <2>2 DEF F!AllPast, F!Past, F!AllCopies, F!CopyOf
<1>7. ASSUME s.kind = "dir", NEW m \in Names, e = [s EXCEPT !.sub[m] = file]
      PROVE  e \in F!Entries /\ F!AllPast(e, now + 1) /\ F!AllCopies(e, t)
  <2>1. s \in [kind : {"dir"}, sub : [Names -> F!Flat]]
    BY <1>7 DEF F!Entries, F!Flat, F!NoEntry
  <2>2. /\ e.kind = "dir" /\ e.sub = [s.sub EXCEPT ![m] = file]
        /\ e \in [kind : {"dir"}, sub : [Names -> F!Flat]]
    BY <1>2, <1>7, <2>1
  <2>3. e.sub[m] = file /\ \A k \in Names \ {m} : e.sub[k] = s.sub[k]
    BY <2>1, <2>2
  <2>4. F!AllPast(s, now + 1)
    BY Later
  <2>5. F!AllPast(e, now + 1)
    BY <1>2, <1>7, <2>2, <2>3, <2>4 DEF F!AllPast, F!Past
  <2>6. ASSUME t.kind = "dir", NEW k \in Names PROVE F!CopyOf(e.sub[k], t.sub[k])
    <3>1. t.sub[k] \in F!Entries /\ F!Past(t.sub[k], now)
      BY <2>6 DEF F!AllPast, F!Entries, F!Flat, F!NoEntry
    <3>. QED
      BY <1>3, <1>7, <2>3, <2>6, <3>1 DEF F!AllCopies
  <2>7. F!CopyOf(e, t)
    BY <2>2 DEF F!CopyOf
  <2>. QED
    BY <2>2, <2>5, <2>6, <2>7 DEF F!AllCopies, F!Entries
<1>. QED
  BY <1>4, <1>5, <1>6, <1>7 DEF file

(* What becomes of an entry that is not in the source.                     *)
LEMMA Removed ==
    ASSUME now \in Int, NEW s \in F!Entries, s.kind = "none", NEW t \in F!Entries, F!AllPast(t, now),
           NEW fails \in BOOLEAN, NEW gone
    PROVE  LET r == F!remove_all(t, fails, gone)
           IN  /\ r \in F!Entries /\ F!AllPast(r, now + 1) /\ F!AllCopies(s, r)
               /\ ~fails => F!AllUpToDate(s, r)
               /\ F!AllUpToDate(s, t) => r = t
<1>. DEFINE r == F!remove_all(t, fails, gone)
            left == [m \in Names |-> IF m \in gone THEN F!NoEntry ELSE t.sub[m]]
<1>1. F!AllPast(t, now + 1)
  BY Later
<1>2. F!AllUpToDate(s, t) => t = F!NoEntry
  BY DEF F!AllUpToDate, F!UpToDate, F!Entries, F!Flat, F!NoEntry
<1>3. \A u : F!AllCopies(s, u)
  BY DEF F!AllCopies, F!CopyOf
<1>4. F!NoEntry \in F!Entries /\ F!AllPast(F!NoEntry, now + 1) /\ F!AllUpToDate(s, F!NoEntry) /\ F!NoEntry.kind = "none"
  BY DEF F!NoEntry, F!Entries, F!Flat, F!AllPast, F!Past, F!AllUpToDate, F!UpToDate
<1>5. CASE ~fails
  BY <1>2, <1>3, <1>4, <1>5 DEF F!remove_all
<1>6. CASE fails /\ t.kind # "dir"
  BY <1>1, <1>3, <1>6 DEF F!remove_all
<1>7. CASE fails /\ t.kind = "dir"
  <2>1. t.sub \in [Names -> F!Flat]
    BY <1>7 DEF F!Entries, F!Flat, F!NoEntry
  <2>2. left \in [Names -> F!Flat]
    BY <2>1 DEF F!Flat
  <2>3. \A m \in Names : F!Past(left[m], now + 1)
    BY <1>1, <1>7 DEF F!AllPast, F!Past, F!NoEntry
  <2>4. r = F!Dir(left)
    BY <1>7 DEF F!remove_all
  <2>. HIDE DEF left, r
  <2>5. r.kind = "dir" /\ r.sub = left /\ r \in F!Entries
    BY <2>2, <2>4 DEF F!Dir, F!Entries
  <2>6. F!AllPast(r, now + 1)
    BY <2>3, <2>5 DEF F!AllPast, F!Past
  <2>. QED
    BY <1>2, <1>3, <1>4, <1>7, <2>5, <2>6 DEF r
<1>. QED
  BY <1>5, <1>6, <1>7

(* What a call of sync() makes of each entry.                              *)
LEMMA Synced ==
    ASSUME F!TreeInv, F!Sync, NEW n \in Names
    PROVE  /\ target'[n] \in F!Entries /\ F!AllPast(target'[n], now + 1) /\ F!AllCopies(source[n], target'[n])
           /\ outcome' = "done" => F!AllUpToDate(source[n], target'[n])
           /\ F!AllUpToDate(source[n], target[n]) => target'[n] = target[n]
<1>. DEFINE present == {k \in Names : F!Exists(source[k])}
            always == {k \in present : F!Throws(source[k], target[k])}
            created == {k \in present : F!Creates(source[k], target[k])}
<1>1. /\ now \in Int /\ source[n] \in F!Entries /\ target[n] \in F!Entries
      /\ F!AllPast(source[n], now) /\ F!AllPast(target[n], now) /\ F!AllCopies(source[n], target[n])
  BY DEF F!TreeInv
<1>2. PICK uncreated, visited, thrown, errors, cut :
         /\ uncreated \in SUBSET created
         /\ visited \in SUBSET (present \ (always \union uncreated))
         /\ thrown = (always \union uncreated # {})
         /\ ~thrown => visited = present
         /\ target' = F!sync_directory(source, target, visited, thrown, errors, cut)
         /\ outcome' = IF thrown THEN "thrown" ELSE IF errors = {} THEN "done" ELSE "failed"
  BY DEF F!Sync
<1>3. outcome' = "done" => errors = {} /\ F!At(errors, n) = {} /\ visited = present
  BY <1>2 DEF F!At
<1>4. CASE n \in visited
  <2>1. F!Exists(source[n]) /\ ~F!Throws(source[n], target[n])
    BY <1>2, <1>4
  <2>2. target'[n] = F!sync_entry(source[n], target[n], F!At(errors, n), F!At(cut, n))
    BY <1>2, <1>4 DEF F!sync_directory
  <2>. QED
    BY <1>1, <1>3, <2>1, <2>2, SyncEntry
<1>5. CASE n \notin visited /\ ~thrown /\ ~F!Exists(source[n])
  <2>1. PICK fails \in BOOLEAN : fails = (F!Self \in F!At(errors, n))
    BY Flag
  <2>2. target'[n] = F!remove_all(target[n], fails, F!At(cut, n))
    BY <1>2, <1>5, <2>1 DEF F!sync_directory
  <2>3. outcome' = "done" => ~fails
    BY <1>3, <2>1
  <2>4. source[n].kind = "none"
    BY <1>5 DEF F!Exists
  <2>. QED
    BY <1>1, <2>2, <2>3, <2>4, Removed
<1>6. CASE n \notin visited /\ (thrown \/ F!Exists(source[n]))
  <2>1. target'[n] = target[n]
    BY <1>2, <1>6 DEF F!sync_directory
  <2>2. outcome' # "done"
    BY <1>2, <1>6
  <2>. QED
    BY <1>1, <2>1, <2>2, Later
<1>. QED
  BY <1>4, <1>5, <1>6

LEMMA TreeStep == F!TreeInv /\ [F!Next]_(F!vars) => F!TreeInv'
<1>. SUFFICES ASSUME F!TreeInv, [F!Next]_(F!vars) PROVE F!TreeInv'
  OBVIOUS
<1>1. now \in Int /\ source \in [Names -> F!Entries] /\ target \in [Names -> F!Entries]
  BY DEF F!TreeInv
<1>2. CASE F!Sync
  <2>1. now' = now + 1 /\ source' = source
    BY <1>2 DEF F!Sync
  <2>2. target' = [n \in Names |-> target'[n]]
    BY <1>2 DEF F!Sync, F!sync_directory
  <2>3. target' \in [Names -> F!Entries]
    BY <1>2, <2>2, Synced
  <2>4. ASSUME NEW n \in Names
        PROVE  /\ F!AllPast(source[n], now + 1) /\ F!AllPast(target'[n], now + 1) /\ F!AllCopies(source[n], target'[n])
               /\ outcome' = "done" => F!AllUpToDate(source[n], target'[n])
    <3>1. F!AllPast(source[n], now + 1)
      BY <1>1, Later DEF F!TreeInv
    <3>. QED
      BY <1>2, <3>1, Synced
  <2>5. now' \in Int
    BY <1>1, <2>1
  <2>. QED
    BY <1>1, <2>1, <2>3, <2>4, <2>5 DEF F!TreeInv
<1>3. CASE F!SyncDenied
  BY <1>3 DEF F!SyncDenied, F!TreeInv
<1>4. CASE F!Write
  <2>1. PICK n \in Names : source' \in {[source EXCEPT ![n] = F!File(now, now)], [source EXCEPT ![n] = F!NoEntry]}
         \union IF source[n].kind = "dir"
                THEN {[source EXCEPT ![n].sub[m] = F!File(now, now)] : m \in Names}
                ELSE IF F!Exists(source[n]) THEN {} ELSE {[source EXCEPT ![n] = F!Dir(F!EmptyDir)]}
    BY <1>4 DEF F!Write
  <2>2. now' = now + 1 /\ target' = target /\ outcome' = "none"
    BY <1>4 DEF F!Write
  <2>3. PICK e : /\ source' = [source EXCEPT ![n] = e]
                 /\ \/ e \in {F!NoEntry, F!File(now, now), F!Dir(F!EmptyDir)}
                    \/ source[n].kind = "dir" /\ \E m \in Names : e = [source[n] EXCEPT !.sub[m] = F!File(now, now)]
    <3>1. CASE source' \in {[source EXCEPT ![n] = F!File(now, now)], [source EXCEPT ![n] = F!NoEntry],
                            [source EXCEPT ![n] = F!Dir(F!EmptyDir)]}
      BY <3>1
    <3>2. ASSUME source[n].kind = "dir", NEW m \in Names, source' = [source EXCEPT ![n].sub[m] = F!File(now, now)]
          PROVE  source' = [source EXCEPT ![n] = [source[n] EXCEPT !.sub[m] = F!File(now, now)]]
      BY <3>2
    <3>. QED
      BY <2>1, <3>1, <3>2
  <2>4. /\ source[n] \in F!Entries /\ target[n] \in F!Entries
        /\ F!AllPast(source[n], now) /\ F!AllPast(target[n], now) /\ F!AllCopies(source[n], target[n])
    BY DEF F!TreeInv
  <2>5. e \in F!Entries /\ F!AllPast(e, now + 1) /\ F!AllCopies(e, target[n])
    BY <1>1, <2>3, <2>4, FileWritten
  <2>6. source' \in [Names -> F!Entries] /\ source'[n] = e /\ \A k \in Names \ {n} : source'[k] = source[k]
    BY <1>1, <2>3, <2>5
  <2>7. \A k \in Names : F!AllPast(source'[k], now + 1) /\ F!AllPast(target[k], now + 1) /\ F!AllCopies(source'[k], target[k])
    BY <1>1, <2>5, <2>6, Later DEF F!TreeInv
  <2>8. now' \in Int
    BY <1>1, <2>2
  <2>. QED
    BY <1>1, <2>2, <2>6, <2>7, <2>8 DEF F!TreeInv
<1>5. CASE F!PathNext \/ UNCHANGED F!vars
  <2>1. UNCHANGED <<source, target, now, outcome>>
    BY <1>5 DEF F!PathNext, F!vars, F!tree_vars, F!AliasDirectory, F!AliasPackfile, F!setup_app_data_directory,
                F!setup_settings_directory, F!MakeShared
  <2>. QED
    BY <2>1 DEF F!TreeInv
<1>. QED
  BY <1>2, <1>3, <1>4, <1>5 DEF F!Next, F!SyncNext

LEMMA AliasStep == F!AliasInv /\ F!HomeInv /\ [F!Next]_(F!vars) => F!AliasInv' /\ F!HomeInv'
<1>. SUFFICES ASSUME F!AliasInv, F!HomeInv, [F!Next]_(F!vars) PROVE F!AliasInv' /\ F!HomeInv'
  OBVIOUS
<1>. DEFINE A == F!AliasNames
<1>0. Aliases \subseteq A /\ "appdata" \in A /\ "config" \in A /\ "appdata" \notin Aliases
  BY FilesAssumption DEF F!AliasAssumption, F!AliasNames
<1>1. ASSUME NEW a \in A, NEW d, F!GiveDirectory(a, d)
      PROVE  /\ F!AliasInv' /\ aliases'[a].base = d
             /\ \A b \in A \ {a} : aliases'[b] = aliases[b]
  <2>1. aliases' = wanted'
    BY <1>1 DEF F!GiveDirectory, F!alias_directory, F!AliasInv
  <2>2. wanted' = [wanted EXCEPT ![a] = [wanted[a] EXCEPT !.base = d]]
    BY <1>1 DEF F!GiveDirectory
  <2>3. /\ wanted'[a] = [base |-> d, pak |-> wanted[a].pak]
        /\ \A b \in A \ {a} : wanted'[b] = wanted[b]
        /\ wanted' = [b \in A |-> wanted'[b]]
    <3>1. wanted = [b \in A |-> wanted[b]] /\ wanted[a] = [base |-> wanted[a].base, pak |-> wanted[a].pak]
      BY DEF F!AliasInv
    <3>. HIDE DEF A
    <3>2. wanted'[a] = [wanted[a] EXCEPT !.base = d]
      BY <2>2, <3>1
    <3>3. [wanted[a] EXCEPT !.base = d] = [base |-> d, pak |-> wanted[a].pak]
      BY <3>1
    <3>4. \A b \in A \ {a} : wanted'[b] = wanted[b]
      BY <2>2, <3>1
    <3>5. wanted' = [b \in A |-> wanted'[b]]
      BY <2>2, <3>1
    <3>. QED
      BY <3>2, <3>3, <3>4, <3>5
  <2>. QED
    BY <2>1, <2>3 DEF F!AliasInv
<1>2. CASE F!AliasDirectory
  <2>1. PICK a \in Aliases, d \in DOMAIN Dirs : F!GiveDirectory(a, d) /\ UNCHANGED <<home, app_data>>
    BY <1>2 DEF F!AliasDirectory, F!home_vars
  <2>2. F!AliasInv' /\ aliases'["appdata"] = aliases["appdata"]
    BY <1>0, <1>1, <2>1
  <2>. QED
    BY <2>1, <2>2 DEF F!HomeInv
<1>3. CASE F!AliasPackfile
  <2>1. PICK a \in A, p \in DOMAIN Packs :
           /\ aliases' = F!alias_packfile(a, p) /\ wanted' = [wanted EXCEPT ![a].pak = p]
           /\ UNCHANGED <<home, app_data>>
    BY <1>3 DEF F!AliasPackfile, F!home_vars
  <2>2. aliases' = wanted' /\ wanted' = [wanted EXCEPT ![a] = [wanted[a] EXCEPT !.pak = p]]
    BY <2>1 DEF F!alias_packfile, F!AliasInv
  <2>3. /\ wanted'[a] = [base |-> wanted[a].base, pak |-> p]
        /\ \A b \in A \ {a} : wanted'[b] = wanted[b]
        /\ wanted' = [b \in A |-> wanted'[b]]
    <3>1. wanted = [b \in A |-> wanted[b]] /\ wanted[a] = [base |-> wanted[a].base, pak |-> wanted[a].pak]
      BY DEF F!AliasInv
    <3>. HIDE DEF A
    <3>2. wanted'[a] = [wanted[a] EXCEPT !.pak = p]
      BY <2>2, <3>1
    <3>3. [wanted[a] EXCEPT !.pak = p] = [base |-> wanted[a].base, pak |-> p]
      BY <3>1
    <3>4. \A b \in A \ {a} : wanted'[b] = wanted[b]
      BY <2>2, <3>1
    <3>5. wanted' = [b \in A |-> wanted'[b]]
      BY <2>2, <3>1
    <3>. QED
      BY <3>2, <3>3, <3>4, <3>5
  <2>4. aliases'["appdata"].base = aliases["appdata"].base
    BY <1>0, <2>2, <2>3 DEF F!AliasInv
  <2>. QED
    BY <2>1, <2>2, <2>3, <2>4 DEF F!AliasInv, F!HomeInv
<1>4. CASE F!setup_app_data_directory
  <2>1. app_data' = F!AppDataPath /\ F!SetUp(F!AppDataPath, "appdata")
    BY <1>4 DEF F!setup_app_data_directory
  <2>2. CASE home' = home \union {F!AppDataPath} /\ F!GiveDirectory("appdata", F!AppDataPath)
    <3>1. F!AliasInv' /\ aliases'["appdata"].base = F!AppDataPath
      BY <1>0, <1>1, <2>2
    <3>. QED
      BY <2>1, <2>2, <3>1 DEF F!HomeInv, F!AppDataPath, F!NoPath
  <2>3. CASE F!AppDataPath \notin home /\ UNCHANGED <<home, aliases, wanted>>
    BY <2>1, <2>3 DEF F!HomeInv, F!AliasInv, F!AppDataPath, F!NoPath
  <2>. QED
    BY <2>1, <2>2, <2>3 DEF F!SetUp, F!alias_vars
<1>5. CASE F!setup_settings_directory
  <2>1. app_data' = app_data /\ F!SetUp(F!SettingsPath, "config")
    BY <1>5 DEF F!setup_settings_directory
  <2>2. F!SettingsPath \in {"settings", "fallback_settings"}
    BY DEF F!SettingsPath
  <2>3. CASE home' = home \union {F!SettingsPath} /\ F!GiveDirectory("config", F!SettingsPath)
    <3>1. F!AliasInv' /\ aliases'["appdata"] = aliases["appdata"]
      BY <1>0, <1>1, <2>3
    <3>. QED
      BY <2>1, <2>2, <2>3, <3>1 DEF F!HomeInv, F!NoPath
  <2>4. CASE UNCHANGED <<home, aliases, wanted>>
    BY <2>1, <2>4 DEF F!HomeInv, F!AliasInv
  <2>. QED
    BY <2>1, <2>3, <2>4 DEF F!SetUp, F!alias_vars
<1>6. CASE F!MakeShared
  BY <1>6 DEF F!MakeShared, F!HomeInv, F!AliasInv, F!NoPath, F!alias_vars
<1>7. CASE F!SyncNext \/ UNCHANGED F!vars
  <2>1. UNCHANGED <<home, app_data, aliases, wanted>>
    BY <1>7 DEF F!SyncNext, F!Sync, F!SyncDenied, F!Write, F!vars, F!alias_vars, F!home_vars
  <2>. QED
    BY <2>1 DEF F!HomeInv, F!AliasInv
<1>. QED
  BY <1>2, <1>3, <1>4, <1>5, <1>6, <1>7 DEF F!Next, F!PathNext

LEMMA FilesInit == F!Init => F!Inv
<1>. SUFFICES ASSUME F!Init PROVE F!Inv
  OBVIOUS
<1>. DEFINE Old == {F!NoEntry, F!File(2, -1), F!File(1, -2), F!File(3, -2)}
<1>1. \A e \in Old : e \in F!Flat /\ F!Past(e, 4)
  BY DEF F!NoEntry, F!File, F!Flat, F!Past
<1>2. \A s \in {F!NoEntry, F!File(2, -1)}, t \in Old : F!CopyOf(s, t)
  BY DEF F!NoEntry, F!File, F!CopyOf, F!Foreign, F!Cut
<1>3. \A e \in Old : e.kind # "dir"
  BY DEF F!NoEntry, F!File
<1>4. ASSUME NEW T \in SUBSET Old,
             NEW e, e \in T \/ \E m \in Names, f \in T : e = F!Dir([F!EmptyDir EXCEPT ![m] = f])
      PROVE  \/ e \in T
             \/ /\ e.kind = "dir" /\ e \in [kind : {"dir"}, sub : [Names -> F!Flat]]
                /\ \A m \in Names : e.sub[m] \in T \union {F!NoEntry}
  <2>1. ASSUME NEW m \in Names, NEW f \in T, e = F!Dir([F!EmptyDir EXCEPT ![m] = f])
        PROVE  /\ e.kind = "dir" /\ e \in [kind : {"dir"}, sub : [Names -> F!Flat]]
               /\ \A k \in Names : e.sub[k] \in T \union {F!NoEntry}
    <3>. DEFINE sub == [F!EmptyDir EXCEPT ![m] = f]
    <3>1. sub \in [Names -> T \union {F!NoEntry}]
      BY DEF F!EmptyDir
    <3>2. T \union {F!NoEntry} \subseteq F!Flat
      BY <1>1
    <3>. HIDE DEF Old, sub
    <3>3. sub \in [Names -> F!Flat]
      BY <3>1, <3>2
    <3>4. e = [kind |-> "dir", sub |-> sub]
      BY <2>1 DEF F!Dir, sub
    <3>. QED
      BY <3>1, <3>3, <3>4
  <2>. QED
    BY <1>4, <2>1
<1>5. \A n \in Names : source[n] \in F!InitialSource /\ target[n] \in F!InitialTarget
  BY DEF F!Init
<1>. DEFINE S0 == {F!NoEntry, F!File(2, -1)}
            T0 == {F!NoEntry, F!File(1, -2), F!File(3, -2)}
<1>6. ASSUME NEW n \in Names
      PROVE  \/ source[n] \in S0
             \/ /\ source[n].kind = "dir" /\ source[n] \in [kind : {"dir"}, sub : [Names -> F!Flat]]
                /\ \A m \in Names : source[n].sub[m] \in S0
  <2>1. source[n] \in S0 \/ \E m \in Names, f \in S0 : source[n] = F!Dir([F!EmptyDir EXCEPT ![m] = f])
    BY <1>5 DEF F!InitialSource
  <2>2. S0 \in SUBSET Old /\ S0 \union {F!NoEntry} = S0
    OBVIOUS
  <2>. DEFINE e == source[n]
  <2>. HIDE DEF S0, Old, e
  <2>. QED
    BY <1>4, <2>1, <2>2 DEF e
<1>7. ASSUME NEW n \in Names
      PROVE  \/ target[n] \in T0
             \/ /\ target[n].kind = "dir" /\ target[n] \in [kind : {"dir"}, sub : [Names -> F!Flat]]
                /\ \A m \in Names : target[n].sub[m] \in T0
  <2>1. target[n] \in T0 \/ \E m \in Names, f \in T0 : target[n] = F!Dir([F!EmptyDir EXCEPT ![m] = f])
    <3>. DEFINE D(m, f) == F!Dir([F!EmptyDir EXCEPT ![m] = f])
    <3>1. F!InitialTarget = T0 \union {D(m, f) : m \in Names, f \in T0}
      BY SMT DEF F!InitialTarget, F!Foreign
    <3>. HIDE DEF D, T0
    <3>2. \A e \in F!InitialTarget : e \in T0 \/ \E m \in Names, f \in T0 : e = D(m, f)
      BY <3>1
    <3>. QED
      BY <1>5, <3>2 DEF D
  <2>2. T0 \in SUBSET Old /\ T0 \union {F!NoEntry} = T0
    OBVIOUS
  <2>. DEFINE e == target[n]
  <2>. HIDE DEF T0, Old, e
  <2>. QED
    BY <1>4, <2>1, <2>2 DEF e
<1>8. S0 \subseteq Old /\ T0 \subseteq Old /\ \A s \in S0, t \in T0 : F!CopyOf(s, t)
  BY <1>2
<1>9. source = [n \in Names |-> source[n]] /\ target = [n \in Names |-> target[n]] /\ now = 4 /\ outcome = "none"
  BY DEF F!Init
<1>. HIDE DEF S0, T0, Old
<1>10. ASSUME NEW n \in Names
       PROVE  /\ source[n] \in F!Entries /\ target[n] \in F!Entries
              /\ F!AllPast(source[n], 4) /\ F!AllPast(target[n], 4) /\ F!AllCopies(source[n], target[n])
  <2>1. source[n] \in F!Entries /\ target[n] \in F!Entries
    BY <1>1, <1>6, <1>7, <1>8 DEF F!Entries
  <2>2. F!AllPast(source[n], 4)
    BY <1>1, <1>3, <1>6, <1>8 DEF F!AllPast, F!Past
  <2>3. F!AllPast(target[n], 4)
    BY <1>1, <1>3, <1>7, <1>8 DEF F!AllPast, F!Past
  <2>4. F!CopyOf(source[n], target[n])
    BY <1>3, <1>6, <1>7, <1>8 DEF F!CopyOf
  <2>5. F!AllCopies(source[n], target[n])
    BY <1>3, <1>6, <1>7, <1>8, <2>4 DEF F!AllCopies
  <2>. QED
    BY <2>1, <2>2, <2>3, <2>5
<1>11. F!TreeInv
  <2>1. source \in [Names -> F!Entries] /\ target \in [Names -> F!Entries]
    BY <1>9, <1>10
  <2>. QED
    BY <1>9, <1>10, <2>1 DEF F!TreeInv
<1>12. F!AliasInv /\ F!HomeInv
  BY DEF F!Init, F!AliasInv, F!HomeInv, F!NoAlias, F!NoPath
<1>. QED
  BY <1>11, <1>12 DEF F!Inv

LEMMA FilesImply == F!Inv => FilesFound
<1>. SUFFICES ASSUME F!Inv PROVE FilesFound
  OBVIOUS
<1>1. ASSUME NEW s \in F!Flat, NEW t \in F!Entries, F!CopyOf(s, t), F!UpToDate(s, t)
      PROVE  F!InStep(s, t)
  <2>1. s.kind = "file" => s.time \in Int
    BY DEF F!Flat, F!NoEntry
  <2>2. t.kind = "file" => t.time \in Int
    BY DEF F!Entries, F!Flat, F!NoEntry
  <2>. QED
    BY <1>1, <2>1, <2>2 DEF F!CopyOf, F!UpToDate, F!InStep
<1>2. F!SyncMirrors
  <2>1. ASSUME outcome = "done", NEW n \in Names
        PROVE  \/ F!InStep(source[n], target[n])
               \/ /\ source[n].kind = "dir" /\ target[n].kind = "dir"
                  /\ \A m \in Names : F!InStep(source[n].sub[m], target[n].sub[m])
    <3>1. /\ source[n] \in F!Entries /\ target[n] \in F!Entries
          /\ F!AllCopies(source[n], target[n]) /\ F!AllUpToDate(source[n], target[n])
      BY <2>1 DEF F!Inv, F!TreeInv
    <3>2. CASE F!UpToDate(source[n], target[n])
      <4>1. source[n] \in F!Flat
        BY <3>1, <3>2 DEF F!Entries, F!UpToDate
      <4>. QED
        BY <1>1, <3>1, <3>2, <4>1 DEF F!AllCopies
    <3>3. CASE /\ source[n].kind = "dir" /\ target[n].kind = "dir"
               /\ \A m \in Names : F!UpToDate(source[n].sub[m], target[n].sub[m])
      <4>1. ASSUME NEW m \in Names PROVE source[n].sub[m] \in F!Flat /\ target[n].sub[m] \in F!Entries
        BY <3>1, <3>3 DEF F!Entries, F!Flat, F!NoEntry
      <4>. QED
        BY <1>1, <3>1, <3>3, <4>1 DEF F!AllCopies
    <3>. QED
      BY <3>1, <3>2, <3>3 DEF F!AllUpToDate
  <2>. QED
    BY <2>1 DEF F!SyncMirrors
<1>3. F!MergedView
  BY DEF F!Inv, F!AliasInv, F!MergedView, F!get_input_stream, F!parse_universal_path, F!to_regular_path, F!NoAlias
<1>4. F!AppDataFound
  BY DEF F!Inv, F!HomeInv, F!AppDataFound, F!get_app_data_directory, F!data_candidates, F!NoPath
<1>. QED
  BY <1>2, <1>3, <1>4 DEF FilesFound

LEMMA FilesStep == F!Inv /\ [F!Next]_(F!vars) => F!Inv'
BY TreeStep, AliasStep DEF F!Inv

(* For any names, however often the user writes, sync() is called and      *)
(* paths are looked up, and whatever copies and removals fail: after a     *)
(* sync() that logged no error the target mirrors the source, a file is    *)
(* found where the last pack and directory given for the alias have it,    *)
(* and the data directory found is the one last set up.                    *)
THEOREM FilesFoundHolds == F!Spec => []FilesFound
BY FilesInit, FilesStep, FilesImply, PTL DEF F!Spec

(* A sync() that logged no error has nothing left to do: a second one,     *)
(* with nothing written in between, changes no entry of the target and     *)
(* throws nothing.                                                         *)
THEOREM SyncIdempotentHolds == F!Spec => F!SyncIdempotent
<1>1. F!Inv /\ [F!Next]_(F!vars) =>
        [outcome = "done" => target' = target /\ outcome' # "thrown"]_(F!tree_vars)
  <2>. SUFFICES ASSUME F!TreeInv, [F!Next]_(F!vars), outcome = "done"
                PROVE  target' = target /\ outcome' # "thrown"
    BY DEF F!Inv
  <2>1. CASE F!Sync
    <3>1. target' = [n \in Names |-> target'[n]]
      BY <2>1 DEF F!Sync, F!sync_directory
    <3>2. \A n \in Names : target'[n] = target[n]
      BY <2>1, Synced DEF F!TreeInv
    <3>3. target = [n \in Names |-> target[n]]
      BY DEF F!TreeInv
    <3>4. \A n \in Names : ~F!Throws(source[n], target[n]) /\ ~F!Creates(source[n], target[n])
      BY DEF F!TreeInv, F!AllUpToDate, F!UpToDate, F!Throws, F!Creates, F!Exists
    <3>5. outcome' # "thrown"
      BY <2>1, <3>4 DEF F!Sync
    <3>. QED
      BY <3>1, <3>2, <3>3, <3>5
  <2>2. CASE F!SyncDenied \/ F!Write \/ F!PathNext \/ UNCHANGED F!vars
    BY <2>2 DEF F!SyncDenied, F!Write, F!PathNext, F!vars, F!tree_vars, F!AliasDirectory, F!AliasPackfile,
                F!setup_app_data_directory, F!setup_settings_directory, F!MakeShared
  <2>. QED
    BY <2>1, <2>2 DEF F!Next, F!SyncNext
<1>. QED
  BY FilesInit, FilesStep, <1>1, PTL DEF F!Spec, F!SyncIdempotent

-----------------------------------------------------------------------------
(* The logger.                                                             *)

LEMMA ActorFacts ==
    /\ Actors = Threads \union {"main", "logger"} /\ Clients = Threads \union {"main"}
    /\ "main" \notin Threads /\ "logger" \notin Threads /\ nobody \notin Actors
    /\ "logger" \notin Clients
BY LoggerAssumption DEF Actors, Clients, nobody

LEMMA LoopFacts ==
    /\ Idle \in Walk /\ Idle.work = "none" /\ ~Idle.inside /\ Idle.i = 0
    /\ \A w \in {"log", "flush"}, e \in Entry \union {<<>>} :
          /\ Loop(w, e) \in Walk /\ Loop(w, e) # Idle /\ Loop(w, e).work = w
          /\ Loop(w, e).entry = e /\ Loop(w, e).i = 1 /\ ~Loop(w, e).inside
BY DEF Idle, Loop, Walk

LEMMA InSeq == ASSUME NEW T, NEW q \in Seq(T), NEW k \in DOMAIN q PROVE q[k] \in T
OBVIOUS

LEMMA DueType ==
    ASSUME TypeOK, NEW k \in DOMAIN due
    PROVE  due[k] \in [entry : Entry, sinks : SUBSET SinkNames]
<1>1. due \in Seq([entry : Entry, sinks : SUBSET SinkNames])
  BY DEF TypeOK
<1>. QED
  BY <1>1, InSeq

LEMMA LogInit == Init => Inv
<1>. SUFFICES ASSUME Init PROVE Inv
  OBVIOUS
<1>1. TypeOK
  <2>1. pass \in [Actors -> Walk]
    BY LoopFacts DEF Init
  <2>2. pc \in [Clients -> PC] /\ sent \in [Clients -> Nat]
    BY DEF Init, PC
  <2>3. sinks \in Seq(SinkNames)
    BY LoggerAssumption DEF Init
  <2>4. policy \in [kind : {"white", "black"}, listed : BOOLEAN]
    <3>1. /\ [kind |-> "white", listed |-> FALSE] \in [kind : {"white", "black"}, listed : BOOLEAN]
          /\ [kind |-> "black", listed |-> TRUE] \in [kind : {"white", "black"}, listed : BOOLEAN]
      OBVIOUS
    <3>2. \/ policy = [kind |-> "white", listed |-> FALSE]
          \/ policy = [kind |-> "black", listed |-> TRUE]
      BY Zenon DEF Init
    <3>. QED
      BY <3>1, <3>2, Zenon
  <2>5. out \in [SinkNames -> Seq(Entry)]
    <3>1. <<>> \in Seq(Entry)
      OBVIOUS
    <3>. QED
      BY <3>1 DEF Init
  <2>6. queue \in Seq(Entry) /\ due \in Seq([entry : Entry, sinks : SUBSET SinkNames])
    BY DEF Init
  <2>7. async \in BOOLEAN
    BY DEF Init
  <2>. QED
    BY <2>1, <2>2, <2>3, <2>4, <2>5, <2>6, <2>7 DEF TypeOK
<1>2. WalksOK /\ ModesOK
  BY ActorFacts, LoopFacts DEF Init, WalksOK, ModesOK
<1>3. SinksOnce
  BY DEF Init, SinksOnce
<1>4. QueueOrder /\ PassOrder
  BY LoopFacts DEF Init, QueueOrder, PassOrder
<1>5. OutOrder /\ LogOrder /\ Kept
  BY DEF Init, OutOrder, LogOrder, Kept
<1>6. SevereKept
  BY DEF Init, SevereKept, Info, Warn
<1>. QED
  BY <1>1, <1>2, <1>3, <1>4, <1>5, <1>6 DEF Inv

(* The entries, as long as nothing but the positions of loops changes.     *)
Entries == SinksOnce /\ QueueOrder /\ PassOrder /\ OutOrder /\ LogOrder /\ Kept
LEMMA EntriesFrame ==
    ASSUME TypeOK, Entries,
           UNCHANGED <<sinks, queue, sent, out, due>>,
           \A a \in Actors : pass'[a].work = "log" =>
               pass[a].work = "log" /\ pass'[a].entry = pass[a].entry,
           \A a \in Actors, s \in SinkNames : Ahead(a, s) <=> (Ahead(a, s))'
    PROVE  Entries'
<1>1. SinksOnce' /\ QueueOrder' /\ LogOrder'
  BY DEF Entries, SinksOnce, QueueOrder, LogOrder, Made, Before
<1>2. PassOrder'
  BY DEF Entries, PassOrder, Made, Before
<1>3. \A a \in Actors, s \in SinkNames :
         (Ahead(a, s))' => Ahead(a, s) /\ pass'[a].entry = pass[a].entry
  BY DEF Ahead
<1>4. OutOrder'
  BY <1>3 DEF Entries, OutOrder, Made, Before
<1>5. Kept'
  <2>. SUFFICES ASSUME NEW k \in DOMAIN due', NEW s \in due'[k].sinks
                PROVE  (/\ \E i \in DOMAIN sinks : sinks[i] = s
                        /\ \/ \E i \in DOMAIN out[s] : out[s][i] = due[k].entry
                           \/ \E i \in DOMAIN queue : queue[i] = due[k].entry
                           \/ \E a \in Actors : Ahead(a, s) /\ pass[a].entry = due[k].entry)'
    BY DEF Kept
  <2>1. k \in DOMAIN due /\ s \in due[k].sinks /\ s \in SinkNames
    BY DueType
  <2>2. \A a \in Actors : Ahead(a, s) => (Ahead(a, s))' /\ pass'[a].entry = pass[a].entry
    BY <1>3, <2>1
  <2>. QED
    BY <2>1, <2>2 DEF Entries, Kept
<1>. QED
  BY <1>1, <1>2, <1>4, <1>5 DEF Entries

(* The oldest entry of the queue begins its way through the sinks.         *)
LEMMA TakeHead ==
    ASSUME TypeOK, Entries, NEW a \in Actors, pass[a] = Idle, queue # <<>>,
           queue' = Tail(queue), pass' = [pass EXCEPT ![a] = Loop("log", Head(queue))],
           UNCHANGED <<sinks, sent, out, due>>
    PROVE  Entries'
<1>. DEFINE e == Head(queue)
<1>0. /\ queue \in Seq(Entry) /\ e \in Entry /\ 1 \in DOMAIN queue /\ e = queue[1]
      /\ \A i \in DOMAIN queue' : i + 1 \in DOMAIN queue /\ 1 < i + 1 /\ queue'[i] = queue[i + 1]
      /\ \A i \in DOMAIN queue : i # 1 => i - 1 \in DOMAIN queue' /\ queue'[i - 1] = queue[i]
      /\ \A i, j \in DOMAIN queue' : i < j => i + 1 < j + 1
  BY DEF TypeOK
<1>. HIDE DEF e
<1>1. /\ pass'[a].work = "log" /\ pass'[a].entry = e /\ pass'[a].i = 1
      /\ \A b \in Actors : b # a => pass'[b] = pass[b]
  BY <1>0, LoopFacts DEF TypeOK, e
<1>2. SinksOnce' /\ LogOrder'
  BY DEF Entries, SinksOnce, LogOrder
<1>3. QueueOrder'
  BY <1>0 DEF Entries, QueueOrder, Made, Before
<1>4. PassOrder'
  BY <1>0, <1>1 DEF Entries, PassOrder, QueueOrder, Made, Before
<1>5. \A b \in Actors, s \in SinkNames : b # a /\ (Ahead(b, s))' => Ahead(b, s)
  BY <1>1 DEF Ahead
<1>6. OutOrder'
  <2>. SUFFICES ASSUME NEW s \in SinkNames, NEW k \in DOMAIN out[s]
                PROVE  /\ (Made(out[s][k]))'
                       /\ \A i \in DOMAIN queue' : Before(out[s][k], queue'[i])
                       /\ \A b \in Actors : (Ahead(b, s))' => Before(out[s][k], pass'[b].entry)
    BY DEF OutOrder, Before
  <2>1. /\ Made(out[s][k]) /\ \A i \in DOMAIN queue : Before(out[s][k], queue[i])
        /\ \A b \in Actors : Ahead(b, s) => Before(out[s][k], pass[b].entry)
    BY DEF Entries, OutOrder
  <2>2. (Made(out[s][k]))'
    BY <2>1 DEF Made
  <2>3. \A i \in DOMAIN queue' : Before(out[s][k], queue'[i])
    BY <1>0, <2>1
  <2>4. \A b \in Actors : (Ahead(b, s))' => Before(out[s][k], pass'[b].entry)
    BY <1>0, <1>1, <1>5, <2>1
  <2>. QED
    BY <2>2, <2>3, <2>4
<1>7. Kept'
  <2>. SUFFICES ASSUME NEW k \in DOMAIN due, NEW s \in due[k].sinks
                PROVE  /\ \E i \in DOMAIN sinks : sinks[i] = s
                       /\ \/ \E i \in DOMAIN out[s] : out[s][i] = due[k].entry
                          \/ \E i \in DOMAIN queue' : queue'[i] = due[k].entry
                          \/ \E b \in Actors : (Ahead(b, s))' /\ pass'[b].entry = due[k].entry
    BY DEF Kept
  <2>0. s \in SinkNames
    BY DueType
  <2>1. PICK m \in DOMAIN sinks : sinks[m] = s
    BY DEF Entries, Kept
  <2>2. (Ahead(a, s))'
    <3>1. m \in 1 .. Len(sinks')
      BY DEF TypeOK
    <3>. QED
      BY <1>1, <2>1, <3>1 DEF Ahead
  <2>3. CASE \E i \in DOMAIN out[s] : out[s][i] = due[k].entry
    BY <2>1, <2>3
  <2>4. CASE \E i \in DOMAIN queue : queue[i] = due[k].entry
    <3>1. PICK i \in DOMAIN queue : queue[i] = due[k].entry
      BY <2>4
    <3>2. CASE i = 1
      BY <1>0, <1>1, <2>1, <2>2, <3>1, <3>2
    <3>3. CASE i # 1
      <4>1. i - 1 \in DOMAIN queue' /\ queue'[i - 1] = due[k].entry
        BY <1>0, <3>1, <3>3
      <4>. QED
        BY <2>1, <4>1
    <3>. QED
      BY <3>2, <3>3
  <2>5. CASE \E b \in Actors : Ahead(b, s) /\ pass[b].entry = due[k].entry
    <3>1. PICK b \in Actors : Ahead(b, s) /\ pass[b].entry = due[k].entry
      BY <2>5
    <3>2. b # a
      BY <3>1, LoopFacts DEF Ahead
    <3>3. (Ahead(b, s))'
      BY <1>1, <3>1, <3>2 DEF Ahead
    <3>. QED
      BY <1>1, <2>1, <3>1, <3>2, <3>3
  <2>. QED
    BY <2>3, <2>4, <2>5 DEF Entries, Kept
<1>. QED
  BY <1>2, <1>3, <1>4, <1>6, <1>7 DEF Entries

(* An entry is accepted: it gets the next number of its thread, so that    *)
(* all others of the thread come before it.                                *)
LEMMA Accepted ==
    ASSUME TypeOK, Entries, NEW t \in Clients, sent' = [sent EXCEPT ![t] = @ + 1],
           NEW e, e = <<t, sent[t] + 1>>
    PROVE  /\ e \in Entry /\ (Made(e))'
           /\ \A f \in Entry : Made(f) => Before(f, e) /\ (Made(f))'
<1>1. sent \in [Clients -> Nat] /\ sent[t] \in Nat
  BY DEF TypeOK
<1>2. e \in Entry /\ e[1] = t /\ e[2] = sent[t] + 1
  BY <1>1 DEF Entry
<1>3. sent'[t] = sent[t] + 1 /\ \A u \in Clients : sent'[u] >= sent[u]
  BY <1>1
<1>4. (Made(e))'
  BY <1>2, <1>3, <1>1 DEF Made
<1>5. ASSUME NEW f \in Entry, Made(f) PROVE Before(f, e) /\ (Made(f))'
  <2>1. f[1] \in Clients /\ f[2] \in Nat /\ f[2] <= sent[f[1]]
    BY <1>5 DEF Entry, Made
  <2>2. sent[f[1]] \in Nat /\ sent'[f[1]] \in Nat
    BY <1>1, <2>1
  <2>. QED
    BY <1>1, <1>2, <1>3, <2>1, <2>2 DEF Made, Before
<1>. QED
  BY <1>2, <1>4, <1>5

(* What an entry that was just accepted owes to the sinks.                 *)
LEMMA DueGrows ==
    ASSUME TypeOK, NEW e \in Entry,
           due' = Append(due, [entry |-> e, sinks |-> ToSet(sinks)])
    PROVE  \A k \in DOMAIN due' :
              \/ k \in DOMAIN due /\ due'[k] = due[k]
              \/ /\ due'[k].entry = e
                 /\ \A s \in due'[k].sinks : \E i \in DOMAIN sinks : sinks[i] = s
<1>. DEFINE T == [entry : Entry, sinks : SUBSET SinkNames]
            d == [entry |-> e, sinks |-> ToSet(sinks)]
<1>1. d \in T
  BY DEF TypeOK, ToSet
<1>2. due \in Seq(T)
  BY DEF TypeOK
<1>3. due' = Append(due, d)
  OBVIOUS
<1>4. d.entry = e /\ \A s \in d.sinks : \E i \in DOMAIN sinks : sinks[i] = s
  BY DEF ToSet
<1>. HIDE DEF T, d
<1>5. \A k \in DOMAIN due' : (k \in DOMAIN due /\ due'[k] = due[k]) \/ due'[k] = d
  BY <1>1, <1>2, <1>3
<1>. QED
  BY <1>4, <1>5

LEMMA EntryTypes ==
    ASSUME TypeOK
    PROVE  /\ \A i \in DOMAIN queue : queue[i] \in Entry
           /\ \A s \in SinkNames : \A k \in DOMAIN out[s] : out[s][k] \in Entry
<1>1. queue \in Seq(Entry) /\ \A s \in SinkNames : out[s] \in Seq(Entry)
  BY DEF TypeOK
<1>. QED
  BY <1>1, InSeq

(* In asynchronous mode it goes to the queue.                              *)
LEMMA SubmitQueued ==
    ASSUME TypeOK, WalksOK, Entries, NEW t \in Clients, NEW e, e = <<t, sent[t] + 1>>,
           sent' = [sent EXCEPT ![t] = @ + 1],
           due' = Append(due, [entry |-> e, sinks |-> ToSet(sinks)]),
           queue' = Append(queue, e), UNCHANGED <<sinks, out, pass>>
    PROVE  Entries'
<1>0. /\ e \in Entry /\ (Made(e))'
      /\ \A f \in Entry : Made(f) => Before(f, e) /\ (Made(f))'
  BY Accepted
<1>1. queue \in Seq(Entry)
  BY DEF TypeOK
<1>2. /\ \A i \in DOMAIN queue : i \in DOMAIN queue' /\ queue'[i] = queue[i]
      /\ \A i \in DOMAIN queue' :
            \/ i \in DOMAIN queue /\ queue'[i] = queue[i] /\ queue[i] \in Entry
            \/ i = Len(queue) + 1 /\ queue'[i] = e
      /\ Len(queue) + 1 \in DOMAIN queue' /\ queue'[Len(queue) + 1] = e
      /\ \A i \in DOMAIN queue : i < Len(queue) + 1 /\ i \in Nat
      /\ Len(queue) \in Nat
  BY <1>0, <1>1
<1>3. SinksOnce' /\ LogOrder'
  BY DEF Entries, SinksOnce, LogOrder
<1>4. QueueOrder'
  <2>1. \A i \in DOMAIN queue' : (Made(queue[i]))'
    <3>. SUFFICES ASSUME NEW i \in DOMAIN queue' PROVE (Made(queue[i]))'
      OBVIOUS
    <3>1. CASE i \in DOMAIN queue /\ queue'[i] = queue[i] /\ queue[i] \in Entry
      <4>1. Made(queue[i])
        BY <3>1 DEF Entries, QueueOrder
      <4>. QED
        BY <1>0, <3>1, <4>1 DEF Made
    <3>2. CASE queue'[i] = e
      BY <1>0, <3>2 DEF Made
    <3>. QED
      BY <1>2, <3>1, <3>2
  <2>2. \A i, j \in DOMAIN queue' : i < j => Before(queue'[i], queue'[j])
    <3>. SUFFICES ASSUME NEW i \in DOMAIN queue', NEW j \in DOMAIN queue', i < j
                  PROVE  Before(queue'[i], queue'[j])
      OBVIOUS
    <3>1. i \in DOMAIN queue /\ queue'[i] = queue[i] /\ queue[i] \in Entry
      BY <1>2
    <3>2. Made(queue[i])
      BY <3>1 DEF Entries, QueueOrder
    <3>3. CASE j \in DOMAIN queue /\ queue'[j] = queue[j]
      BY <3>1, <3>3 DEF Entries, QueueOrder
    <3>4. CASE queue'[j] = e
      BY <1>0, <3>1, <3>2, <3>4
    <3>. QED
      BY <1>2, <3>3, <3>4
  <2>. QED
    BY <2>1, <2>2 DEF QueueOrder, Before
<1>5. PassOrder'
  <2>. SUFFICES ASSUME NEW a \in Actors, pass[a].work = "log"
                PROVE  /\ (Made(pass[a].entry))'
                       /\ \A i \in DOMAIN queue' : Before(pass[a].entry, queue'[i])
    BY DEF PassOrder, Before
  <2>1. pass[a].entry \in Entry
    BY LoopFacts DEF WalksOK
  <2>2. Made(pass[a].entry) /\ \A i \in DOMAIN queue : Before(pass[a].entry, queue[i])
    BY DEF Entries, PassOrder
  <2>3. (Made(pass[a].entry))'
    BY <1>0, <2>1, <2>2 DEF Made
  <2>. QED
    BY <1>0, <1>2, <2>1, <2>2, <2>3
<1>6. \A a \in Actors, s \in SinkNames : Ahead(a, s) <=> (Ahead(a, s))'
  BY DEF Ahead
<1>7. OutOrder'
  <2>. SUFFICES ASSUME NEW s \in SinkNames, NEW k \in DOMAIN out[s]
                PROVE  /\ (Made(out[s][k]))'
                       /\ \A i \in DOMAIN queue' : Before(out[s][k], queue'[i])
                       /\ \A b \in Actors : (Ahead(b, s))' => Before(out[s][k], pass[b].entry)
    BY DEF OutOrder, Before
  <2>1. out[s][k] \in Entry
    BY EntryTypes
  <2>2. /\ Made(out[s][k]) /\ \A i \in DOMAIN queue : Before(out[s][k], queue[i])
        /\ \A b \in Actors : Ahead(b, s) => Before(out[s][k], pass[b].entry)
    BY DEF Entries, OutOrder
  <2>3. (Made(out[s][k]))'
    BY <1>0, <2>1, <2>2 DEF Made
  <2>. QED
    BY <1>0, <1>2, <1>6, <2>1, <2>2, <2>3
<1>8. Kept'
  <2>. SUFFICES ASSUME NEW k \in DOMAIN due', NEW s \in due'[k].sinks
                PROVE  (/\ \E i \in DOMAIN sinks : sinks[i] = s
                        /\ \/ \E i \in DOMAIN out[s] : out[s][i] = due[k].entry
                           \/ \E i \in DOMAIN queue : queue[i] = due[k].entry
                           \/ \E a \in Actors : Ahead(a, s) /\ pass[a].entry = due[k].entry)'
    BY Zenon DEF Kept
  <2>0. \A l \in DOMAIN due' :
          \/ l \in DOMAIN due /\ due'[l] = due[l]
          \/ /\ due'[l].entry = e
             /\ \A r \in due'[l].sinks : \E i \in DOMAIN sinks : sinks[i] = r
    BY <1>0, DueGrows, Zenon
  <2>. DEFINE d == due'[k].entry
  <2>1. CASE k \in DOMAIN due /\ due'[k] = due[k]
    <3>1. s \in SinkNames
      BY <2>1, DueType
    <3>0. due[k].entry = d /\ s \in due[k].sinks /\ k \in DOMAIN due /\ Kept
      BY <2>1, Zenon DEF Entries
    <3>2. /\ \E i \in DOMAIN sinks : sinks[i] = s
          /\ \/ \E i \in DOMAIN out[s] : out[s][i] = d
             \/ \E i \in DOMAIN queue : queue[i] = d
             \/ \E a \in Actors : Ahead(a, s) /\ pass[a].entry = d
      <4>. HIDE DEF d
      <4>. QED
        BY <3>0 DEF Kept
    <3>. HIDE DEF d
    <3>3. /\ \E i \in DOMAIN sinks' : sinks'[i] = s
          /\ \/ \E i \in DOMAIN out'[s] : out'[s][i] = d
             \/ \E i \in DOMAIN queue' : queue'[i] = d
             \/ \E a \in Actors : (Ahead(a, s))' /\ pass'[a].entry = d
      BY <1>2, <1>6, <3>1, <3>2
    <3>. QED
      BY <3>3, Zenon DEF d
  <2>2. CASE due'[k].entry = e /\ \A r \in due'[k].sinks : \E i \in DOMAIN sinks : sinks[i] = r
    <3>1. \E i \in DOMAIN sinks : sinks[i] = s
      <4>1. s \in due'[k].sinks
        OBVIOUS
      <4>. QED
        BY ONLY <2>2, <4>1
    <3>2. \E i \in DOMAIN sinks' : sinks'[i] = s
      BY <3>1
    <3>3. \E i \in DOMAIN queue' : queue'[i] = e
      BY <1>2
    <3>. QED
      BY <2>2, <3>2, <3>3, Zenon
  <2>. QED
    BY <2>0, <2>1, <2>2, Zenon
<1>. QED
  BY <1>3, <1>4, <1>5, <1>7, <1>8 DEF Entries

(* In synchronous mode the thread begins its way through the sinks at      *)
(* once, while nothing is queued.                                          *)
LEMMA SubmitWalked ==
    ASSUME TypeOK, WalksOK, Entries, NEW t \in Clients, NEW e, e = <<t, sent[t] + 1>>,
           pass[t] = Idle, queue = <<>>,
           sent' = [sent EXCEPT ![t] = @ + 1],
           due' = Append(due, [entry |-> e, sinks |-> ToSet(sinks)]),
           pass' = [pass EXCEPT ![t] = Loop("log", e)], UNCHANGED <<sinks, out, queue>>
    PROVE  Entries'
<1>0. /\ e \in Entry /\ (Made(e))'
      /\ \A f \in Entry : Made(f) => Before(f, e) /\ (Made(f))'
  BY Accepted
<1>1. /\ pass'[t].work = "log" /\ pass'[t].entry = e /\ pass'[t].i = 1
      /\ \A b \in Actors : b # t => pass'[b] = pass[b]
      /\ t \in Actors
  BY <1>0, LoopFacts DEF TypeOK, Actors
<1>2. SinksOnce' /\ LogOrder' /\ QueueOrder'
  BY DEF Entries, SinksOnce, LogOrder, QueueOrder
<1>3. DOMAIN queue' = {}
  OBVIOUS
<1>5. PassOrder'
  <2>. SUFFICES ASSUME NEW a \in Actors, pass'[a].work = "log"
                PROVE  (Made(pass[a].entry))'
    BY <1>3 DEF PassOrder
  <2>1. CASE a = t
    BY <1>0, <1>1, <2>1 DEF Made
  <2>2. CASE a # t
    <3>1. pass[a].work = "log" /\ pass'[a] = pass[a]
      BY <1>1, <2>2
    <3>2. pass[a].entry \in Entry /\ Made(pass[a].entry)
      BY <3>1, LoopFacts DEF WalksOK, Entries, PassOrder
    <3>. QED
      BY <1>0, <3>1, <3>2 DEF Made
  <2>. QED
    BY <2>1, <2>2
<1>6. \A b \in Actors, s \in SinkNames : b # t => (Ahead(b, s) <=> (Ahead(b, s))')
  BY <1>1 DEF Ahead
<1>7. OutOrder'
  <2>. SUFFICES ASSUME NEW s \in SinkNames, NEW k \in DOMAIN out[s]
                PROVE  /\ (Made(out[s][k]))'
                       /\ \A b \in Actors : (Ahead(b, s))' => Before(out[s][k], pass'[b].entry)
    BY <1>3 DEF OutOrder, Before
  <2>1. out[s][k] \in Entry
    BY EntryTypes
  <2>2. /\ Made(out[s][k])
        /\ \A b \in Actors : Ahead(b, s) => Before(out[s][k], pass[b].entry)
    BY DEF Entries, OutOrder
  <2>3. (Made(out[s][k]))' /\ Before(out[s][k], e)
    BY <1>0, <2>1, <2>2 DEF Made
  <2>. QED
    BY <1>1, <1>6, <2>2, <2>3
<1>8. Kept'
  <2>. SUFFICES ASSUME NEW k \in DOMAIN due', NEW s \in due'[k].sinks
                PROVE  (/\ \E i \in DOMAIN sinks : sinks[i] = s
                        /\ \/ \E i \in DOMAIN out[s] : out[s][i] = due[k].entry
                           \/ \E i \in DOMAIN queue : queue[i] = due[k].entry
                           \/ \E a \in Actors : Ahead(a, s) /\ pass[a].entry = due[k].entry)'
    BY Zenon DEF Kept
  <2>. DEFINE d == due'[k].entry
  <2>1. CASE k \in DOMAIN due /\ due'[k] = due[k]
    <3>1. s \in SinkNames
      BY <2>1, DueType
    <3>0. due[k].entry = d /\ s \in due[k].sinks /\ k \in DOMAIN due /\ Kept
      BY <2>1, Zenon DEF Entries
    <3>2. /\ \E i \in DOMAIN sinks : sinks[i] = s
          /\ \/ \E i \in DOMAIN out[s] : out[s][i] = d
             \/ \E i \in DOMAIN queue : queue[i] = d
             \/ \E a \in Actors : Ahead(a, s) /\ pass[a].entry = d
      <4>. HIDE DEF d
      <4>. QED
        BY <3>0 DEF Kept
    <3>3. \A b \in Actors : Ahead(b, s) => b # t
      BY LoopFacts DEF Ahead
    <3>. HIDE DEF d
    <3>4. /\ \E i \in DOMAIN sinks' : sinks'[i] = s
          /\ \/ \E i \in DOMAIN out'[s] : out'[s][i] = d
             \/ \E i \in DOMAIN queue' : queue'[i] = d
             \/ \E a \in Actors : (Ahead(a, s))' /\ pass'[a].entry = d
      BY <1>1, <1>6, <3>1, <3>2, <3>3
    <3>. QED
      BY <3>4, Zenon DEF d
  <2>2. CASE /\ due'[k].entry = e
             /\ \A r \in due'[k].sinks : \E i \in DOMAIN sinks : sinks[i] = r
    <3>1. PICK m \in DOMAIN sinks : sinks[m] = s
      BY <2>2
    <3>2. m \in 1 .. Len(sinks')
      BY DEF TypeOK
    <3>3. (Ahead(t, s))'
      BY <1>1, <3>1, <3>2 DEF Ahead
    <3>. QED
      BY <1>1, <2>2, <3>3
  <2>. QED
    BY <1>0, <2>1, <2>2, DueGrows
<1>. QED
  BY <1>2, <1>5, <1>7, <1>8 DEF Entries

(* At most one actor is in a loop over the sinks.                          *)
LEMMA OneWalks ==
    ASSUME ModesOK
    PROVE  \A a, b \in Actors : a # b => pass[a] = Idle \/ pass[b] = Idle
BY ActorFacts DEF ModesOK

(* A sink takes the entry.                                                 *)
LEMMA Written ==
    ASSUME TypeOK, WalksOK, ModesOK, Entries, NEW a \in Actors, LeaveSink(a),
           pass[a].work = "log"
    PROVE  Entries'
<1>. DEFINE e == pass[a].entry
            r == sinks[pass[a].i]
<1>0. /\ pass[a] # Idle /\ e \in Entry /\ pass[a].i \in DOMAIN sinks /\ pass[a].i \in Nat
      /\ r \in SinkNames
  BY LoopFacts DEF LeaveSink, WalksOK, TypeOK
<1>1. /\ pass'[a].work = "log" /\ pass'[a].entry = e /\ pass'[a].i = pass[a].i + 1
      /\ \A b \in Actors : b # a => pass'[b] = pass[b] /\ pass[b] = Idle
  BY <1>0, OneWalks DEF LeaveSink, TypeOK, Walk
<1>2. /\ UNCHANGED <<sinks, queue, sent, due>>
      /\ out' = [out EXCEPT ![r] = Append(@, e)]
  BY DEF LeaveSink
<1>3. /\ Made(e) /\ \A i \in DOMAIN queue : Before(e, queue[i])
  BY DEF Entries, PassOrder
<1>4. Ahead(a, r)
  <2>1. pass[a].i \in pass[a].i .. Len(sinks)
    BY <1>0 DEF TypeOK
  <2>. QED
    BY <2>1 DEF Ahead
<1>. HIDE DEF e, r
<1>5. /\ \A s \in SinkNames : s # r => out'[s] = out[s]
      /\ out'[r] = Append(out[r], e) /\ out[r] \in Seq(Entry)
  BY <1>0, <1>2 DEF TypeOK
<1>6. /\ \A k \in DOMAIN out[r] : k \in DOMAIN out'[r] /\ out'[r][k] = out[r][k] /\ k < Len(out[r]) + 1
      /\ \A k \in DOMAIN out'[r] :
            \/ k \in DOMAIN out[r] /\ out'[r][k] = out[r][k]
            \/ k = Len(out[r]) + 1 /\ out'[r][k] = e
      /\ Len(out[r]) + 1 \in DOMAIN out'[r] /\ out'[r][Len(out[r]) + 1] = e
      /\ \A k \in DOMAIN out'[r] : k \in Nat /\ k <= Len(out[r]) + 1
      /\ Len(out[r]) \in Nat
  BY <1>0, <1>5
<1>7. SinksOnce' /\ QueueOrder'
  BY <1>2 DEF Entries, SinksOnce, QueueOrder, Made, Before
<1>8. PassOrder'
  <2>. SUFFICES ASSUME NEW b \in Actors, pass'[b].work = "log"
                PROVE  (Made(pass[b].entry))' /\ \A i \in DOMAIN queue : Before(pass'[b].entry, queue[i])
    BY <1>2 DEF PassOrder, Before
  <2>1. b = a
    BY <1>1, LoopFacts
  <2>. QED
    BY <1>1, <1>2, <1>3, <2>1 DEF Made
<1>9. \A s \in SinkNames : (Ahead(a, s))' <=> Ahead(a, s) /\ s # r
  <2>. SUFFICES ASSUME NEW s \in SinkNames PROVE (Ahead(a, s))' <=> Ahead(a, s) /\ s # r
    OBVIOUS
  <2>0. Len(sinks) \in Nat /\ DOMAIN sinks = 1 .. Len(sinks) /\ pass[a].i \in 1 .. Len(sinks)
    BY <1>0 DEF TypeOK
  <2>1. ASSUME (Ahead(a, s))' PROVE Ahead(a, s) /\ s # r
    <3>1. PICK m \in (pass[a].i + 1) .. Len(sinks) : sinks[m] = s
      BY <1>1, <1>2, <2>1 DEF Ahead
    <3>2. m \in pass[a].i .. Len(sinks) /\ m \in DOMAIN sinks /\ m # pass[a].i
      BY <2>0, <3>1
    <3>3. s # r
      BY <1>0, <3>1, <3>2 DEF Entries, SinksOnce, r
    <3>. QED
      BY <3>1, <3>2, <3>3 DEF Ahead
  <2>2. ASSUME Ahead(a, s), s # r PROVE (Ahead(a, s))'
    <3>1. PICK m \in pass[a].i .. Len(sinks) : sinks[m] = s
      BY <2>2 DEF Ahead
    <3>2. m # pass[a].i
      BY <2>2, <3>1 DEF r
    <3>3. m \in (pass[a].i + 1) .. Len(sinks)
      BY <2>0, <3>1, <3>2
    <3>. QED
      BY <1>1, <1>2, <3>1, <3>3 DEF Ahead
  <2>. QED
    BY <2>1, <2>2
<1>10. \A b \in Actors, s \in SinkNames : (Ahead(b, s))' => b = a
  BY <1>1, LoopFacts DEF Ahead
<1>11. \A k \in DOMAIN out[r] : Before(out[r][k], e)
  BY <1>0, <1>4 DEF Entries, OutOrder, e
<1>12. LogOrder'
  <2>. SUFFICES ASSUME NEW s \in SinkNames, NEW i \in DOMAIN out'[s], NEW j \in DOMAIN out'[s],
                       i < j
                PROVE  Before(out'[s][i], out'[s][j])
    BY DEF LogOrder, Before
  <2>1. CASE s # r
    BY <1>5, <2>1 DEF Entries, LogOrder, Before
  <2>2. CASE s = r
    <3>1. i \in DOMAIN out[r] /\ out'[r][i] = out[r][i]
      BY <1>6, <2>2
    <3>2. CASE j \in DOMAIN out[r] /\ out'[r][j] = out[r][j]
      BY <1>0, <2>2, <3>1, <3>2 DEF Entries, LogOrder, Before
    <3>3. CASE out'[r][j] = e
      BY <1>11, <2>2, <3>1, <3>3
    <3>. QED
      BY <1>6, <2>2, <3>2, <3>3
  <2>. QED
    BY <2>1, <2>2
<1>13. OutOrder'
  <2>. SUFFICES ASSUME NEW s \in SinkNames, NEW k \in DOMAIN out'[s]
                PROVE  /\ Made(out'[s][k])
                       /\ \A i \in DOMAIN queue : Before(out'[s][k], queue[i])
                       /\ (Ahead(a, s))' => Before(out'[s][k], e)
    BY <1>1, <1>2, <1>10 DEF OutOrder, Before, Made
  <2>1. CASE k \in DOMAIN out[s] /\ out'[s][k] = out[s][k]
    BY <1>9, <2>1 DEF Entries, OutOrder, e
  <2>2. CASE s = r /\ out'[s][k] = e
    BY <1>3, <1>9, <2>2
  <2>. QED
    BY <1>5, <1>6, <2>1, <2>2
<1>14. Kept'
  <2>. SUFFICES ASSUME NEW k \in DOMAIN due, NEW s \in due[k].sinks
                PROVE  /\ \E i \in DOMAIN sinks : sinks[i] = s
                       /\ \/ \E i \in DOMAIN out'[s] : out'[s][i] = due[k].entry
                          \/ \E i \in DOMAIN queue : queue[i] = due[k].entry
                          \/ \E b \in Actors : (Ahead(b, s))' /\ pass'[b].entry = due[k].entry
    BY <1>2 DEF Kept
  <2>0. s \in SinkNames
    BY DueType
  <2>1. /\ \E i \in DOMAIN sinks : sinks[i] = s
        /\ \/ \E i \in DOMAIN out[s] : out[s][i] = due[k].entry
           \/ \E i \in DOMAIN queue : queue[i] = due[k].entry
           \/ \E b \in Actors : Ahead(b, s) /\ pass[b].entry = due[k].entry
    BY DEF Entries, Kept
  <2>2. CASE \E i \in DOMAIN out[s] : out[s][i] = due[k].entry
    BY <1>5, <1>6, <2>0, <2>1, <2>2
  <2>3. CASE \E i \in DOMAIN queue : queue[i] = due[k].entry
    BY <2>1, <2>3
  <2>4. CASE \E b \in Actors : Ahead(b, s) /\ pass[b].entry = due[k].entry
    <3>1. Ahead(a, s) /\ e = due[k].entry
      BY <1>1, <2>4, LoopFacts DEF Ahead, e
    <3>2. CASE s = r
      BY <1>6, <2>1, <3>1, <3>2
    <3>3. CASE s # r
      BY <1>1, <1>9, <2>0, <2>1, <3>1, <3>3
    <3>. QED
      BY <3>2, <3>3
  <2>. QED
    BY <2>1, <2>2, <2>3, <2>4
<1>. QED
  BY <1>7, <1>8, <1>12, <1>13, <1>14 DEF Entries

(* The list of sinks changes while nobody walks it.                        *)
LEMMA Quiet ==
    ASSUME ModesOK, Change, mutex = nobody
    PROVE  \A a \in Actors : pass[a] = Idle /\ \A s : ~Ahead(a, s)
<1>1. \A a \in Actors : pass[a] = Idle
  BY ActorFacts DEF ModesOK, Change, Ready, nobody
<1>. QED
  BY <1>1, LoopFacts DEF Ahead

LEMMA Attached ==
    ASSUME TypeOK, ModesOK, Entries, NEW s \in SinkNames, AttachSink(s)
    PROVE  Entries' /\ sinks' \in Seq(SinkNames)
<1>0. /\ s \notin ToSet(sinks) /\ sinks' = Append(sinks, s)
      /\ UNCHANGED <<queue, pass, sent, out, due>> /\ Change /\ mutex = nobody
  BY DEF AttachSink
<1>1. \A a \in Actors : pass[a] = Idle /\ \A r : ~Ahead(a, r)
  BY <1>0, Quiet
<1>2. \A a \in Actors, r \in SinkNames : ~(Ahead(a, r))'
  BY <1>0, <1>1, LoopFacts DEF Ahead
<1>3. sinks \in Seq(SinkNames) /\ \A i \in DOMAIN sinks : sinks[i] # s
  BY <1>0 DEF TypeOK, ToSet
<1>4. /\ sinks' \in Seq(SinkNames)
      /\ \A i \in DOMAIN sinks : i \in DOMAIN sinks' /\ sinks'[i] = sinks[i]
      /\ \A i \in DOMAIN sinks' : \/ i \in DOMAIN sinks /\ sinks'[i] = sinks[i]
                                  \/ i = Len(sinks) + 1 /\ sinks'[i] = s
  BY <1>0, <1>3
<1>5. SinksOnce'
  BY <1>3, <1>4 DEF Entries, SinksOnce
<1>6. QueueOrder' /\ LogOrder'
  BY <1>0 DEF Entries, QueueOrder, LogOrder, Made, Before
<1>7. PassOrder'
  BY <1>0, <1>1, LoopFacts DEF PassOrder
<1>8. OutOrder'
  BY <1>0, <1>2 DEF Entries, OutOrder, Made, Before
<1>9. Kept'
  <2>. SUFFICES ASSUME NEW k \in DOMAIN due, NEW r \in due[k].sinks
                PROVE  /\ \E i \in DOMAIN sinks' : sinks'[i] = r
                       /\ \/ \E i \in DOMAIN out[r] : out[r][i] = due[k].entry
                          \/ \E i \in DOMAIN queue : queue[i] = due[k].entry
    BY <1>0 DEF Kept
  <2>. QED
    BY <1>1, <1>4 DEF Entries, Kept
<1>. QED
  BY <1>4, <1>5, <1>6, <1>7, <1>8, <1>9 DEF Entries

LEMMA ConcatFacts ==
    ASSUME NEW T, NEW l \in Seq(T), NEW u \in Seq(T)
    PROVE  l \o u \in Seq(T) /\ Len(l \o u) = Len(l) + Len(u)
OBVIOUS

LEMMA RemoveAtFacts ==
    ASSUME NEW T, NEW q \in Seq(T), NEW n \in DOMAIN q
    PROVE  /\ RemoveAt(q, n) \in Seq(T)
           /\ \A i \in DOMAIN RemoveAt(q, n) : \E j \in DOMAIN q :
                 j # n /\ RemoveAt(q, n)[i] = q[j] /\ j = IF i < n THEN i ELSE i + 1
           /\ \A j \in DOMAIN q : j # n => \E i \in DOMAIN RemoveAt(q, n) : RemoveAt(q, n)[i] = q[j]
<1>. DEFINE l == SubSeq(q, 1, n - 1)
            u == SubSeq(q, n + 1, Len(q))
<1>0. n \in 1 .. Len(q) /\ Len(q) \in Nat /\ DOMAIN q = 1 .. Len(q)
  OBVIOUS
<1>1. l \in Seq(T) /\ Len(l) = n - 1 /\ \A i \in 1 .. n - 1 : l[i] = q[i]
  BY <1>0
<1>2. u \in Seq(T) /\ Len(u) = Len(q) - n /\ \A i \in 1 .. Len(q) - n : u[i] = q[n + i]
  BY <1>0
<1>3. RemoveAt(q, n) = l \o u
  BY DEF RemoveAt
<1>. HIDE DEF l, u
<1>. DEFINE p == l \o u
<1>4. p \in Seq(T) /\ Len(p) = Len(q) - 1 /\ DOMAIN p = 1 .. Len(q) - 1
  <2>1. p \in Seq(T) /\ Len(p) = Len(l) + Len(u)
    BY <1>1, <1>2, ConcatFacts
  <2>2. Len(p) = Len(q) - 1
    BY <1>0, <1>1, <1>2, <2>1
  <2>. HIDE DEF p
  <2>3. DOMAIN p = 1 .. Len(p)
    BY <2>1
  <2>. QED
    BY <2>1, <2>2, <2>3
<1>5. \A i \in 1 .. Len(q) - 1 : p[i] = IF i < n THEN q[i] ELSE q[i + 1]
  <2>. SUFFICES ASSUME NEW i \in 1 .. Len(q) - 1 PROVE p[i] = IF i < n THEN q[i] ELSE q[i + 1]
    OBVIOUS
  <2>1. CASE i < n
    <3>1. p[i] = l[i]
      BY <1>0, <1>1, <1>2, <2>1
    <3>. QED
      BY <1>0, <1>1, <2>1, <3>1
  <2>2. CASE ~(i < n)
    <3>1. p[i] = u[i - (n - 1)]
      BY <1>0, <1>1, <1>2, <2>2
    <3>2. i - (n - 1) \in 1 .. Len(q) - n /\ n + (i - (n - 1)) = i + 1
      BY <1>0, <2>2
    <3>. QED
      BY <1>2, <2>2, <3>1, <3>2
  <2>. QED
    BY <2>1, <2>2
<1>. HIDE DEF p
<1>6. \A i \in DOMAIN p : \E j \in DOMAIN q : j # n /\ p[i] = q[j] /\ j = IF i < n THEN i ELSE i + 1
  BY <1>0, <1>4, <1>5
<1>7. ASSUME NEW j \in DOMAIN q, j # n PROVE \E i \in DOMAIN p : p[i] = q[j]
  <2>1. CASE j < n
    BY <1>0, <1>4, <1>5, <2>1
  <2>2. CASE j > n
    <3>1. j - 1 \in DOMAIN p /\ p[j - 1] = q[j]
      BY <1>0, <1>4, <1>5, <2>2
    <3>. QED
      BY <3>1
  <2>. QED
    BY <1>0, <1>7, <2>1, <2>2
<1>. QED
  BY <1>3, <1>4, <1>6, <1>7 DEF p

LEMMA AppendIn == ASSUME NEW T, NEW q \in Seq(T), NEW x \in T PROVE Append(q, x) \in Seq(T)
OBVIOUS

LEMMA SeqDomain == ASSUME NEW T, NEW q \in Seq(T), NEW k \in DOMAIN q PROVE k \in Nat
OBVIOUS

LEMMA SeqOfFunction ==
    ASSUME NEW T, NEW n \in Nat, NEW f \in [1 .. n -> T] PROVE f \in Seq(T)
OBVIOUS

LEMMA DueShrinks ==
    ASSUME TypeOK, NEW s, due' = [k \in DOMAIN due |-> [due[k] EXCEPT !.sinks = @ \ {s}]]
    PROVE  /\ due' \in Seq([entry : Entry, sinks : SUBSET SinkNames])
           /\ DOMAIN due' = DOMAIN due
           /\ \A k \in DOMAIN due : /\ due'[k].entry = due[k].entry
                                   /\ due'[k].sinks = due[k].sinks \ {s}
<1>. DEFINE T == [entry : Entry, sinks : SUBSET SinkNames]
<1>1. due \in Seq(T)
  BY DEF TypeOK
<1>2. ASSUME NEW k \in DOMAIN due
      PROVE  /\ due'[k] \in T /\ due'[k].entry = due[k].entry
             /\ due'[k].sinks = due[k].sinks \ {s}
  <2>1. due[k] \in T
    BY DueType
  <2>2. due'[k] = [due[k] EXCEPT !.sinks = due[k].sinks \ {s}]
    OBVIOUS
  <2>. QED
    BY <2>1, <2>2
<1>. HIDE DEF T
<1>3. Len(due) \in Nat /\ DOMAIN due = 1 .. Len(due)
  BY <1>1
<1>4. due' \in [1 .. Len(due) -> T]
  BY <1>2, <1>3
<1>5. due' \in Seq(T)
  BY <1>3, <1>4, SeqOfFunction
<1>. QED
  BY <1>2, <1>5 DEF T

LEMMA Detached ==
    ASSUME TypeOK, ModesOK, Entries, NEW s \in SinkNames, DetachSink(s)
    PROVE  /\ Entries' /\ sinks' \in Seq(SinkNames)
           /\ due' \in Seq([entry : Entry, sinks : SUBSET SinkNames])
<1>0. /\ UNCHANGED <<queue, pass, sent, out>> /\ Change /\ mutex = nobody
      /\ due' = [k \in DOMAIN due |-> [due[k] EXCEPT !.sinks = @ \ {s}]]
  BY DEF DetachSink
<1>1. \A a \in Actors : pass[a] = Idle /\ \A r : ~Ahead(a, r)
  BY <1>0, Quiet
<1>2. \A a \in Actors, r \in SinkNames : ~(Ahead(a, r))'
  BY <1>0, <1>1, LoopFacts DEF Ahead
<1>3. PICK n \in DOMAIN sinks : sinks[n] = s /\ sinks' = RemoveAt(sinks, n)
  BY DEF DetachSink
<1>4. sinks \in Seq(SinkNames)
  BY DEF TypeOK
<1>5. /\ sinks' \in Seq(SinkNames)
      /\ \A i \in DOMAIN sinks' : \E j \in DOMAIN sinks :
            j # n /\ sinks'[i] = sinks[j] /\ j = IF i < n THEN i ELSE i + 1
      /\ \A j \in DOMAIN sinks : j # n => \E i \in DOMAIN sinks' : sinks'[i] = sinks[j]
  BY <1>3, <1>4, RemoveAtFacts
<1>6. /\ due' \in Seq([entry : Entry, sinks : SUBSET SinkNames])
      /\ DOMAIN due' = DOMAIN due
      /\ \A k \in DOMAIN due : /\ due'[k].entry = due[k].entry
                              /\ due'[k].sinks = due[k].sinks \ {s}
  BY <1>0, DueShrinks
<1>7. SinksOnce'
  <2>. SUFFICES ASSUME NEW i \in DOMAIN sinks', NEW j \in DOMAIN sinks', sinks'[i] = sinks'[j]
                PROVE  i = j
    BY DEF SinksOnce
  <2>0. i \in Nat /\ j \in Nat /\ n \in Nat
    BY <1>4, <1>5, SeqDomain
  <2>1. PICK k \in DOMAIN sinks : sinks'[i] = sinks[k] /\ k = IF i < n THEN i ELSE i + 1
    BY <1>5
  <2>2. PICK l \in DOMAIN sinks : sinks'[j] = sinks[l] /\ l = IF j < n THEN j ELSE j + 1
    BY <1>5
  <2>3. k = l
    BY <2>1, <2>2 DEF Entries, SinksOnce
  <2>. QED
    BY <2>0, <2>1, <2>2, <2>3
<1>8. QueueOrder' /\ LogOrder'
  BY <1>0 DEF Entries, QueueOrder, LogOrder, Made, Before
<1>9. PassOrder'
  BY <1>0, <1>1, LoopFacts DEF PassOrder
<1>10. OutOrder'
  BY <1>0, <1>2 DEF Entries, OutOrder, Made, Before
<1>11. Kept'
  <2>. SUFFICES ASSUME NEW k \in DOMAIN due', NEW r \in due'[k].sinks
                PROVE  /\ \E i \in DOMAIN sinks' : sinks'[i] = r
                       /\ \/ \E i \in DOMAIN out'[r] : out'[r][i] = due'[k].entry
                          \/ \E i \in DOMAIN queue' : queue'[i] = due'[k].entry
    BY Zenon DEF Kept
  <2>1. k \in DOMAIN due /\ r \in due[k].sinks /\ r # s /\ due'[k].entry = due[k].entry
    BY <1>6
  <2>2. PICK j \in DOMAIN sinks : sinks[j] = r
    BY <2>1 DEF Entries, Kept
  <2>3. j # n
    BY <1>3, <2>1, <2>2
  <2>4. \E i \in DOMAIN sinks' : sinks'[i] = r
    BY <1>5, <2>2, <2>3
  <2>5. \/ \E i \in DOMAIN out[r] : out[r][i] = due[k].entry
        \/ \E i \in DOMAIN queue : queue[i] = due[k].entry
    BY <1>1, <2>1 DEF Entries, Kept
  <2>6. out' = out /\ queue' = queue
    BY <1>0
  <2>. QED
    BY <2>1, <2>4, <2>5, <2>6
<1>. QED
  BY <1>5, <1>6, <1>7, <1>8, <1>9, <1>10, <1>11 DEF Entries

-----------------------------------------------------------------------------
(* One lemma per part of the invariant, one step per action.               *)

LEMMA Begun ==
    ASSUME TypeOK, queue # <<>>, queue' = Tail(queue), NEW a,
           pass' = [pass EXCEPT ![a] = Loop("log", Head(queue))]
    PROVE  pass' \in [Actors -> Walk] /\ queue' \in Seq(Entry)
<1>1. queue \in Seq(Entry) /\ pass \in [Actors -> Walk]
  BY DEF TypeOK
<1>2. Head(queue) \in Entry /\ queue' \in Seq(Entry)
  BY <1>1
<1>3. Loop("log", Head(queue)) \in Walk
  BY <1>2, LoopFacts
<1>. QED
  BY <1>1, <1>2, <1>3

LEMMA Left ==
    ASSUME TypeOK, NEW a \in Actors, LeaveSink(a)
    PROVE  /\ pass' \in [Actors -> Walk]
           /\ pass'[a].work = pass[a].work /\ pass'[a].entry = pass[a].entry
           /\ pass'[a].i = pass[a].i + 1 /\ ~pass'[a].inside
           /\ \A b \in Actors : b # a => pass'[b] = pass[b]
<1>. DEFINE w == [pass[a] EXCEPT !.inside = FALSE]
            v == [w EXCEPT !.i = w.i + 1]
<1>1. pass \in [Actors -> Walk] /\ pass[a] \in Walk
  BY DEF TypeOK
<1>2. w \in Walk /\ w.work = pass[a].work /\ w.entry = pass[a].entry /\ w.i = pass[a].i /\ ~w.inside
  BY <1>1 DEF Walk
<1>3. pass' = [pass EXCEPT ![a] = v]
  BY <1>1 DEF LeaveSink
<1>. HIDE DEF w
<1>4. v \in Walk /\ v.work = w.work /\ v.entry = w.entry /\ v.i = w.i + 1 /\ ~v.inside
  BY <1>2 DEF Walk
<1>. HIDE DEF v
<1>. QED
  BY <1>1, <1>2, <1>3, <1>4

LEMMA LogTypes ==
    ASSUME TypeOK, WalksOK, ModesOK, Entries, Next PROVE TypeOK'
<1>. USE DEF TypeOK
<1>1. CASE Refuse
  BY <1>1 DEF Refuse
<1>2. CASE Submit
  <2>1. PICK t \in Clients, sev \in {Fatal, Warn, Info} : submit(t, sev)
    BY <1>2 DEF Submit
  <2>. DEFINE e == <<t, sent[t] + 1>>
  <2>2. e \in Entry
    BY DEF Entry
  <2>. HIDE DEF e
  <2>3. sent' \in [Clients -> Nat] /\ pc' \in [Clients -> PC]
    BY <2>1 DEF submit, PC
  <2>4. due' \in Seq([entry : Entry, sinks : SUBSET SinkNames])
    <3>. DEFINE T == [entry : Entry, sinks : SUBSET SinkNames]
                d == [entry |-> e, sinks |-> ToSet(sinks)]
    <3>1. d \in T
      BY <2>2 DEF ToSet
    <3>2. due' = Append(due, d) /\ due \in Seq(T)
      BY <2>1 DEF submit, e
    <3>. HIDE DEF T, d
    <3>3. due' \in Seq(T)
      BY <3>1, <3>2
    <3>. QED
      BY <3>3 DEF T
  <2>5. queue' \in Seq(Entry)
    <3>1. queue \in Seq(Entry) /\ (queue' = queue \/ queue' = Append(queue, e))
      BY <2>1 DEF submit, e
    <3>2. Append(queue, e) \in Seq(Entry)
      <4>1. queue \in Seq(Entry)
        BY <3>1
      <4>. QED
        BY <2>2, <4>1, AppendIn, Zenon
    <3>. QED
      BY <3>1, <3>2, Zenon
  <2>6. pass' \in [Actors -> Walk]
    <3>1. pass' = pass \/ pass' = [pass EXCEPT ![t] = Loop("log", e)]
      BY <2>1 DEF submit, e
    <3>2. Loop("log", e) \in Walk
      BY <2>2, LoopFacts
    <3>. QED
      BY <3>1, <3>2
  <2>. QED
    BY <1>2, <2>3, <2>4, <2>5, <2>6 DEF Submit
<1>3. CASE TakeEntry
  <2>1. /\ pass' = [pass EXCEPT !["logger"] = Loop("log", Head(queue))]
        /\ queue' = Tail(queue) /\ queue # <<>>
    BY <1>3 DEF TakeEntry
  <2>2. pass' \in [Actors -> Walk] /\ queue' \in Seq(Entry)
    BY <2>1, Begun
  <2>. QED
    BY <1>3, <2>2 DEF TakeEntry
<1>4. CASE EndJob
  BY <1>4 DEF EndJob, PC
<1>5. ASSUME NEW a \in Actors, EnterSink(a) PROVE TypeOK'
  BY <1>5 DEF EnterSink, Walk
<1>6. ASSUME NEW a \in Actors, LeaveSink(a) PROVE TypeOK'
  <2>1. pass[a] # Idle /\ pass[a].i \in DOMAIN sinks /\ (pass[a].work = "log" => pass[a].entry \in Entry)
    BY <1>6, LoopFacts DEF LeaveSink, WalksOK
  <2>2. pass' \in [Actors -> Walk]
    BY <1>6, Left
  <2>3. out' \in [SinkNames -> Seq(Entry)]
    BY <1>6, <2>1 DEF LeaveSink
  <2>. QED
    BY <1>6, <2>2, <2>3 DEF LeaveSink
<1>7. ASSUME NEW a \in Actors, EndLoop(a) PROVE TypeOK'
  BY <1>7, LoopFacts DEF EndLoop
<1>8. CASE Shutdown
  BY <1>8 DEF Shutdown, PC
<1>9. CASE Abort
  BY <1>9 DEF Abort, PC
<1>10. CASE Joined
  BY <1>10 DEF Joined, PC
<1>11. CASE Panic
  <2>1. CASE queue # <<>>
    <3>1. /\ pass' = [pass EXCEPT !["main"] = Loop("log", Head(queue))]
          /\ queue' = Tail(queue) /\ UNCHANGED pc
      BY <1>11, <2>1 DEF Panic
    <3>2. pass' \in [Actors -> Walk] /\ queue' \in Seq(Entry)
      BY <2>1, <3>1, Begun
    <3>. QED
      BY <1>11, <3>1, <3>2 DEF Panic
  <2>2. CASE queue = <<>>
    BY <1>11, <2>2 DEF Panic, PC
  <2>. QED
    BY <2>1, <2>2
<1>12. CASE FlushAndExit
  <2>1. Loop("flush", <<>>) \in Walk
    BY LoopFacts
  <2>2. pass' \in [Actors -> Walk] /\ pc' \in [Clients -> PC]
    BY <1>12, <2>1 DEF FlushAndExit, PC
  <2>. QED
    BY <1>12, <2>2 DEF FlushAndExit
<1>13. ASSUME NEW s \in SinkNames, AttachSink(s) PROVE TypeOK'
  BY <1>13, Attached DEF AttachSink
<1>14. ASSUME NEW s \in SinkNames, DetachSink(s) PROVE TypeOK'
  BY <1>14, Detached DEF DetachSink
<1>15. CASE SetSeverityLevel
  BY <1>15 DEF SetSeverityLevel
<1>16. CASE ChangeFilter
  BY <1>16 DEF ChangeFilter
<1>17. CASE flush
  BY <1>17, LoopFacts DEF flush
<1>18. CASE set_async
  BY <1>18 DEF set_async
<1>. QED
  BY <1>1, <1>2, <1>3, <1>4, <1>5, <1>6, <1>7, <1>8, <1>9, <1>10, <1>11, <1>12, <1>13, <1>14,
     <1>15, <1>16, <1>17, <1>18 DEF Next

LEMMA LogWalks ==
    ASSUME Disciplined, TypeOK, WalksOK, ModesOK, Next PROVE WalksOK'
<1>. DEFINE OK(w, n) == w # Idle =>
         /\ w.i \in 1 .. n + 1 /\ (w.inside => w.i <= n)
         /\ w.work = "log" => w.entry \in Entry
<1>a. \A a \in Actors : OK(pass[a], Len(sinks))
  BY DEF WalksOK
<1>b. Len(sinks) \in Nat /\ pass \in [Actors -> Walk]
  BY DEF TypeOK
<1>c. ASSUME NEW n \in Nat, NEW e \in Entry PROVE OK(Loop("log", e), n)
  BY LoopFacts
<1>d. ASSUME NEW n \in Nat PROVE OK(Loop("flush", <<>>), n) /\ OK(Idle, n)
  BY LoopFacts
<1>e. SUFFICES \A a \in Actors : OK(pass'[a], Len(sinks'))
  BY DEF WalksOK
<1>. HIDE DEF OK
<1>1. CASE UNCHANGED <<pass, sinks>>
  BY <1>1, <1>a
<1>2. ASSUME NEW a \in Actors, NEW w, OK(w, Len(sinks)),
             pass' = [pass EXCEPT ![a] = w], UNCHANGED sinks
      PROVE  \A b \in Actors : OK(pass'[b], Len(sinks'))
  BY <1>2, <1>a, <1>b
<1>3. CASE Submit
  <2>1. PICK t \in Clients, sev \in {Fatal, Warn, Info} : submit(t, sev) /\ UNCHANGED sinks
    BY <1>3 DEF Submit
  <2>2. <<t, sent[t] + 1>> \in Entry /\ t \in Actors
    BY DEF Entry, TypeOK, Actors
  <2>3. pass' = pass \/ pass' = [pass EXCEPT ![t] = Loop("log", <<t, sent[t] + 1>>)]
    BY <2>1 DEF submit
  <2>4. OK(Loop("log", <<t, sent[t] + 1>>), Len(sinks))
    BY <1>b, <1>c, <2>2
  <2>. QED
    BY <1>1, <1>2, <2>1, <2>2, <2>3, <2>4
<1>4. ASSUME NEW a \in Actors, queue # <<>>, pass' = [pass EXCEPT ![a] = Loop("log", Head(queue))],
             UNCHANGED sinks
      PROVE  \A b \in Actors : OK(pass'[b], Len(sinks'))
  <2>1. Head(queue) \in Entry
    BY <1>4 DEF TypeOK
  <2>2. OK(Loop("log", Head(queue)), Len(sinks))
    BY <1>b, <1>c, <2>1
  <2>. QED
    BY <1>2, <1>4, <2>2
<1>5. CASE TakeEntry
  BY <1>4, <1>5, ActorFacts DEF TakeEntry
<1>6. ASSUME NEW a \in Actors, EnterSink(a) PROVE \A b \in Actors : OK(pass'[b], Len(sinks'))
  <2>. DEFINE w == [pass[a] EXCEPT !.inside = TRUE]
  <2>1. OK(w, Len(sinks))
    <3>1. /\ pass[a] # Idle /\ pass[a].i <= Len(sinks) /\ pass[a].i \in 1 .. Len(sinks) + 1
          /\ pass[a].work = "log" => pass[a].entry \in Entry
      BY <1>6 DEF EnterSink, WalksOK
    <3>2. w.i = pass[a].i /\ w.work = pass[a].work /\ w.entry = pass[a].entry
      BY <1>b DEF Walk
    <3>. QED
      BY <3>1, <3>2 DEF OK
  <2>2. pass' = [pass EXCEPT ![a] = w] /\ UNCHANGED sinks
    BY <1>6, <1>b DEF EnterSink
  <2>. HIDE DEF w
  <2>. QED
    BY <1>2, <2>1, <2>2
<1>7. ASSUME NEW a \in Actors, LeaveSink(a) PROVE \A b \in Actors : OK(pass'[b], Len(sinks'))
  <2>1. /\ pass'[a].work = pass[a].work /\ pass'[a].entry = pass[a].entry
        /\ pass'[a].i = pass[a].i + 1 /\ ~pass'[a].inside
        /\ \A b \in Actors : b # a => pass'[b] = pass[b]
    BY <1>7, Left
  <2>2. pass[a] # Idle /\ pass[a].inside /\ UNCHANGED sinks
    BY <1>7, LoopFacts DEF LeaveSink
  <2>3. /\ pass[a].i <= Len(sinks) /\ pass[a].i \in 1 .. Len(sinks) + 1
        /\ pass[a].work = "log" => pass[a].entry \in Entry
    BY <2>2 DEF WalksOK
  <2>4. OK(pass'[a], Len(sinks))
    BY <1>b, <2>1, <2>3 DEF OK
  <2>. QED
    BY <1>a, <2>1, <2>2, <2>4
<1>8. ASSUME NEW a \in Actors, EndLoop(a) PROVE \A b \in Actors : OK(pass'[b], Len(sinks'))
  BY <1>2, <1>8, <1>b, <1>d DEF EndLoop
<1>9. CASE Panic
  <2>1. CASE queue # <<>>
    BY <1>4, <1>9, <2>1, ActorFacts DEF Panic
  <2>2. CASE queue = <<>>
    BY <1>1, <1>9, <2>2 DEF Panic
  <2>. QED
    BY <2>1, <2>2
<1>10. CASE FlushAndExit
  <2>1. PICK t \in Clients : pass' = [pass EXCEPT ![t] = Loop("flush", <<>>)] /\ UNCHANGED sinks
    BY <1>10 DEF FlushAndExit
  <2>. QED
    BY <1>2, <1>b, <1>d, <2>1 DEF Actors
<1>11. CASE flush
  BY <1>2, <1>11, <1>b, <1>d, ActorFacts DEF flush
<1>12. ASSUME Change, mutex = nobody, UNCHANGED pass PROVE \A b \in Actors : OK(pass'[b], Len(sinks'))
  BY <1>12, Quiet DEF OK
<1>. QED
  BY <1>1, <1>3, <1>5, <1>6, <1>7, <1>8, <1>9, <1>10, <1>11, <1>12
  DEF Next, Refuse, EndJob, Shutdown, Abort, Joined, AttachSink, DetachSink, SetSeverityLevel,
      ChangeFilter, set_async

LEMMA LogModes ==
    ASSUME Disciplined, TypeOK, ModesOK, Next PROVE ModesOK'
<1>0. /\ pass \in [Actors -> Walk] /\ pc \in [Clients -> PC] /\ async \in BOOLEAN
      /\ queue \in Seq(Entry)
  BY DEF TypeOK
<1>. USE ActorFacts
<1>1. CASE UNCHANGED <<async, queue, pass, pc, mutex>>
  BY <1>1 DEF ModesOK, JobsDone
<1>2. CASE Submit
  <2>1. PICK t \in Clients, sev \in {Fatal, Warn, Info} :
          /\ submit(t, sev) /\ Ready(t) /\ (t = "main" \/ async)
          /\ UNCHANGED <<async, mutex>>
    BY <1>2 DEF Submit
  <2>. DEFINE e == <<t, sent[t] + 1>>
  <2>2. e \in Entry
    BY DEF Entry, TypeOK
  <2>3. Loop("log", e) # Idle /\ Loop("log", e).work = "log"
    BY <2>2, LoopFacts
  <2>4. IF async THEN queue' = Append(queue, e) /\ UNCHANGED pass
        ELSE pass' = [pass EXCEPT ![t] = Loop("log", e)] /\ UNCHANGED queue
    BY <2>1 DEF submit
  <2>5. pc' = pc \/ pc' = [pc EXCEPT ![t] = IF async THEN "shutdown" ELSE "flush"]
    BY <2>1 DEF submit
  <2>. HIDE DEF e
  <2>6. CASE async
    <3>1. pass["main"] = Idle
      BY <2>1, <2>6 DEF ModesOK, Ready, JobsDone
    <3>. QED
      BY <1>0, <2>1, <2>4, <2>5, <2>6, <3>1 DEF ModesOK, Ready
  <2>7. CASE ~async
    <3>1. t = "main"
      BY <2>1, <2>7
    <3>. QED
      BY <1>0, <2>1, <2>3, <2>4, <2>5, <2>7, <3>1 DEF ModesOK, Ready
  <2>. QED
    BY <2>6, <2>7
<1>3. CASE TakeEntry
  <2>1. async /\ pass["main"] = Idle
    BY <1>3 DEF TakeEntry, ModesOK
  <2>. QED
    BY <1>0, <1>3, <2>1 DEF TakeEntry, ModesOK
<1>4. CASE EndJob
  <2>1. PICK t \in Threads : pc' = [pc EXCEPT ![t] = "done"] /\ UNCHANGED <<async, queue, pass, mutex>>
    BY <1>4 DEF EndJob
  <2>2. pc'["main"] = pc["main"] /\ (JobsDone => JobsDone')
    BY <1>0, <2>1 DEF JobsDone
  <2>3. \A u \in Threads : pc'[u] \in {"idle", "done", "shutdown"}
    BY <1>0, <2>1 DEF ModesOK
  <2>. QED
    BY <2>1, <2>2, <2>3 DEF ModesOK
<1>5. ASSUME NEW a \in Actors, pass[a] # Idle,
             \A b \in Actors : b # a => pass'[b] = pass[b],
             pass'[a] = Idle \/ pass'[a].work = pass[a].work, UNCHANGED <<async, queue, pc>>,
             mutex' = mutex \/ (mutex = a /\ pass'[a] = Idle)
      PROVE  ModesOK'
  <2>1. \A b \in Actors : pass'[b] # Idle => pass[b] # Idle
    BY <1>5
  <2>2. a = "main" \/ a = "logger"
    BY <1>5 DEF ModesOK
  <2>3. JobsDone => JobsDone'
    BY <1>5 DEF JobsDone
  <2>4. pass'["logger"] # Idle => mutex' = "logger"
    BY <1>5, <2>1, <2>2 DEF ModesOK
  <2>5. pc["main"] = "exited" => pass'["main"].work # "log"
    BY <1>5, LoopFacts DEF ModesOK
  <2>6. \A t \in Threads : pass'[t] = Idle
    BY <1>5, <2>2 DEF ModesOK
  <2>. QED
    BY <1>5, <2>1, <2>2, <2>3, <2>4, <2>5, <2>6 DEF ModesOK
<1>6. ASSUME NEW a \in Actors, EnterSink(a) PROVE ModesOK'
  <2>1. pass'[a].work = pass[a].work /\ \A b \in Actors : b # a => pass'[b] = pass[b]
    BY <1>0, <1>6 DEF EnterSink, Walk
  <2>. QED
    BY <1>5, <1>6, <2>1 DEF EnterSink
<1>7. ASSUME NEW a \in Actors, LeaveSink(a) PROVE ModesOK'
  <2>1. pass'[a].work = pass[a].work /\ \A b \in Actors : b # a => pass'[b] = pass[b]
    BY <1>7, Left
  <2>2. pass[a] # Idle
    BY <1>7, LoopFacts DEF LeaveSink
  <2>. QED
    BY <1>5, <1>7, <2>1, <2>2 DEF LeaveSink
<1>8. ASSUME NEW a \in Actors, EndLoop(a) PROVE ModesOK'
  <2>1. pass'[a] = Idle /\ \A b \in Actors : b # a => pass'[b] = pass[b]
    BY <1>0, <1>8 DEF EndLoop
  <2>. QED
    BY <1>5, <1>8, <2>1 DEF EndLoop
<1>9. CASE Shutdown
  BY <1>0, <1>9, LoopFacts DEF Shutdown, NoJobPending, ModesOK, JobsDone
<1>10. CASE Abort
  BY <1>0, <1>10, LoopFacts DEF Abort, Ready, ModesOK, JobsDone
<1>11. CASE Joined
  BY <1>0, <1>11, LoopFacts DEF Joined, ModesOK, JobsDone
<1>12. CASE Panic
  BY <1>0, <1>12, LoopFacts DEF Panic, ModesOK, JobsDone
<1>13. CASE FlushAndExit
  <2>1. /\ pc["main"] = "flush" /\ pass["main"] = Idle
        /\ pass' = [pass EXCEPT !["main"] = Loop("flush", <<>>)]
        /\ pc' = [pc EXCEPT !["main"] = "exited"]
        /\ UNCHANGED <<async, mutex, queue>>
    BY <1>13 DEF FlushAndExit, ModesOK
  <2>2. Loop("flush", <<>>).work = "flush"
    BY LoopFacts
  <2>. QED
    BY <1>0, <2>1, <2>2 DEF ModesOK
<1>14. CASE flush
  <2>1. /\ Ready("main") /\ (async => NoJobPending)
        /\ pass' = [pass EXCEPT !["main"] = Loop("flush", <<>>)]
        /\ UNCHANGED <<async, mutex, queue, pc>>
    BY <1>14 DEF flush, Change
  <2>. QED
    BY <1>0, <2>1 DEF ModesOK, Ready, NoJobPending, JobsDone
<1>15. CASE set_async
  <2>1. /\ Ready("main") /\ (async => NoJobPending) /\ async' = ~async
        /\ UNCHANGED <<pass, mutex, queue, pc>>
    BY <1>15 DEF set_async, Change
  <2>. QED
    BY <1>0, <2>1, LoopFacts DEF ModesOK, Ready, NoJobPending
<1>. QED
  BY <1>1, <1>2, <1>3, <1>4, <1>6, <1>7, <1>8, <1>9, <1>10, <1>11, <1>12, <1>13, <1>14, <1>15
  DEF Next, Refuse, AttachSink, DetachSink, SetSeverityLevel, ChangeFilter

LEMMA LogEntries ==
    ASSUME Disciplined, TypeOK, WalksOK, ModesOK, Entries, Next PROVE Entries'
<1>0. pass \in [Actors -> Walk]
  BY DEF TypeOK
<1>1. CASE UNCHANGED <<sinks, queue, sent, out, due, pass>>
  BY <1>1, EntriesFrame DEF Ahead
<1>2. CASE Submit
  <2>1. PICK t \in Clients, sev \in {Fatal, Warn, Info} :
          /\ submit(t, sev) /\ Ready(t) /\ (t = "main" \/ async)
          /\ UNCHANGED <<sinks, out>>
    BY <1>2 DEF Submit
  <2>. DEFINE e == <<t, sent[t] + 1>>
  <2>2. /\ sent' = [sent EXCEPT ![t] = @ + 1]
        /\ due' = Append(due, [entry |-> e, sinks |-> ToSet(sinks)])
        /\ IF async THEN queue' = Append(queue, e) /\ UNCHANGED pass
           ELSE pass' = [pass EXCEPT ![t] = Loop("log", e)] /\ UNCHANGED queue
    BY <2>1 DEF submit
  <2>3. e = <<t, sent[t] + 1>>
    OBVIOUS
  <2>. HIDE DEF e
  <2>4. CASE async
    BY <2>1, <2>2, <2>3, <2>4, SubmitQueued
  <2>5. CASE ~async
    <3>1. pass[t] = Idle /\ queue = <<>>
      BY <2>1, <2>5 DEF ModesOK, Ready
    <3>. QED
      BY <2>1, <2>2, <2>3, <2>5, <3>1, SubmitWalked
  <2>. QED
    BY <2>4, <2>5
<1>3. CASE TakeEntry
  BY <1>3, ActorFacts, TakeHead DEF TakeEntry
(* The positions of one loop change, not what is ahead of it.              *)
<1>4. ASSUME NEW a \in Actors, UNCHANGED <<sinks, queue, sent, out, due>>,
             \A b \in Actors : b # a => pass'[b] = pass[b],
             pass'[a].work = "log" => pass[a].work = "log" /\ pass'[a].entry = pass[a].entry,
             \A s \in SinkNames : Ahead(a, s) <=> (Ahead(a, s))'
      PROVE  Entries'
  <2>1. \A b \in Actors, s \in SinkNames : Ahead(b, s) <=> (Ahead(b, s))'
    <3>. SUFFICES ASSUME NEW b \in Actors, NEW s \in SinkNames, b # a
                  PROVE  Ahead(b, s) <=> (Ahead(b, s))'
      BY <1>4
    <3>. QED
      BY <1>4 DEF Ahead
  <2>2. \A b \in Actors : pass'[b].work = "log" =>
          pass[b].work = "log" /\ pass'[b].entry = pass[b].entry
    BY <1>4
  <2>. QED
    BY <1>4, <2>1, <2>2, EntriesFrame
<1>5. ASSUME NEW a \in Actors, EnterSink(a) PROVE Entries'
  <2>1. /\ pass'[a].work = pass[a].work /\ pass'[a].entry = pass[a].entry /\ pass'[a].i = pass[a].i
        /\ \A b \in Actors : b # a => pass'[b] = pass[b]
        /\ UNCHANGED <<sinks, queue, sent, out, due>>
    BY <1>0, <1>5 DEF EnterSink, Walk
  <2>2. \A s \in SinkNames : Ahead(a, s) <=> (Ahead(a, s))'
    BY <2>1 DEF Ahead
  <2>. QED
    BY <1>4, <2>1, <2>2
<1>6. ASSUME NEW a \in Actors, LeaveSink(a) PROVE Entries'
  <2>1. CASE pass[a].work = "log"
    BY <1>6, <2>1, Written
  <2>2. CASE pass[a].work # "log"
    <3>1. pass'[a].work = pass[a].work /\ \A b \in Actors : b # a => pass'[b] = pass[b]
      BY <1>6, Left
    <3>2. UNCHANGED <<sinks, queue, sent, out, due>>
      BY <1>6, <2>2 DEF LeaveSink
    <3>3. \A s \in SinkNames : Ahead(a, s) <=> (Ahead(a, s))'
      BY <2>2, <3>1 DEF Ahead
    <3>. QED
      BY <1>4, <2>2, <3>1, <3>2, <3>3
  <2>. QED
    BY <2>1, <2>2
<1>7. ASSUME NEW a \in Actors, EndLoop(a) PROVE Entries'
  <2>1. /\ pass'[a] = Idle /\ \A b \in Actors : b # a => pass'[b] = pass[b]
        /\ UNCHANGED <<sinks, queue, sent, out, due>>
    BY <1>0, <1>7 DEF EndLoop
  <2>2. pass[a].i > Len(sinks) /\ pass[a].i \in Nat /\ Len(sinks) \in Nat
    BY <1>0, <1>7 DEF EndLoop, TypeOK, Walk
  <2>3. \A s \in SinkNames : ~Ahead(a, s) /\ ~(Ahead(a, s))'
    BY <2>1, <2>2, LoopFacts DEF Ahead
  <2>4. pass'[a].work # "log"
    BY <2>1, LoopFacts
  <2>. QED
    BY <1>4, <2>1, <2>3, <2>4
<1>8. CASE Panic
  <2>1. CASE queue # <<>>
    BY <1>8, <2>1, ActorFacts, TakeHead DEF Panic
  <2>2. CASE queue = <<>>
    BY <1>1, <1>8, <2>2 DEF Panic
  <2>. QED
    BY <2>1, <2>2
<1>9. ASSUME NEW a \in Actors, pass[a] = Idle, pass' = [pass EXCEPT ![a] = Loop("flush", <<>>)],
             UNCHANGED <<sinks, queue, sent, out, due>>
      PROVE  Entries'
  <2>1. pass'[a].work = "flush" /\ pass[a].work = "none" /\ \A b \in Actors : b # a => pass'[b] = pass[b]
    BY <1>0, <1>9, LoopFacts
  <2>2. \A s \in SinkNames : Ahead(a, s) <=> (Ahead(a, s))'
    BY <2>1 DEF Ahead
  <2>. QED
    BY <1>4, <1>9, <2>1, <2>2
<1>10. CASE FlushAndExit
  <2>1. PICK t \in Clients : /\ pass[t] = Idle /\ pass' = [pass EXCEPT ![t] = Loop("flush", <<>>)]
                             /\ UNCHANGED <<sinks, queue, sent, out, due>>
    BY <1>10 DEF FlushAndExit
  <2>. QED
    BY <1>9, <2>1 DEF Actors
<1>11. CASE flush
  BY <1>9, <1>11, ActorFacts DEF flush, Change, Ready
<1>12. ASSUME NEW s \in SinkNames, AttachSink(s) PROVE Entries'
  BY <1>12, Attached
<1>13. ASSUME NEW s \in SinkNames, DetachSink(s) PROVE Entries'
  BY <1>13, Detached
<1>. QED
  BY <1>1, <1>2, <1>3, <1>5, <1>6, <1>7, <1>8, <1>10, <1>11, <1>12, <1>13
  DEF Next, Refuse, EndJob, Shutdown, Abort, Joined, SetSeverityLevel, ChangeFilter, set_async

LEMMA LogSevere == SevereKept /\ Next => SevereKept'
<1>. SUFFICES ASSUME SevereKept, Next PROVE SevereKept'
  OBVIOUS
<1>1. CASE UNCHANGED refused
  BY <1>1 DEF SevereKept
<1>2. CASE Refuse
  <2>1. PICK sev \in {Fatal, Warn, Info}, uid \in BOOLEAN :
          ~transform_filter(sev, uid) /\ refused' = IF sev < refused THEN sev ELSE refused
    BY <1>2 DEF Refuse
  <2>2. sev = Info
    BY <2>1 DEF transform_filter, UIDWhitelist, UIDBlacklist, Fatal, Warn, Info
  <2>. QED
    BY <2>1, <2>2 DEF SevereKept, Warn, Info
<1>. QED
  BY <1>1, <1>2 DEF Next, Submit, TakeEntry, EndJob, EnterSink, LeaveSink, EndLoop, Shutdown, Abort,
     Joined, Panic, FlushAndExit, AttachSink, DetachSink, SetSeverityLevel, ChangeFilter, flush,
     set_async

LEMMA LogStep == ASSUME Disciplined, Inv, [Next]_vars PROVE Inv'
<1>1. CASE Next
  <2>1. TypeOK /\ WalksOK /\ ModesOK /\ Entries /\ SevereKept
    BY DEF Inv, Entries
  <2>2. TypeOK' /\ WalksOK' /\ ModesOK' /\ Entries' /\ SevereKept'
    BY <1>1, <2>1, LogTypes, LogWalks, LogModes, LogEntries, LogSevere
  <2>. QED
    BY <2>2 DEF Inv, Entries
<1>2. CASE UNCHANGED vars
  BY <1>2 DEF vars, Inv, TypeOK, WalksOK, ModesOK, JobsDone, SinksOnce, QueueOrder, PassOrder,
     OutOrder, LogOrder, Kept, SevereKept, Made, Before, Ahead
<1>. QED
  BY <1>1, <1>2

LEMMA LogImplies == Inv => LogSound
<1>. SUFFICES ASSUME Inv PROVE LogSound
  OBVIOUS
<1>1. SinkExclusive
  <2>1. \A a \in Actors : pass[a].inside => pass[a] # Idle /\ pass[a].i \in DOMAIN sinks
    BY LoopFacts DEF Inv, WalksOK, TypeOK
  <2>. QED
    BY <2>1, OneWalks DEF Inv, SinkExclusive
<1>2. EndComplete
  <2>. SUFFICES ASSUME pc["main"] = "exited", NEW k \in DOMAIN due, NEW s \in due[k].sinks
                PROVE  due[k].entry \in ToSet(out[s])
    BY DEF EndComplete, Delivered
  <2>1. \A a \in Actors : pass[a].work # "log"
    BY ActorFacts, LoopFacts DEF Inv, ModesOK
  <2>2. queue = <<>>
    BY DEF Inv, ModesOK
  <2>3. \E i \in DOMAIN out[s] : out[s][i] = due[k].entry
    BY <2>1, <2>2 DEF Inv, Kept, Ahead
  <2>. QED
    BY <2>3 DEF ToSet
<1>. QED
  BY <1>1, <1>2 DEF Inv, LogSound

(* For any threads, sinks and number of entries: if main alone logs while  *)
(* the channel is synchronous, and flushes or leaves asynchronous mode     *)
(* only when no job is pending, no two threads are in one sink, each sink  *)
(* gets the entries of a thread in order and once, every accepted entry is *)
(* out when the program ends, and the filters keep what is severe.         *)
THEOREM LogSoundHolds == ASSUME Disciplined PROVE Spec => []LogSound
<1>1. Inv /\ [Next]_vars => Inv'
  BY LogStep
<1>. QED
  BY <1>1, LogInit, LogImplies, PTL DEF Spec

-----------------------------------------------------------------------------
(* Md5: arithmetic, and what the buffer holds.                             *)

LEMMA DivMod ==
    ASSUME NEW p \in Int, NEW a \in Nat \ {0}
    PROVE  p \div a \in Int /\ p % a \in 0 .. a - 1 /\ p = (p \div a) * a + (p % a)
BY SMT

LEMMA MulMono ==
    ASSUME NEW i \in Int, NEW j \in Int, NEW n \in Nat, i <= j PROVE i * n <= j * n
BY SMT

(* Division with remainder has one result.                                 *)
LEMMA QuotientIs ==
    ASSUME NEW a \in Nat \ {0}, NEW i \in Int, NEW r \in 0 .. a - 1, NEW p, p = i * a + r
    PROVE  p \div a = i /\ p % a = r
<1>1. p \in Int
  OBVIOUS
<1>2. PICK q \in Int, s \in 0 .. a - 1 : q = p \div a /\ s = p % a /\ p = q * a + s
  BY <1>1, DivMod
<1>3. CASE q < i
  <2>1. (q + 1) * a <= i * a
    BY <1>2, <1>3, MulMono
  <2>2. (q + 1) * a = q * a + a /\ q * a \in Int /\ i * a \in Int
    OBVIOUS
  <2>. QED
    BY <1>2, <2>1, <2>2
<1>4. CASE q > i
  <2>1. (i + 1) * a <= q * a
    BY <1>2, <1>4, MulMono
  <2>2. (i + 1) * a = i * a + a /\ q * a \in Int /\ i * a \in Int
    OBVIOUS
  <2>. QED
    BY <1>2, <2>1, <2>2
<1>5. CASE q = i
  <2>1. i * a \in Int
    OBVIOUS
  <2>. QED
    BY <1>2, <1>5, <2>1
<1>. QED
  BY <1>2, <1>3, <1>4, <1>5

LEMMA MessageFacts ==
    ASSUME NEW n \in Nat, NEW j \in Nat, NEW bytes, bytes = M!Message(n + 1, n + j)
    PROVE  bytes \in Seq(Int) /\ Len(bytes) = j /\ \A i \in 1 .. j : bytes[i] = n + i
<1>1. bytes = [i \in 1 .. j |-> n + i]
  BY DEF M!Message
<1>. QED
  BY <1>1

(* A part of a message.                                                    *)
LEMMA PartOfMessage ==
    ASSUME NEW a \in Nat \ {0}, NEW b \in Nat, a <= b + 1,
           NEW p \in Nat \ {0}, NEW q \in Nat, p <= q + 1, q <= b - a + 1
    PROVE  SubSeq(M!Message(a, b), p, q) = M!Message(a + p - 1, a + q - 1)
BY DEF M!Message

LEMMA CopyTyped ==
    ASSUME NEW n \in Nat, NEW f \in [1 .. n -> Int], NEW at \in Nat, NEW bytes \in Seq(Int)
    PROVE  M!memcpy(f, at, bytes) \in [1 .. n -> Int]
BY DEF M!memcpy

(* The record after bytes were stored and a block was processed.           *)
Digest(f, h, l, b) == [buffer |-> f, head |-> h, length |-> l, blocks |-> b]

LEMMA DigestFields ==
    ASSUME NEW f, NEW h, NEW l, NEW b, NEW m, m = Digest(f, h, l, b)
    PROVE  m.buffer = f /\ m.head = h /\ m.length = l /\ m.blocks = b
BY DEF Digest

LEMMA DigestTyped ==
    ASSUME NEW f \in [1 .. 2 * k_block_size -> Int], NEW h \in Nat, NEW l \in Nat, NEW b \in Seq(Seq(Int))
    PROVE  Digest(f, h, l, b) \in M!Digests
BY DEF Digest, M!Digests

LEMMA Fields ==
    ASSUME NEW m \in M!Digests
    PROVE  /\ m = Digest(m.buffer, m.head, m.length, m.blocks)
           /\ m.buffer \in [1 .. 2 * k_block_size -> Int] /\ m.head \in Nat /\ m.length \in Nat
           /\ m.blocks \in Seq(Seq(Int))
BY DEF Digest, M!Digests

LEMMA Stores ==
    ASSUME NEW f, NEW h, NEW l, NEW b, NEW bytes
    PROVE  M!store(Digest(f, h, l, b), bytes) = Digest(M!memcpy(f, h, bytes), h, l, b)
BY DEF Digest, M!store

LEMMA Processes ==
    ASSUME NEW f, NEW h, NEW l, NEW b, NEW o
    PROVE  M!process_block(Digest(f, h, l, b), o) =
           Digest(f, 0, l + k_block_size, Append(b, SubSeq(f, o * k_block_size + 1, (o + 1) * k_block_size)))
<1>1. PICK m : m = Digest(f, h, l, b)
  OBVIOUS
<1>2. PICK i, c : i = l + k_block_size /\ c = Append(b, SubSeq(f, o * k_block_size + 1, (o + 1) * k_block_size))
  OBVIOUS
<1>3. m.buffer = f /\ m.length = l /\ m.blocks = b
  BY ONLY <1>1, DigestFields
<1>4. PICK x : x = M!process_block(m, o)
  OBVIOUS
<1>5. x = [m EXCEPT !.length = i, !.head = 0, !.blocks = c]
  BY <1>2, <1>3, <1>4, Zenon DEF M!process_block
<1>6. x = [[buffer |-> f, head |-> h, length |-> l, blocks |-> b] EXCEPT !.length = i, !.head = 0, !.blocks = c]
  BY <1>1, <1>5, Zenon DEF Digest
<1>7. PICK y : y = [[buffer |-> f, head |-> h, length |-> l, blocks |-> b] EXCEPT !.length = i]
  OBVIOUS
<1>8. y = [buffer |-> f, head |-> h, length |-> i, blocks |-> b]
  BY ONLY <1>7
<1>9. PICK z : z = [[buffer |-> f, head |-> h, length |-> i, blocks |-> b] EXCEPT !.head = 0]
  OBVIOUS
<1>10. z = [buffer |-> f, head |-> 0, length |-> i, blocks |-> b]
  BY ONLY <1>9
<1>11. x = [[buffer |-> f, head |-> 0, length |-> i, blocks |-> b] EXCEPT !.blocks = c]
  BY <1>6, <1>7, <1>8, <1>9, <1>10, Zenon
<1>12. x = [buffer |-> f, head |-> 0, length |-> i, blocks |-> c]
  BY ONLY <1>11
<1>. QED
  BY <1>1, <1>2, <1>4, <1>12, Zenon DEF Digest

LEMMA Heads ==
    ASSUME NEW f, NEW h, NEW l, NEW b, NEW i
    PROVE  [Digest(f, h, l, b) EXCEPT !.head = i] = Digest(f, i, l, b)
BY DEF Digest

LEMMA BlockTyped ==
    ASSUME M!Md5Assumption, NEW x \in M!Digests, NEW bytes \in Seq(Int)
    PROVE  M!process_block(M!store(x, bytes), 0) \in M!Digests
<1>1. PICK f, h, l, b : f = x.buffer /\ h = x.head /\ l = x.length /\ b = x.blocks
  OBVIOUS
<1>2. /\ x = Digest(f, h, l, b) /\ f \in [1 .. 2 * k_block_size -> Int] /\ h \in Nat /\ l \in Nat
      /\ b \in Seq(Seq(Int)) /\ k_block_size \in Nat /\ k_block_size > 0
  BY <1>1, Fields DEF M!Md5Assumption
<1>3. PICK c : c = M!memcpy(f, h, bytes)
  OBVIOUS
<1>4. c \in [1 .. 2 * k_block_size -> Int]
  BY <1>2, <1>3, CopyTyped
<1>5. PICK p : p = SubSeq(c, 0 * k_block_size + 1, (0 + 1) * k_block_size)
  OBVIOUS
<1>6. p \in Seq(Int)
  <2>1. c \in Seq(Int) /\ Len(c) = 2 * k_block_size
    BY <1>2, <1>4
  <2>. QED
    BY <1>2, <1>5, <2>1
<1>7. M!process_block(M!store(x, bytes), 0) = Digest(c, 0, l + k_block_size, Append(b, p))
  BY <1>2, <1>3, <1>5, Stores, Processes
<1>8. l + k_block_size \in Nat /\ Append(b, p) \in Seq(Seq(Int)) /\ 0 \in Nat
  BY <1>2, <1>6
<1>. QED
  BY <1>4, <1>7, <1>8, DigestTyped

(* What Taken says of the parts of the record, and of the blocks.          *)
Parts(m, n, f, h, l, b) ==
    /\ m = Digest(f, h, l, b) /\ f \in [1 .. 2 * k_block_size -> Int] /\ h \in Nat /\ h < k_block_size
    /\ l \in Nat /\ n = l + h /\ b \in Seq(Seq(Int)) /\ \A i \in 1 .. h : f[i] = l + i

Cut(l, b) ==
    /\ l = Len(b) * k_block_size
    /\ \A i \in DOMAIN b : b[i] = M!Message((i - 1) * k_block_size + 1, i * k_block_size)

LEMMA TakenParts ==
    ASSUME NEW m, NEW n, M!Taken(m, n)
    PROVE  \E f, h, l, b : Parts(m, n, f, h, l, b) /\ Cut(l, b)
<1>1. PICK f, h, l, b : f = m.buffer /\ h = m.head /\ l = m.length /\ b = m.blocks
  OBVIOUS
<1>2. /\ m \in M!Digests /\ h < k_block_size /\ n = l + h /\ l = Len(b) * k_block_size
      /\ \A i \in DOMAIN b : b[i] = M!Message((i - 1) * k_block_size + 1, i * k_block_size)
      /\ \A i \in 1 .. h : f[i] = l + i
  BY <1>1, Zenon DEF M!Taken
<1>3. /\ m = Digest(f, h, l, b) /\ f \in [1 .. 2 * k_block_size -> Int] /\ h \in Nat /\ l \in Nat
      /\ b \in Seq(Seq(Int))
  BY <1>1, <1>2, Fields, Zenon
<1>4. Parts(m, n, f, h, l, b) /\ Cut(l, b)
  BY <1>2, <1>3, Zenon DEF Parts, Cut
<1>. QED
  BY ONLY <1>4

LEMMA PartsTaken ==
    ASSUME NEW m, NEW n, NEW f, NEW h, NEW l, NEW b, Parts(m, n, f, h, l, b), Cut(l, b)
    PROVE  M!Taken(m, n)
<1>1. m = Digest(f, h, l, b) /\ m \in M!Digests
  BY DigestTyped DEF Parts
<1>2. m.buffer = f /\ m.head = h /\ m.length = l /\ m.blocks = b
  BY ONLY <1>1, DigestFields
<1>. QED
  BY <1>1, <1>2, Zenon DEF M!Taken, Parts, Cut

LEMMA CutMore ==
    ASSUME k_block_size \in Nat, NEW l, NEW b \in Seq(Seq(Int)), Cut(l, b), NEW s \in Seq(Int),
           s = M!Message(l + 1, l + k_block_size)
    PROVE  Cut(l + k_block_size, Append(b, s))
<1>1. PICK q \in Nat, k \in Nat : q = Len(b) /\ k = k_block_size
  OBVIOUS
<1>2. l = q * k /\ \A i \in 1 .. q : b[i] = M!Message((i - 1) * k + 1, i * k)
  <2>1. DOMAIN b = 1 .. q
    BY <1>1
  <2>. QED
    BY <1>1, <2>1, Zenon DEF Cut
<1>3. l + k = (q + 1) * k /\ (q + 1 - 1) * k = l
  BY <1>1, <1>2
<1>4. PICK c : c = Append(b, s)
  OBVIOUS
<1>5. Len(c) = q + 1 /\ c[q + 1] = s /\ DOMAIN c = 1 .. q + 1 /\ \A i \in 1 .. q : c[i] = b[i]
  BY ONLY <1>1, <1>4, b \in Seq(Seq(Int)), s \in Seq(Int)
<1>6. ASSUME NEW i \in 1 .. q + 1 PROVE c[i] = M!Message((i - 1) * k + 1, i * k)
  <2>1. CASE i = q + 1
    <3>1. PICK x, y : x = (q + 1 - 1) * k + 1 /\ y = (q + 1) * k
      OBVIOUS
    <3>2. x = l + 1 /\ y = l + k
      BY <1>3, <3>1, Zenon
    <3>3. c[i] = M!Message(x, y)
      BY <1>1, <1>5, <2>1, <3>2, Zenon
    <3>4. x = (i - 1) * k + 1 /\ y = i * k
      BY ONLY <2>1, <3>1
    <3>. QED
      BY <3>3, <3>4, Zenon
  <2>2. CASE i \in 1 .. q
    BY <1>2, <1>5, <2>2, Zenon
  <2>3. i = q + 1 \/ i \in 1 .. q
    OBVIOUS
  <2>. QED
    BY <2>1, <2>2, <2>3
<1>. QED
  BY <1>1, <1>3, <1>4, <1>5, <1>6, Zenon DEF Cut

(* The rest of a block from the message completes it.                      *)
LEMMA Completed ==
    ASSUME M!Md5Assumption, NEW n \in Nat, NEW m, M!Taken(m, n),
           NEW bytes, bytes = M!Message(n + 1, n + k_block_size - m.head)
    PROVE  /\ M!Taken(M!process_block(M!store(m, bytes), 0), n + k_block_size - m.head)
           /\ M!process_block(M!store(m, bytes), 0).head = 0
<1>1. PICK f, h, l, b : Parts(m, n, f, h, l, b) /\ Cut(l, b)
  BY TakenParts, Zenon
<1>2. /\ m = Digest(f, h, l, b) /\ h \in Nat /\ h < k_block_size /\ l \in Nat /\ n = l + h
      /\ b \in Seq(Seq(Int)) /\ f \in [1 .. 2 * k_block_size -> Int]
      /\ \A i \in 1 .. h : f[i] = l + i
  BY <1>1 DEF Parts
<1>3. m.head = h
  BY ONLY <1>2, DigestFields
<1>4. PICK k \in Nat : k = k_block_size /\ k > 0
  BY DEF M!Md5Assumption
<1>5. bytes \in Seq(Int) /\ Len(bytes) = k - h /\ \A i \in 1 .. k - h : bytes[i] = n + i
  <2>1. PICK j : j = k - h
    OBVIOUS
  <2>2. j \in Nat /\ n \in Nat /\ n + k - h = n + j
    BY ONLY <1>2, <1>4, <2>1
  <2>3. bytes = M!Message(n + 1, n + j)
    BY <1>3, <1>4, <2>2, Zenon
  <2>. QED
    <3>1. bytes \in Seq(Int) /\ Len(bytes) = j /\ \A i \in 1 .. j : bytes[i] = n + i
      BY ONLY <2>2, <2>3, MessageFacts
    <3>. QED
      BY ONLY <2>1, <3>1
<1>6. PICK c : c = M!memcpy(f, h, bytes)
  OBVIOUS
<1>7. c \in [1 .. 2 * k -> Int] /\ \A i \in 1 .. k : c[i] = l + i
  <2>1. c \in [1 .. 2 * k -> Int]
    <3>1. PICK e \in Nat : e = 2 * k
      OBVIOUS
    <3>2. f \in [1 .. e -> Int]
      BY <1>2, <1>4, <3>1, Zenon
    <3>3. M!memcpy(f, h, bytes) \in [1 .. e -> Int]
      BY ONLY <1>2, <1>5, <3>1, <3>2, CopyTyped
    <3>. QED
      BY <1>6, <3>1, <3>3, Zenon
  <2>2. ASSUME NEW i \in 1 .. k PROVE c[i] = l + i
    <3>1. i \in DOMAIN f
      BY ONLY <1>2, <1>4, i \in 1 .. k
    <3>2. c[i] = IF i \in h + 1 .. h + Len(bytes) THEN bytes[i - h] ELSE f[i]
      BY <1>6, <3>1, Zenon DEF M!memcpy
    <3>. QED
      BY ONLY <1>2, <1>4, <1>5, <3>2, i \in 1 .. k
  <2>. QED
    BY <2>1, <2>2
<1>8. PICK s : s = M!Message(l + 1, l + k)
  OBVIOUS
<1>9. SubSeq(c, 0 * k + 1, (0 + 1) * k) = s
  <2>1. c \in Seq(Int) /\ Len(c) = 2 * k
    BY ONLY <1>4, <1>7
  <2>2. 0 * k + 1 = 1 /\ (0 + 1) * k = k
    BY ONLY <1>4
  <2>3. SubSeq(c, 1, k) = [i \in 1 .. k |-> c[i]]
    BY ONLY <1>4, <2>1
  <2>4. s = [i \in 1 .. k |-> l + i]
    BY ONLY <1>2, <1>4, <1>8 DEF M!Message
  <2>. QED
    BY ONLY <1>7, <2>2, <2>3, <2>4
<1>10. s \in Seq(Int)
  BY ONLY <1>2, <1>4, <1>8, MessageFacts
<1>11. PICK x : x = M!process_block(M!store(m, bytes), 0)
  OBVIOUS
<1>12. x = Digest(c, 0, l + k, Append(b, s))
  <2>1. PICK y : y = M!store(m, bytes)
    OBVIOUS
  <2>2. y = Digest(c, h, l, b)
    BY ONLY <1>2, <1>6, <2>1, Stores
  <2>3. x = M!process_block(Digest(c, h, l, b), 0)
    BY ONLY <1>11, <2>1, <2>2
  <2>. QED
    <3>1. M!process_block(Digest(c, h, l, b), 0)
          = Digest(c, 0, l + k_block_size, Append(b, SubSeq(c, 0 * k_block_size + 1, (0 + 1) * k_block_size)))
      BY ONLY Processes
    <3>. QED
      BY <1>4, <1>9, <2>3, <3>1, Zenon
<1>13. Cut(l + k, Append(b, s))
  BY ONLY <1>1, <1>2, <1>4, <1>8, <1>10, CutMore
<1>14. Parts(x, l + k, c, 0, l + k, Append(b, s))
  BY ONLY <1>2, <1>4, <1>7, <1>10, <1>12 DEF Parts
<1>15. x.head = 0 /\ M!Taken(x, l + k)
  <2>1. x.head = 0
    BY ONLY <1>12, DigestFields
  <2>. QED
    BY ONLY <1>13, <1>14, <2>1, PartsTaken, Zenon
<1>16. n + k_block_size - m.head = l + k
  BY ONLY <1>2, <1>3, <1>4
<1>. QED
  BY <1>11, <1>15, <1>16

LEMMA TakenHead ==
    ASSUME NEW m, NEW n, M!Taken(m, n)
    PROVE  m \in M!Digests /\ m.head \in Nat /\ m.head < k_block_size
BY Fields, Zenon DEF M!Taken

(* Bytes that do not complete a block wait in the buffer.                  *)
LEMMA Stashed ==
    ASSUME M!Md5Assumption, NEW n \in Nat, NEW m, M!Taken(m, n), NEW j \in Nat, m.head + j < k_block_size,
           NEW bytes, bytes = M!Message(n + 1, n + j), NEW v, v = m.head + j
    PROVE  M!Taken([M!store(m, bytes) EXCEPT !.head = v], n + j)
<1>1. PICK f, h, l, b : Parts(m, n, f, h, l, b) /\ Cut(l, b)
  BY TakenParts, Zenon
<1>2. /\ m = Digest(f, h, l, b) /\ h \in Nat /\ l \in Nat /\ n = l + h
      /\ b \in Seq(Seq(Int)) /\ f \in [1 .. 2 * k_block_size -> Int]
      /\ \A i \in 1 .. h : f[i] = l + i
  BY <1>1 DEF Parts
<1>3. m.head = h
  BY ONLY <1>2, DigestFields
<1>4. PICK k \in Nat : k = k_block_size /\ h + j < k
  BY <1>3 DEF M!Md5Assumption
<1>5. bytes \in Seq(Int) /\ Len(bytes) = j /\ \A i \in 1 .. j : bytes[i] = n + i
  BY MessageFacts
<1>6. PICK c : c = M!memcpy(f, h, bytes)
  OBVIOUS
<1>7. c \in [1 .. 2 * k -> Int] /\ \A i \in 1 .. h + j : c[i] = l + i
  BY ONLY <1>2, <1>4, <1>5, <1>6, j \in Nat DEF M!memcpy
<1>8. PICK x : x = [M!store(m, bytes) EXCEPT !.head = v] /\ v = h + j
  BY <1>3
<1>9. x = Digest(c, h + j, l, b)
  <2>1. PICK y : y = M!store(m, bytes)
    OBVIOUS
  <2>2. y = Digest(c, h, l, b)
    BY ONLY <1>2, <1>6, <2>1, Stores
  <2>3. x = [Digest(c, h, l, b) EXCEPT !.head = h + j]
    BY ONLY <1>3, <1>8, <2>1, <2>2
  <2>. QED
    BY ONLY <2>3, Heads
<1>10. Parts(x, n + j, c, h + j, l, b)
  BY ONLY <1>2, <1>4, <1>7, <1>9, j \in Nat DEF Parts
<1>. QED
  BY <1>1, <1>8, <1>10, PartsTaken, Zenon

(* The function the recursive definition in process describes exists.      *)
Iterated(f, n, X, x, step) ==
    f \in [0 .. n -> X] /\ f[0] = x /\ \A i \in 1 .. n : f[i] = step[i][f[i - 1]]

LEMMA Iterates ==
    ASSUME NEW X, NEW x \in X, NEW step \in [Nat -> [X -> X]], NEW n \in Nat
    PROVE  \E f : Iterated(f, n, X, x, step)
<1>. DEFINE Good(k) == \E f \in [0 .. k -> X] : f[0] = x /\ \A i \in 1 .. k : f[i] = step[i][f[i - 1]]
            Bad == {k \in Nat : ~Good(k)}
<1>. SUFFICES ASSUME Bad # {} PROVE FALSE
  BY DEF Iterated
<1>1. PICK k \in Bad : \A j \in Bad : k <= j
  <2>. HIDE DEF Good
  <2>. QED
    BY LeastNat
<1>2. k # 0
  <2>. DEFINE g == [i \in 0 .. 0 |-> x]
  <2>1. g \in [0 .. 0 -> X] /\ g[0] = x /\ \A i \in 1 .. 0 : g[i] = step[i][g[i - 1]]
    OBVIOUS
  <2>2. Good(0)
    <3>. HIDE DEF g
    <3>. QED
      BY <2>1
  <2>. HIDE DEF Good
  <2>. QED
    BY <1>1, <2>2
<1>3. k - 1 \in Nat /\ Good(k - 1)
  <2>. HIDE DEF Good
  <2>. QED
    BY <1>1, <1>2
<1>4. PICK f \in [0 .. k - 1 -> X] : f[0] = x /\ \A i \in 1 .. k - 1 : f[i] = step[i][f[i - 1]]
  BY <1>3
<1>. DEFINE g == [i \in 0 .. k |-> IF i = k THEN step[k][f[k - 1]] ELSE f[i]]
<1>5. k - 1 \in 0 .. k - 1 /\ k \in Nat /\ f[k - 1] \in X
  BY <1>3, <1>4
<1>6. step[k][f[k - 1]] \in X
  BY <1>5
<1>7. g \in [0 .. k -> X] /\ g[0] = x
  BY <1>2, <1>4, <1>5, <1>6
<1>8. ASSUME NEW i \in 1 .. k PROVE g[i] = step[i][g[i - 1]]
  <2>1. i - 1 \in 0 .. k /\ i - 1 # k /\ i \in 0 .. k /\ (i # k => i \in 1 .. k - 1)
    BY <1>5
  <2>2. g[i - 1] = f[i - 1]
    BY <2>1
  <2>. QED
    BY <1>4, <2>1, <2>2
<1>9. Good(k)
  <2>. HIDE DEF g
  <2>. QED
    BY <1>7, <1>8
<1>. QED
  BY <1>1, <1>9

(* A property that goes from each number to the next holds up to the last. *)
LEMMA Upwards ==
    ASSUME NEW a \in Nat, NEW b \in Nat, NEW reached, reached \subseteq a .. b, a \in reached,
           \A i \in a .. b - 1 : i \in reached => i + 1 \in reached
    PROVE  \A i \in a .. b : i \in reached
<1>. DEFINE Bad == {i \in a .. b : i \notin reached}
<1>. SUFFICES ASSUME Bad # {} PROVE FALSE
  OBVIOUS
<1>1. PICK k \in Bad : \A j \in Bad : k <= j
  <2>1. Bad \in SUBSET Nat
    OBVIOUS
  <2>. HIDE DEF Bad
  <2>. QED
    BY <2>1, LeastNat
<1>2. k - 1 \in a .. b - 1 /\ k - 1 \notin Bad
  BY <1>1
<1>. QED
  BY <1>1, <1>2

(* What the recursive function of process describes: a block at a time.    *)
Rounds(x, input, p, w, g) ==
    [k \in 0 .. w |-> IF k = 0 THEN x
                      ELSE M!process_block(M!store(g[k - 1],
                             SubSeq(input, p + (k - 1) * k_block_size + 1, p + (k - 1 + 1) * k_block_size)), 0)]

RoundsOf(x, input, p, w) == CHOOSE g : g = Rounds(x, input, p, w, g)

WithRest(x, input, p, w) ==
    [M!store(RoundsOf(x, input, p, w)[w], SubSeq(input, p + w * k_block_size + 1, Len(input)))
     EXCEPT !.head = Len(SubSeq(input, p + w * k_block_size + 1, Len(input)))]

LEMMA ProcessIs ==
    ASSUME NEW m, NEW input
    PROVE  M!process(m, input)
           = IF m.head + Len(input) < k_block_size
             THEN [M!store(m, input) EXCEPT !.head = M!store(m, input).head + Len(input)]
             ELSE WithRest(M!process_block(M!store(m, SubSeq(input, 1, k_block_size - m.head)), 0), input,
                           k_block_size - m.head, (Len(input) - (k_block_size - m.head)) \div k_block_size)
BY Zenon DEF M!process, WithRest, RoundsOf, Rounds

(* The blocks of a piece, from its byte p on.                              *)
Fits(p, w, j) == p + w * k_block_size <= j

BlockAt(n, j, p, input, i) ==
    \E o \in Nat : /\ o = p + (i - 1) * k_block_size /\ o + k_block_size = p + i * k_block_size
                  /\ o + k_block_size <= j
                  /\ SubSeq(input, p + (i - 1) * k_block_size + 1, p + (i - 1 + 1) * k_block_size)
                     = M!Message(n + o + 1, n + o + k_block_size)

LEMMA BlocksOfPiece ==
    ASSUME k_block_size \in Nat, NEW n \in Nat, NEW j \in Nat, NEW p \in Nat, NEW w \in Nat, Fits(p, w, j),
           NEW input, input = M!Message(n + 1, n + j), NEW i \in 1 .. w
    PROVE  BlockAt(n, j, p, input, i)
<1>1. PICK k \in Nat : k = k_block_size
  OBVIOUS
<1>2. PICK o : o = p + (i - 1) * k
  OBVIOUS
<1>3. o \in Nat /\ (i - 1) * k + k = i * k /\ i - 1 + 1 = i /\ (i - 1) * k \in Nat /\ i * k \in Nat
  <2>1. i - 1 \in Nat
    OBVIOUS
  <2>. QED
    BY <1>2, <2>1
<1>4. i * k <= w * k
  BY MulMono
<1>5. o + k = p + i * k /\ o + k <= j
  <2>1. w * k \in Nat /\ p + w * k <= j
    BY <1>1 DEF Fits
  <2>. QED
    BY ONLY p \in Nat, j \in Nat, k \in Nat, <1>2, <1>3, <1>4, <2>1
<1>6. SubSeq(input, o + 1, o + k) = M!Message(n + o + 1, n + o + k)
  <2>1. SubSeq(M!Message(n + 1, n + j), o + 1, o + k) = M!Message(n + 1 + (o + 1) - 1, n + 1 + (o + k) - 1)
    <3>1. PICK a, b, c, d : a = n + 1 /\ b = n + j /\ c = o + 1 /\ d = o + k
      OBVIOUS
    <3>2. /\ a \in Nat \ {0} /\ b \in Nat /\ a <= b + 1
          /\ c \in Nat \ {0} /\ d \in Nat /\ c <= d + 1 /\ d <= b - a + 1
      BY <1>3, <1>5, <3>1
    <3>3. SubSeq(M!Message(a, b), c, d) = M!Message(a + c - 1, a + d - 1)
      BY ONLY <3>2 DEF M!Message
    <3>. QED
      BY <3>1, <3>3, Zenon
  <2>2. n + 1 + (o + 1) - 1 = n + o + 1 /\ n + 1 + (o + k) - 1 = n + o + k
    BY <1>3
  <2>. QED
    BY <2>1, <2>2, Zenon
<1>7. p + (i - 1 + 1) * k = o + k
  BY <1>3, <1>5, Zenon
<1>. QED
  BY <1>1, <1>2, <1>3, <1>5, <1>6, <1>7, Zenon DEF BlockAt

LEMMA BlockByBlock ==
    ASSUME M!Md5Assumption, NEW n \in Nat, NEW j \in Nat, NEW p \in Nat, NEW w \in Nat, Fits(p, w, j),
           NEW input, input = M!Message(n + 1, n + j), NEW x, M!Taken(x, n + p), x.head = 0,
           NEW all, all = RoundsOf(x, input, p, w)
    PROVE  M!Taken(all[w], n + (p + w * k_block_size)) /\ all[w].head = 0
<1>0. PICK k \in Nat : k = k_block_size /\ k_block_size \in Nat
  BY DEF M!Md5Assumption
<1>1. PICK part : part = [i \in 1 .. w |-> SubSeq(input, p + (i - 1) * k_block_size + 1, p + (i - 1 + 1) * k_block_size)]
  OBVIOUS
<1>2. ASSUME NEW i \in 1 .. w
      PROVE  \E o \in Nat : /\ o = p + (i - 1) * k /\ o + k = p + i * k /\ o + k <= j
                           /\ part[i] = M!Message(n + o + 1, n + o + k)
  <2>1. PICK o \in Nat : /\ o = p + (i - 1) * k_block_size /\ o + k_block_size = p + i * k_block_size
                        /\ o + k_block_size <= j
                        /\ SubSeq(input, p + (i - 1) * k_block_size + 1, p + (i - 1 + 1) * k_block_size)
                           = M!Message(n + o + 1, n + o + k_block_size)
    <3>1. BlockAt(n, j, p, input, i)
      BY <1>0, BlocksOfPiece
    <3>. QED
      BY <3>1, Zenon DEF BlockAt
  <2>2. part[i] = M!Message(n + o + 1, n + o + k_block_size)
    BY <1>1, <2>1, Zenon
  <2>. QED
    BY <1>0, <2>1, <2>2, Zenon
<1>3. ASSUME NEW i \in 1 .. w PROVE part[i] \in Seq(Int)
  <2>1. PICK o \in Nat : part[i] = M!Message(n + o + 1, n + o + k)
    BY <1>2
  <2>2. PICK e \in Nat : e = n + o
    OBVIOUS
  <2>3. part[i] = M!Message(e + 1, e + k)
    BY <2>1, <2>2, Zenon
  <2>. QED
    BY ONLY e \in Nat, k \in Nat, <2>3, MessageFacts
<1>4. PICK step : step = [i \in Nat |-> [d \in M!Digests |->
                      IF i \in 1 .. w THEN M!process_block(M!store(d, part[i]), 0) ELSE d]]
  OBVIOUS
<1>5. step \in [Nat -> [M!Digests -> M!Digests]]
  <2>1. ASSUME NEW i \in Nat, NEW d \in M!Digests
        PROVE  (IF i \in 1 .. w THEN M!process_block(M!store(d, part[i]), 0) ELSE d) \in M!Digests
    BY <1>3, BlockTyped, Zenon
  <2>. QED
    BY <1>4, <2>1, Zenon
<1>6. x \in M!Digests
  BY DEF M!Taken
<1>7. PICK f : Iterated(f, w, M!Digests, x, step)
  BY ONLY w \in Nat, <1>5, <1>6, Iterates
<1>8. f \in [0 .. w -> M!Digests] /\ f[0] = x /\ \A i \in 1 .. w : f[i] = step[i][f[i - 1]]
  BY <1>7 DEF Iterated
<1>9. ASSUME NEW i \in 0 .. w PROVE f[i] = Rounds(x, input, p, w, f)[i]
  <2>1. CASE i = 0
    BY <1>8, <2>1 DEF Rounds
  <2>2. CASE i # 0
    <3>1. i \in 1 .. w /\ i \in Nat /\ i - 1 \in 0 .. w
      BY <2>2
    <3>2. f[i - 1] \in M!Digests
      BY ONLY <1>8, <3>1
    <3>3. f[i] = M!process_block(M!store(f[i - 1], part[i]), 0)
      BY <1>4, <1>8, <3>1, <3>2, Zenon
    <3>. QED
      BY <1>1, <2>2, <3>1, <3>3, Zenon DEF Rounds
  <2>. QED
    BY <2>1, <2>2
<1>10. f = Rounds(x, input, p, w, f)
  <2>1. f = [i \in 0 .. w |-> f[i]]
    BY <1>8
  <2>2. Rounds(x, input, p, w, f) = [i \in 0 .. w |-> Rounds(x, input, p, w, f)[i]]
    BY Zenon DEF Rounds
  <2>. QED
    BY <1>9, <2>1, <2>2, Zenon
<1>11. all = Rounds(x, input, p, w, all)
  BY <1>10 DEF RoundsOf
<1>12. all[0] = x
  <2>1. 0 \in 0 .. w
    OBVIOUS
  <2>. QED
    BY <1>11, <2>1, Zenon DEF Rounds
<1>13. ASSUME NEW i \in 1 .. w PROVE all[i] = M!process_block(M!store(all[i - 1], part[i]), 0)
  <2>1. i \in 0 .. w /\ i # 0
    OBVIOUS
  <2>. QED
    BY <1>1, <1>11, <2>1, Zenon DEF Rounds
<1>. DEFINE reached == {i \in 0 .. w : M!Taken(all[i], n + (p + i * k)) /\ all[i].head = 0}
<1>14. 0 \in reached
  <2>1. p + 0 * k = p /\ 0 \in 0 .. w
    OBVIOUS
  <2>. QED
    BY <1>12, <2>1, Zenon
<1>15. ASSUME NEW i \in 0 .. w - 1, i \in reached PROVE i + 1 \in reached
  <2>1. i + 1 \in 1 .. w /\ i + 1 - 1 = i /\ i + 1 \in 0 .. w
    OBVIOUS
  <2>2. PICK o \in Nat : /\ o = p + i * k /\ o + k = p + (i + 1) * k
                        /\ part[i + 1] = M!Message(n + o + 1, n + o + k)
    <3>1. PICK u \in 1 .. w : u = i + 1
      BY <2>1
    <3>2. PICK o \in Nat : /\ o = p + (u - 1) * k /\ o + k = p + u * k
                          /\ part[u] = M!Message(n + o + 1, n + o + k)
      BY <1>2, Zenon
    <3>3. u - 1 = i
      BY <3>1
    <3>. QED
      BY <3>1, <3>2, <3>3, Zenon
  <2>3. PICK e \in Nat : e = n + o
    OBVIOUS
  <2>4. PICK m : m = all[i]
    OBVIOUS
  <2>5. M!Taken(m, e) /\ m.head = 0
    <3>1. M!Taken(all[i], n + (p + i * k)) /\ all[i].head = 0
      BY <1>15, Zenon
    <3>2. n + (p + i * k) = e
      BY <2>2, <2>3, Zenon
    <3>. QED
      BY <2>4, <3>1, <3>2, Zenon
  <2>6. e + k_block_size - m.head = e + k
    BY <1>0, <2>5
  <2>7. part[i + 1] = M!Message(e + 1, e + k_block_size - m.head)
    BY <2>2, <2>3, <2>6, Zenon
  <2>8. all[i + 1] = M!process_block(M!store(m, part[i + 1]), 0)
    <3>1. PICK u \in 1 .. w : u = i + 1 /\ u - 1 = i
      BY <2>1
    <3>2. all[u] = M!process_block(M!store(all[u - 1], part[u]), 0)
      BY <1>13
    <3>. QED
      BY <2>4, <3>1, <3>2, Zenon
  <2>9. M!Taken(all[i + 1], e + k) /\ all[i + 1].head = 0
    <3>1. PICK y : y = M!process_block(M!store(m, part[i + 1]), 0)
      OBVIOUS
    <3>2. M!Taken(y, e + k_block_size - m.head) /\ y.head = 0
      BY ONLY M!Md5Assumption, e \in Nat, <2>5, <2>7, <3>1, Completed
    <3>. QED
      BY <2>6, <2>8, <3>1, <3>2, Zenon
  <2>10. e + k = n + (p + (i + 1) * k)
    <3>1. e + k = n + (o + k)
      BY <2>3
    <3>. QED
      BY <2>2, <3>1, Zenon
  <2>. QED
    BY <2>1, <2>9, <2>10, Zenon
<1>16. w \in reached
  <2>1. reached \subseteq 0 .. w /\ w \in 0 .. w
    OBVIOUS
  <2>. HIDE DEF reached
  <2>2. \A i \in 0 .. w - 1 : i \in reached => i + 1 \in reached
    BY <1>15
  <2>3. 0 \in Nat
    OBVIOUS
  <2>. QED
    BY ONLY w \in Nat, <1>14, <2>1, <2>2, <2>3, Upwards
<1>. QED
  BY <1>0, <1>16, Zenon

(* A piece of any length is taken in.                                      *)
LEMMA ProcessTakes ==
    ASSUME M!Md5Assumption, NEW n \in Nat, NEW j \in Nat, NEW m, M!Taken(m, n)
    PROVE  M!Taken(M!process(m, M!Message(n + 1, n + j)), n + j)
<1>1. PICK k \in Nat \ {0}, h \in Nat : k = k_block_size /\ h = m.head /\ h < k
  BY TakenHead DEF M!Md5Assumption
<1>2. PICK input : input = M!Message(n + 1, n + j)
  OBVIOUS
<1>3. Len(input) = j /\ input \in Seq(Int)
  BY <1>2, MessageFacts
<1>4. CASE h + j < k
  <2>1. M!process(m, input) = [M!store(m, input) EXCEPT !.head = M!store(m, input).head + Len(input)]
    BY <1>1, <1>3, <1>4, ProcessIs, Zenon
  <2>2. M!store(m, input).head = h
    <3>1. PICK f, l, b : m = Digest(f, h, l, b)
      <4>1. m = Digest(m.buffer, h, m.length, m.blocks)
        BY <1>1, TakenHead, Fields, Zenon
      <4>. QED
        BY <4>1
    <3>2. PICK y : y = M!store(m, input)
      OBVIOUS
    <3>3. y = Digest(M!memcpy(f, h, input), h, l, b)
      BY ONLY <3>1, <3>2, Stores
    <3>. QED
      BY ONLY <3>2, <3>3, DigestFields
  <2>3. PICK v : v = m.head + j
    OBVIOUS
  <2>4. M!process(m, input) = [M!store(m, input) EXCEPT !.head = v]
    BY <1>1, <1>3, <2>1, <2>2, <2>3, Zenon
  <2>5. m.head + j < k_block_size
    BY <1>1, <1>4
  <2>6. M!Taken([M!store(m, input) EXCEPT !.head = v], n + j)
    BY ONLY M!Md5Assumption, n \in Nat, j \in Nat, M!Taken(m, n), <1>2, <2>3, <2>5, Stashed
  <2>. QED
    BY <1>2, <2>4, <2>6, Zenon
<1>5. CASE ~(h + j < k)
  <2>1. PICK p \in Nat : p = k - h /\ p <= j /\ p # 0
    BY <1>1, <1>5
  <2>2. PICK w, r : w = (j - p) \div k /\ r = (j - p) % k
    OBVIOUS
  <2>3. w \in Nat /\ r \in 0 .. k - 1 /\ j - p = w * k + r
    <3>1. PICK d \in Nat : d = j - p
      BY <2>1
    <3>2. w \in Int /\ r \in 0 .. k - 1 /\ d = w * k + r
      BY <2>2, <3>1, DivMod
    <3>3. CASE w < 0
      <4>1. w * k <= (0 - 1) * k
        BY ONLY <3>2, <3>3, k \in Nat \ {0}, MulMono
      <4>2. (0 - 1) * k = 0 - k /\ w * k \in Int
        BY <3>2
      <4>. QED
        BY <3>1, <3>2, <4>1, <4>2
    <3>. QED
      BY <3>1, <3>2, <3>3
  <2>4. PICK x : x = M!process_block(M!store(m, SubSeq(input, 1, p)), 0)
    OBVIOUS
  <2>5. M!Taken(x, n + p) /\ x.head = 0
    <3>1. SubSeq(input, 1, p) = M!Message(n + 1, n + p)
      BY <1>2, <2>1 DEF M!Message
    <3>2. n + k_block_size - m.head = n + p
      BY <1>1, <2>1
    <3>. QED
      BY <2>4, <3>1, <3>2, Completed, Zenon
  <2>6. PICK all : all = RoundsOf(x, input, p, w)
    OBVIOUS
  <2>7. PICK o \in Nat : o = p + w * k /\ o + r = j
    BY <2>1, <2>3
  <2>8. Fits(p, w, j)
    <3>1. o <= j
      BY <2>3, <2>7
    <3>. QED
      BY <1>1, <2>7, <3>1, Zenon DEF Fits
  <2>9. M!Taken(all[w], n + o) /\ all[w].head = 0
    <3>1. M!Taken(all[w], n + (p + w * k_block_size)) /\ all[w].head = 0
      BY ONLY M!Md5Assumption, n \in Nat, j \in Nat, p \in Nat, <1>2, <2>3, <2>5, <2>6, <2>8, BlockByBlock
    <3>. QED
      BY <1>1, <2>7, <3>1, Zenon
  <2>10. PICK rest : rest = SubSeq(input, o + 1, j)
    OBVIOUS
  <2>11. rest = M!Message(n + o + 1, n + o + r) /\ Len(rest) = r
    BY <1>2, <2>3, <2>7, <2>10 DEF M!Message
  <2>12. M!process(m, input) = [M!store(all[w], rest) EXCEPT !.head = Len(rest)]
    <3>1. ~(m.head + Len(input) < k_block_size)
      BY <1>1, <1>3, <1>5
    <3>2. M!process(m, input) = WithRest(x, input, p, w)
      BY <1>1, <1>3, <2>1, <2>2, <2>4, <3>1, ProcessIs, Zenon
    <3>. QED
      BY <1>1, <1>3, <2>6, <2>7, <2>10, <3>2, Zenon DEF WithRest
  <2>13. PICK y, e : y = all[w] /\ e = n + o
    OBVIOUS
  <2>14. e \in Nat /\ r \in Nat /\ y.head = 0 /\ y.head + r = r /\ r < k_block_size /\ e + r = n + j
    BY <1>1, <2>3, <2>7, <2>9, <2>13
  <2>15. M!Taken(y, e) /\ rest = M!Message(e + 1, e + r)
    BY <2>9, <2>11, <2>13, Zenon
  <2>16. M!Taken([M!store(y, rest) EXCEPT !.head = r], e + r)
    BY ONLY M!Md5Assumption, <2>14, <2>15, Stashed
  <2>. QED
    BY <1>2, <2>11, <2>12, <2>13, <2>14, <2>16, Zenon
<1>. QED
  BY <1>4, <1>5

(* The message with its padding, and the buffer that holds its end.        *)
Padded(n, z, field) == M!Message(1, n) \o <<M!Marker>> \o M!Zeros(z) \o field

Filled(f, h, z, field) == M!memcpy(M!memcpy(f, h, <<M!Marker>> \o M!Zeros(z)), h + (1 + z), field)

ConcatIs(c, a, b, p, q) ==
    /\ c \in Seq(Int) /\ Len(c) = p + q /\ \A i \in 1 .. p : c[i] = a[i]
    /\ \A i \in 1 .. q : c[p + i] = b[i]

LEMMA Concatenated ==
    ASSUME NEW a \in Seq(Int), NEW b \in Seq(Int), NEW p \in Nat, NEW q \in Nat, Len(a) = p, Len(b) = q,
           NEW c, c = a \o b
    PROVE  ConcatIs(c, a, b, p, q)
<1>1. /\ c \in Seq(Int) /\ Len(c) = p + q
      /\ \A i \in 1 .. p + q : c[i] = IF i <= p THEN a[i] ELSE b[i - p]
  BY ConcatProperties, Zenon
<1>2. ASSUME NEW i \in 1 .. p PROVE c[i] = a[i]
  BY <1>1
<1>3. ASSUME NEW i \in 1 .. q PROVE c[p + i] = b[i]
  <2>1. PICK j : j = p + i
    OBVIOUS
  <2>2. j \in 1 .. p + q /\ ~(j <= p) /\ j - p = i
    BY <2>1
  <2>. QED
    BY <1>1, <2>1, <2>2, Zenon
<1>. QED
  BY <1>1, <1>2, <1>3, Zenon DEF ConcatIs

MessageIs(c, n, z, e, field) ==
    /\ c \in Seq(Int) /\ Len(c) = n + 1 + z + e
    /\ \A i \in 1 .. n : c[i] = i
    /\ c[n + 1] = M!Marker
    /\ \A i \in 1 .. z : c[n + 1 + i] = 0
    /\ \A i \in 1 .. e : c[n + 1 + z + i] = field[i]

BufferIs(g, k, f, h, z, e, field) ==
    /\ g \in [1 .. k -> Int]
    /\ \A i \in 1 .. h : g[i] = f[i]
    /\ g[h + 1] = M!Marker
    /\ \A i \in 1 .. z : g[h + 1 + i] = 0
    /\ \A i \in 1 .. e : g[h + 1 + z + i] = field[i]

LEMMA PaddedMessage ==
    ASSUME NEW n \in Nat, NEW z \in Nat, NEW e \in Nat, NEW field \in Seq(Int), Len(field) = e, NEW c,
           c = Padded(n, z, field)
    PROVE  MessageIs(c, n, z, e, field)
<1>1. PICK a : a = M!Message(1, n)
  OBVIOUS
<1>2. a \in Seq(Int) /\ Len(a) = n /\ \A i \in 1 .. n : a[i] = i
  BY <1>1 DEF M!Message
<1>3. PICK d : d = M!Zeros(z)
  OBVIOUS
<1>4. d \in Seq(Int) /\ Len(d) = z /\ \A i \in 1 .. z : d[i] = 0
  BY <1>3 DEF M!Zeros
<1>5. PICK x : x = M!Marker /\ x \in Int
  BY DEF M!Marker
<1>6. PICK p : p = a \o <<x>>
  OBVIOUS
<1>7. p \in Seq(Int) /\ Len(p) = n + 1 /\ p[n + 1] = x /\ \A i \in 1 .. n : p[i] = i
  <2>1. PICK y : y = <<x>> /\ y \in Seq(Int) /\ Len(y) = 1 /\ y[1] = x
    <3>1. <<x>> \in Seq(Int) /\ Len(<<x>>) = 1 /\ <<x>>[1] = x
      BY <1>5
    <3>. QED
      BY <3>1
  <2>2. 1 \in Nat /\ p = a \o y /\ 1 \in 1 .. 1
    BY <1>6, <2>1
  <2>3. ConcatIs(p, a, y, n, 1)
    BY ONLY n \in Nat, <1>2, <2>1, <2>2, Concatenated
  <2>. QED
    BY <1>2, <2>1, <2>2, <2>3, Zenon DEF ConcatIs
<1>8. PICK q : q = p \o d
  OBVIOUS
<1>9. /\ q \in Seq(Int) /\ Len(q) = n + 1 + z /\ q[n + 1] = x /\ \A i \in 1 .. n : q[i] = i
      /\ \A i \in 1 .. z : q[n + 1 + i] = 0
  <2>1. PICK w \in Nat : w = n + 1
    OBVIOUS
  <2>2. Len(p) = w
    BY <1>7, <2>1
  <2>3. ConcatIs(q, p, d, w, z)
    BY ONLY z \in Nat, w \in Nat, <1>4, <1>7, <1>8, <2>2, Concatenated
  <2>4. w \in 1 .. w /\ \A i \in 1 .. n : i \in 1 .. w
    BY <2>1
  <2>. QED
    BY <1>4, <1>7, <2>1, <2>3, <2>4, Zenon DEF ConcatIs
<1>10. c = q \o field
  BY <1>1, <1>3, <1>5, <1>6, <1>8, Zenon DEF Padded
<1>11. PICK w \in Nat : w = n + 1 + z
  OBVIOUS
<1>12. Len(q) = w
  BY <1>9, <1>11
<1>13. ConcatIs(c, q, field, w, e)
  BY ONLY field \in Seq(Int), e \in Nat, Len(field) = e, w \in Nat, <1>9, <1>10, <1>12, Concatenated
<1>14. n + 1 \in 1 .. w /\ (\A i \in 1 .. n : i \in 1 .. w) /\ \A i \in 1 .. z : n + 1 + i \in 1 .. w
  BY <1>11
<1>. QED
  BY <1>5, <1>9, <1>11, <1>13, <1>14, Zenon DEF ConcatIs, MessageIs

LEMMA PaddedBuffer ==
    ASSUME NEW k \in Nat, NEW f \in [1 .. k -> Int], NEW h \in Nat, NEW z \in Nat, NEW e \in Nat,
           NEW field \in Seq(Int), Len(field) = e, h + 1 + z + e <= k, NEW g,
           g = Filled(f, h, z, field)
    PROVE  BufferIs(g, k, f, h, z, e, field)
<1>1. PICK x : x = M!Marker /\ x \in Int
  BY DEF M!Marker
<1>2. PICK d : d = <<x>> \o M!Zeros(z)
  OBVIOUS
<1>3. d \in Seq(Int) /\ Len(d) = 1 + z /\ d[1] = x /\ \A i \in 1 .. z : d[1 + i] = 0
  BY <1>1, <1>2 DEF M!Zeros
<1>4. PICK a : a = M!memcpy(f, h, d)
  OBVIOUS
<1>5. a \in [1 .. k -> Int]
  BY <1>3, <1>4, CopyTyped
<1>6. \A i \in 1 .. k : a[i] = IF i \in h + 1 .. h + Len(d) THEN d[i - h] ELSE f[i]
  BY <1>4 DEF M!memcpy
<1>7. PICK o \in Nat : o = h + (1 + z)
  OBVIOUS
<1>8. g = M!memcpy(a, o, field)
  BY <1>1, <1>2, <1>4, <1>7, Zenon DEF Filled
<1>9. g \in [1 .. k -> Int]
  BY ONLY k \in Nat, o \in Nat, field \in Seq(Int), <1>5, <1>8, CopyTyped
<1>10. \A i \in 1 .. k : g[i] = IF i \in o + 1 .. o + Len(field) THEN field[i - o] ELSE a[i]
  BY <1>5, <1>8 DEF M!memcpy
<1>11. ASSUME NEW i \in 1 .. h PROVE g[i] = f[i]
  <2>1. i \in 1 .. k /\ i \notin o + 1 .. o + Len(field) /\ i \notin h + 1 .. h + Len(d)
    BY <1>7
  <2>. QED
    BY <1>6, <1>10, <2>1, Zenon
<1>12. g[h + 1] = x
  <2>1. PICK j : j = h + 1
    OBVIOUS
  <2>2. j \in 1 .. k /\ j - h = 1 /\ j \notin o + 1 .. o + Len(field) /\ j \in h + 1 .. h + Len(d)
    BY <1>3, <1>7, <2>1
  <2>3. g[j] = a[j] /\ a[j] = d[j - h]
    BY <1>6, <1>10, <2>2, Zenon
  <2>. QED
    BY <1>3, <2>1, <2>2, <2>3, Zenon
<1>13. ASSUME NEW i \in 1 .. z PROVE g[h + 1 + i] = 0
  <2>1. PICK j : j = h + 1 + i
    OBVIOUS
  <2>2. j \in 1 .. k /\ j - h = 1 + i /\ j \notin o + 1 .. o + Len(field) /\ j \in h + 1 .. h + Len(d)
    BY <1>3, <1>7, <2>1
  <2>. QED
    BY <1>3, <1>6, <1>10, <2>1, <2>2, Zenon
<1>14. ASSUME NEW i \in 1 .. e PROVE g[h + 1 + z + i] = field[i]
  <2>1. PICK j : j = h + 1 + z + i
    OBVIOUS
  <2>2. j \in 1 .. k /\ j - o = i /\ j \in o + 1 .. o + Len(field)
    BY <1>7, <2>1
  <2>. QED
    BY <1>10, <2>1, <2>2, Zenon
<1>. QED
  BY <1>1, <1>9, <1>11, <1>12, <1>13, <1>14, Zenon DEF BufferIs

(* Behind the whole blocks the buffer is the end of the padded message.    *)
EndIs(g, c, k, h, z, e, l, n) ==
    /\ g \in [1 .. k -> Int] /\ c \in Seq(Int) /\ Len(c) = n + 1 + z + e
    /\ \A i \in 1 .. n : c[i] = i
    /\ \A i \in 1 .. h + 1 + z + e : g[i] = c[l + i]

LEMMA EndOfMessage ==
    ASSUME NEW k \in Nat, NEW f \in [1 .. k -> Int], NEW h \in Nat, NEW z \in Nat, NEW e \in Nat,
           NEW field \in Seq(Int), Len(field) = e, h + 1 + z + e <= k, NEW g,
           g = Filled(f, h, z, field),
           NEW l \in Nat, NEW n, n = l + h, \A i \in 1 .. h : f[i] = l + i, NEW c,
           c = Padded(n, z, field)
    PROVE  EndIs(g, c, k, h, z, e, l, n)
<1>1. /\ g \in [1 .. k -> Int]
      /\ \A i \in 1 .. h : g[i] = f[i]
      /\ g[h + 1] = M!Marker
      /\ \A i \in 1 .. z : g[h + 1 + i] = 0
      /\ \A i \in 1 .. e : g[h + 1 + z + i] = field[i]
  <2>1. BufferIs(g, k, f, h, z, e, field)
    BY PaddedBuffer
  <2>. QED
    BY <2>1, Zenon DEF BufferIs
<1>2. /\ c \in Seq(Int) /\ Len(c) = n + 1 + z + e
      /\ \A i \in 1 .. n : c[i] = i
      /\ c[n + 1] = M!Marker
      /\ \A i \in 1 .. z : c[n + 1 + i] = 0
      /\ \A i \in 1 .. e : c[n + 1 + z + i] = field[i]
  <2>1. n \in Nat
    OBVIOUS
  <2>2. MessageIs(c, n, z, e, field)
    BY ONLY z \in Nat, e \in Nat, field \in Seq(Int), Len(field) = e, c = Padded(n, z, field), <2>1, PaddedMessage
  <2>. QED
    BY <2>2, Zenon DEF MessageIs
<1>3. ASSUME NEW i \in 1 .. h + 1 + z + e PROVE g[i] = c[l + i]
  <2>1. CASE i \in 1 .. h
    <3>1. l + i \in 1 .. n
      BY <2>1
    <3>. QED
      BY <1>1, <1>2, <2>1, <3>1
  <2>2. CASE i = h + 1
    <3>1. l + i = n + 1
      BY <2>2
    <3>. QED
      BY <1>1, <1>2, <2>2, <3>1, Zenon
  <2>3. CASE i \in h + 2 .. h + 1 + z
    <3>1. PICK j \in 1 .. z : i = h + 1 + j /\ l + i = n + 1 + j
      <4>1. i - h - 1 \in 1 .. z /\ i = h + 1 + (i - h - 1) /\ l + i = n + 1 + (i - h - 1)
        BY <2>3
      <4>. QED
        BY <4>1
    <3>. QED
      BY <1>1, <1>2, <3>1, Zenon
  <2>4. CASE i > h + 1 + z
    <3>1. PICK j \in 1 .. e : i = h + 1 + z + j /\ l + i = n + 1 + z + j
      <4>1. i - h - 1 - z \in 1 .. e /\ i = h + 1 + z + (i - h - 1 - z) /\ l + i = n + 1 + z + (i - h - 1 - z)
        BY <2>4
      <4>. QED
        BY <4>1
    <3>. QED
      BY <1>1, <1>2, <3>1, Zenon
  <2>. QED
    BY ONLY h \in Nat, z \in Nat, e \in Nat, i \in 1 .. h + 1 + z + e, <2>1, <2>2, <2>3, <2>4
<1>. QED
  BY <1>1, <1>2, <1>3, Zenon DEF EndIs

(* Division at the end of the padded message: the zeros are those RFC 1321 *)
(* prescribes.                                                             *)
Fills(n, z, e, t, k) == n + 1 + z + e = t * k

LEMMA ZerosAre ==
    ASSUME NEW k \in Nat \ {0}, NEW z \in 0 .. k - 1, NEW n \in Nat, NEW e \in Nat,
           NEW t \in Nat, Fills(n, z, e, t, k)
    PROVE  (CHOOSE y \in 0 .. k - 1 : (n + 1 + y + e) % k = 0) = z
<1>1. PICK d \in Nat : d = n + 1 + z + e
  OBVIOUS
<1>2. d % k = 0
  <2>1. d = t * k + 0 /\ 0 \in 0 .. k - 1 /\ t \in Int
    <3>1. t * k \in Int
      OBVIOUS
    <3>. QED
      BY <1>1, <3>1 DEF Fills
  <2>. QED
    BY ONLY k \in Nat \ {0}, <2>1, QuotientIs
<1>3. ASSUME NEW y \in 0 .. k - 1, (n + 1 + y + e) % k = 0 PROVE y = z
  <2>1. PICK c \in Nat : c = n + 1 + y + e
    OBVIOUS
  <2>2. PICK i \in Int : c = i * k + 0
    <3>1. PICK i : i = c \div k
      OBVIOUS
    <3>2. i \in Int /\ c = i * k + (c % k)
      BY <2>1, <3>1, DivMod
    <3>. QED
      BY <1>3, <2>1, <3>2, Zenon
  <2>3. d - c = z - y /\ d - c < k /\ c - d < k
    BY <1>1, <2>1
  <2>4. i * k \in Int /\ t * k \in Int /\ c = i * k /\ d = t * k /\ (i + 1) * k = i * k + k /\ (t + 1) * k = t * k + k
    BY <1>1, <2>2 DEF Fills
  <2>5. CASE i < t
    <3>1. (i + 1) * k <= t * k
      BY <2>5, MulMono
    <3>. QED
      BY <2>3, <2>4, <3>1
  <2>6. CASE i > t
    <3>1. (t + 1) * k <= i * k
      BY <2>6, MulMono
    <3>. QED
      BY <2>3, <2>4, <3>1
  <2>7. CASE i = t
    BY <2>3, <2>4, <2>7
  <2>. QED
    BY <2>5, <2>6, <2>7
<1>. QED
  BY <1>1, <1>2, <1>3

(* The blocks of the message, behind them those of the buffer.             *)
BlocksOf(c, k, t) == [i \in 1 .. t |-> SubSeq(c, (i - 1) * k + 1, i * k)]

LEMMA WholeBlocks ==
    ASSUME k_block_size \in Nat, NEW l \in Nat, NEW b \in Seq(Seq(Int)), Cut(l, b), NEW n \in Nat, l <= n,
           NEW c \in Seq(Int), n <= Len(c), \A i \in 1 .. n : c[i] = i
    PROVE  b = BlocksOf(c, k_block_size, Len(b))
<1>1. PICK q \in Nat, k \in Nat : q = Len(b) /\ k = k_block_size
  OBVIOUS
<1>2. l = q * k /\ \A i \in 1 .. q : b[i] = M!Message((i - 1) * k + 1, i * k)
  <2>1. DOMAIN b = 1 .. q
    BY <1>1
  <2>. QED
    BY <1>1, <2>1, Zenon DEF Cut
<1>3. ASSUME NEW i \in 1 .. q PROVE b[i] = SubSeq(c, (i - 1) * k + 1, i * k)
  <2>1. PICK x, y : x = (i - 1) * k /\ y = i * k
    OBVIOUS
  <2>2. x \in Nat /\ y = x + k
    <3>1. i - 1 \in Nat
      OBVIOUS
    <3>. QED
      BY <2>1, <3>1
  <2>3. y <= l
    BY <1>2, <2>1, MulMono
  <2>4. SubSeq(c, x + 1, y) = M!Message(x + 1, y)
    BY <2>2, <2>3 DEF M!Message
  <2>. QED
    BY <1>2, <2>1, <2>4, Zenon
<1>4. b = [i \in 1 .. q |-> b[i]]
  BY <1>1
<1>. QED
  BY <1>1, <1>3, <1>4, Zenon DEF BlocksOf

BlockOf(c, k, t) == SubSeq(c, t * k + 1, (t + 1) * k)

LEMMA OneMoreBlock ==
    ASSUME NEW k \in Nat, NEW t \in Nat, NEW c, NEW b \in Seq(Seq(Int)), b = BlocksOf(c, k, t), NEW s \in Seq(Int),
           s = BlockOf(c, k, t)
    PROVE  Append(b, s) = BlocksOf(c, k, t + 1)
<1>1. Len(b) = t
  <2>1. DOMAIN b = 1 .. t
    BY Zenon DEF BlocksOf
  <2>. QED
    BY <2>1
<1>2. PICK a : a = Append(b, s)
  OBVIOUS
<1>3. a = [i \in 1 .. t + 1 |-> a[i]] /\ a[t + 1] = s /\ \A i \in 1 .. t : a[i] = b[i]
  <2>1. Len(a) = t + 1 /\ a[t + 1] = s /\ \A i \in 1 .. t : a[i] = b[i]
    BY ONLY b \in Seq(Seq(Int)), s \in Seq(Int), t \in Nat, <1>1, <1>2
  <2>2. a \in Seq(Seq(Int))
    BY ONLY b \in Seq(Seq(Int)), s \in Seq(Int), <1>2
  <2>3. a = [i \in 1 .. t + 1 |-> a[i]]
    BY ONLY <2>1, <2>2
  <2>. QED
    BY <2>1, <2>3
<1>4. ASSUME NEW i \in 1 .. t + 1 PROVE a[i] = SubSeq(c, (i - 1) * k + 1, i * k)
  <2>1. CASE i = t + 1
    <3>1. i - 1 = t
      BY <2>1
    <3>. QED
      BY <1>3, <2>1, <3>1, Zenon DEF BlockOf
  <2>2. CASE i \in 1 .. t
    BY <1>3, <2>2, Zenon DEF BlocksOf
  <2>3. i = t + 1 \/ i \in 1 .. t
    OBVIOUS
  <2>. QED
    BY <2>1, <2>2, <2>3
<1>. QED
  BY <1>2, <1>3, <1>4, Zenon DEF BlocksOf

LEMMA SameParts ==
    ASSUME NEW k \in Nat, NEW j \in Nat, NEW g \in [1 .. j -> Int], NEW m \in Nat, m <= j, NEW l \in Nat,
           NEW c \in Seq(Int), Len(c) = l + m, \A i \in 1 .. m : g[i] = c[l + i], NEW x \in Nat, x + k <= m
    PROVE  SubSeq(g, x + 1, x + k) = SubSeq(c, l + x + 1, l + x + k) /\ SubSeq(g, x + 1, x + k) \in Seq(Int)
<1>1. g \in Seq(Int) /\ Len(g) = j
  OBVIOUS
<1>2. PICK s : s = SubSeq(g, x + 1, x + k)
  OBVIOUS
<1>3. s = [i \in 1 .. k |-> g[x + i]]
  <2>1. x + k - (x + 1) + 1 = k /\ \A i \in 1 .. k : i + (x + 1) - 1 = x + i
    OBVIOUS
  <2>. QED
    BY <1>1, <1>2, <2>1
<1>4. PICK u : u = SubSeq(c, l + x + 1, l + x + k)
  OBVIOUS
<1>5. u = [i \in 1 .. k |-> c[l + x + i]]
  BY <1>4
<1>6. ASSUME NEW i \in 1 .. k PROVE g[x + i] = c[l + x + i] /\ g[x + i] \in Int
  <2>1. PICK y \in 1 .. m : y = x + i /\ l + y = l + x + i
    OBVIOUS
  <2>. QED
    BY <2>1
<1>. QED
  BY <1>2, <1>3, <1>4, <1>5, <1>6

Padding(m, g, i, j) == [m EXCEPT !.buffer = g, !.head = i, !.length = j]

LEMMA Pads ==
    ASSUME NEW f, NEW h, NEW l, NEW b, NEW g, NEW i, NEW j
    PROVE  Padding(Digest(f, h, l, b), g, i, j) = Digest(g, i, j, b)
<1>1. PICK x : x = [[buffer |-> f, head |-> h, length |-> l, blocks |-> b] EXCEPT !.buffer = g]
  OBVIOUS
<1>2. x = [buffer |-> g, head |-> h, length |-> l, blocks |-> b]
  BY ONLY <1>1
<1>3. PICK y : y = [[buffer |-> g, head |-> h, length |-> l, blocks |-> b] EXCEPT !.head = i]
  OBVIOUS
<1>4. y = [buffer |-> g, head |-> i, length |-> l, blocks |-> b]
  BY ONLY <1>3
<1>5. PICK z : z = [[buffer |-> g, head |-> i, length |-> l, blocks |-> b] EXCEPT !.length = j]
  OBVIOUS
<1>6. z = [buffer |-> g, head |-> i, length |-> j, blocks |-> b]
  BY ONLY <1>5
<1>. QED
  BY <1>1, <1>2, <1>3, <1>4, <1>5, <1>6, Zenon DEF Digest, Padding

(* The end of the message, with its padding and its length.                *)
LEMMA FinishTakes ==
    ASSUME M!Md5Assumption, fed \in Nat, M!Taken(md5, fed), M!Finish
    PROVE  DigestOfMessage'
<1>1. PICK f, h, l, b : Parts(md5, fed, f, h, l, b) /\ Cut(l, b)
  BY TakenParts, Zenon
<1>2. /\ md5 = Digest(f, h, l, b) /\ h \in Nat /\ h < k_block_size /\ l \in Nat /\ fed = l + h
      /\ b \in Seq(Seq(Int)) /\ f \in [1 .. 2 * k_block_size -> Int]
      /\ \A i \in 1 .. h : f[i] = l + i
  BY <1>1 DEF Parts
<1>3. md5.buffer = f /\ md5.head = h /\ md5.length = l /\ md5.blocks = b
  BY ONLY <1>2, DigestFields
<1>4. PICK k \in Nat \ {0}, e \in Nat \ {0} : k = k_block_size /\ e = LengthSize /\ e < k /\ h < k
  BY <1>2 DEF M!Md5Assumption
<1>5. PICK n \in Nat : n = fed
  OBVIOUS
<1>6. PICK room, pad : room = k - e - h /\ pad = IF room <= 0 THEN room + k ELSE room
  OBVIOUS
<1>7. PICK z, t : /\ z = pad - 1 /\ z \in 0 .. k - 1 /\ z \in Nat /\ pad = 1 + z
                  /\ t \in {1, 2} /\ h + 1 + z + e = t * k /\ h + 1 + z + e <= 2 * k /\ h + pad + e = t * k
  <2>1. CASE room <= 0
    <3>1. /\ pad - 1 \in 0 .. k - 1 /\ pad - 1 \in Nat /\ pad = 1 + (pad - 1) /\ h + 1 + (pad - 1) + e = 2 * k
          /\ h + 1 + (pad - 1) + e <= 2 * k /\ h + pad + e = 2 * k
      BY ONLY <1>2, <1>4, <1>6, <2>1
    <3>. QED
      BY <3>1
  <2>2. CASE ~(room <= 0)
    <3>1. /\ pad - 1 \in 0 .. k - 1 /\ pad - 1 \in Nat /\ pad = 1 + (pad - 1) /\ h + 1 + (pad - 1) + e = 1 * k
          /\ h + 1 + (pad - 1) + e <= 2 * k /\ h + pad + e = 1 * k
      BY ONLY <1>2, <1>4, <1>6, <2>2
    <3>. QED
      BY <3>1
  <2>. QED
    BY <2>1, <2>2
<1>8. PICK field : field = M!LengthField(n)
  OBVIOUS
<1>9. field \in Seq(Int) /\ Len(field) = e
  BY ONLY <1>4, <1>5, <1>8 DEF M!LengthField
<1>10. PICK g, c : g = Filled(f, h, z, field) /\ c = Padded(n, z, field)
  OBVIOUS
<1>11. PICK j \in Nat, m \in Nat : j = 2 * k /\ m = h + 1 + z + e /\ m <= j /\ f \in [1 .. j -> Int]
  <2>1. h + 1 + z + e \in Nat /\ 2 * k \in Nat
    BY ONLY <1>2, <1>4, <1>7
  <2>. QED
    BY <1>2, <1>4, <1>7, <2>1, Zenon
<1>12. /\ g \in [1 .. j -> Int] /\ c \in Seq(Int) /\ Len(c) = l + m
       /\ \A i \in 1 .. n : c[i] = i
       /\ \A i \in 1 .. m : g[i] = c[l + i]
  <2>1. n = l + h
    BY <1>2, <1>5
  <2>2. /\ g \in [1 .. j -> Int] /\ c \in Seq(Int) /\ Len(c) = n + 1 + z + e
        /\ \A i \in 1 .. n : c[i] = i
        /\ \A i \in 1 .. h + 1 + z + e : g[i] = c[l + i]
    <3>1. EndIs(g, c, j, h, z, e, l, n)
      <4>1. h + 1 + z + e <= j /\ e \in Nat
        BY <1>11
      <4>. QED
        BY ONLY <1>2, <1>7, <1>9, <1>10, <1>11, <2>1, <4>1, EndOfMessage
    <3>. QED
      BY <3>1, Zenon DEF EndIs
  <2>3. n + 1 + z + e = l + m
    BY ONLY <1>2, <1>4, <1>7, <1>11, <2>1
  <2>. QED
    BY <1>11, <2>2, <2>3, Zenon
<1>13. PICK padded : padded = Digest(g, t * k, n, b)
  OBVIOUS
<1>14. PICK first : first = M!process_block(padded, 0)
  OBVIOUS
<1>15. md5' = IF t = 2 THEN M!process_block(first, 1) ELSE first
  <2>1. padded = [md5 EXCEPT
            !.buffer = M!memcpy(M!memcpy(@, md5.head, <<M!Marker>> \o M!Zeros(pad - 1)), md5.head + pad, M!LengthField(md5.length + md5.head)),
            !.head = @ + pad + LengthSize, !.length = md5.length + md5.head]
    <3>1. PICK u : u = h + pad + e /\ u = t * k
      BY <1>7, Zenon
    <3>2. padded = [Digest(f, h, l, b) EXCEPT !.buffer = g, !.head = u, !.length = n]
      <4>1. Padding(Digest(f, h, l, b), g, u, n) = Digest(g, u, n, b)
        BY ONLY Pads
      <4>. QED
        BY <1>13, <3>1, <4>1, Zenon DEF Padding
    <3>3. g = M!memcpy(M!memcpy(md5.buffer, md5.head, <<M!Marker>> \o M!Zeros(pad - 1)), md5.head + pad, M!LengthField(md5.length + md5.head))
      BY <1>2, <1>3, <1>5, <1>7, <1>8, <1>10, Zenon DEF Filled
    <3>4. u = md5.head + pad + LengthSize /\ n = md5.length + md5.head
      BY <1>2, <1>3, <1>4, <1>5, <3>1, Zenon
    <3>. QED
      BY <1>2, <3>2, <3>3, <3>4, Zenon
  <2>2. padded.head \div k_block_size = t
    <3>1. padded.head = t * k
      BY ONLY <1>13, DigestFields
    <3>2. t \in Int /\ 0 \in 0 .. k - 1 /\ t * k = t * k + 0
      BY <1>7
    <3>3. (t * k) \div k = t
      BY ONLY k \in Nat \ {0}, <3>2, QuotientIs
    <3>. QED
      BY <1>4, <3>1, <3>3, Zenon
  <2>. QED
    BY <1>3, <1>4, <1>6, <1>14, <2>1, <2>2, Zenon DEF M!Finish
<1>16. fed' = n /\ finished'
  BY <1>5 DEF M!Finish
<1>17. PICK s1, s2 : s1 = SubSeq(g, 0 * k + 1, (0 + 1) * k) /\ s2 = SubSeq(g, 1 * k + 1, (1 + 1) * k)
  OBVIOUS
<1>18. first = Digest(g, 0, n + k, Append(b, s1))
  <2>1. M!process_block(Digest(g, t * k, n, b), 0)
        = Digest(g, 0, n + k_block_size, Append(b, SubSeq(g, 0 * k_block_size + 1, (0 + 1) * k_block_size)))
    BY ONLY Processes
  <2>. QED
    BY <1>4, <1>13, <1>14, <1>17, <2>1, Zenon
<1>19. M!process_block(first, 1) = Digest(g, 0, n + k + k, Append(Append(b, s1), s2))
  <2>1. PICK v, w : v = n + k /\ w = Append(b, s1)
    OBVIOUS
  <2>2. M!process_block(Digest(g, 0, v, w), 1)
        = Digest(g, 0, v + k_block_size, Append(w, SubSeq(g, 1 * k_block_size + 1, (1 + 1) * k_block_size)))
    BY ONLY Processes
  <2>. QED
    BY <1>4, <1>17, <1>18, <2>1, <2>2, Zenon
<1>20. PICK q \in Nat : q = Len(b)
  BY <1>2
<1>21. PICK o \in Nat : o = q * k /\ o = l
  BY <1>1, <1>2, <1>4, <1>20, Zenon DEF Cut
<1>22. Len(c) = (q + t) * k
  <2>1. (q + 1) * k = o + k /\ (q + 2) * k = o + 2 * k
    BY ONLY <1>20, <1>21, <1>4
  <2>2. Len(c) = l + t * k
    BY <1>7, <1>11, <1>12, Zenon
  <2>3. 1 * k = k
    OBVIOUS
  <2>. QED
    BY <1>7, <1>21, <2>1, <2>2, <2>3
<1>23. Len(c) \div k = q + t
  <2>1. PICK i \in Int : i = q + t
    BY <1>7
  <2>2. PICK d : d = Len(c)
    OBVIOUS
  <2>3. d = i * k + 0 /\ 0 \in 0 .. k - 1
    BY <1>22, <2>1, <2>2
  <2>4. d \div k = i
    BY ONLY k \in Nat \ {0}, i \in Int, <2>3, QuotientIs
  <2>. QED
    BY <2>1, <2>2, <2>4, Zenon
<1>24. M!Rfc1321(n) = c
  <2>1. PICK d \in Nat : d = q + t
    BY <1>7
  <2>2. Fills(n, z, e, d, k)
    <3>1. n + 1 + z + e = l + m
      BY <1>2, <1>5, <1>7, <1>11
    <3>. QED
      BY <1>12, <1>22, <2>1, <3>1, Zenon DEF Fills
  <2>3. (CHOOSE y \in 0 .. k - 1 : (n + 1 + y + e) % k = 0) = z
    BY ONLY <1>7, e \in Nat \ {0}, k \in Nat \ {0}, n \in Nat, d \in Nat, <2>2, ZerosAre
  <2>. QED
    BY <1>4, <1>8, <1>10, <2>3, Zenon DEF M!Rfc1321, Padded
<1>25. b = BlocksOf(c, k, q)
  <2>1. l <= n /\ n <= Len(c)
    BY ONLY <1>2, <1>4, <1>5, <1>7, <1>11, <1>12
  <2>2. k_block_size \in Nat
    BY <1>4
  <2>3. b = BlocksOf(c, k_block_size, Len(b))
    BY ONLY n \in Nat, <1>1, <1>2, <1>12, <2>1, <2>2, WholeBlocks
  <2>. QED
    BY <1>4, <1>20, <2>3, Zenon
<1>26. s1 \in Seq(Int) /\ s1 = BlockOf(c, k, q)
  <2>1. 0 * k + 1 = 0 + 1 /\ (0 + 1) * k = 0 + k /\ l + 0 + 1 = o + 1 /\ l + 0 + k = o + k /\ (q + 1) * k = o + k
    BY <1>21
  <2>2. 0 + k <= m /\ 0 \in Nat
    <3>1. 1 * k = k
      OBVIOUS
    <3>. QED
      BY <1>7, <1>11, <3>1
  <2>3. SubSeq(g, 0 + 1, 0 + k) = SubSeq(c, l + 0 + 1, l + 0 + k) /\ SubSeq(g, 0 + 1, 0 + k) \in Seq(Int)
    BY <1>2, <1>11, <1>12, <2>2, SameParts, Zenon
  <2>. QED
    BY <1>17, <1>21, <2>1, <2>3, Zenon DEF BlockOf
<1>27. CASE t = 1
  <2>1. md5' = first
    BY <1>15, <1>27
  <2>2. md5'.blocks = Append(b, s1)
    <3>1. PICK v, w, x : v = n + k /\ w = Append(b, s1) /\ x = Digest(g, 0, v, w)
      OBVIOUS
    <3>2. x.blocks = w
      <4>1. x = Digest(g, 0, v, w)
        BY <3>1
      <4>2. x.buffer = g /\ x.head = 0 /\ x.length = v /\ x.blocks = w
        BY ONLY <4>1, DigestFields
      <4>. QED
        BY <4>2
    <3>. QED
      BY <1>18, <2>1, <3>1, <3>2, Zenon
  <2>3. Append(b, s1) = BlocksOf(c, k, q + 1)
    <3>1. PICK a : a = Append(b, s1)
      OBVIOUS
    <3>2. a = BlocksOf(c, k, q + 1)
      BY ONLY <1>2, k \in Nat \ {0}, q \in Nat, <1>25, <1>26, <3>1, OneMoreBlock
    <3>. QED
      BY <3>1, <3>2, Zenon
  <2>. QED
    BY <1>4, <1>16, <1>23, <1>24, <1>27, <2>2, <2>3, Zenon DEF DigestOfMessage, M!DigestOfMessage, BlocksOf
<1>28. CASE t = 2
  <2>1. PICK d \in Nat : d = q + 1
    OBVIOUS
  <2>2. d + 1 = q + t /\ d * k = o + k /\ (d + 1) * k = o + k + k
    BY <1>21, <1>28, <2>1
  <2>3. s2 \in Seq(Int) /\ s2 = BlockOf(c, k, d)
    <3>1. 1 * k + 1 = k + 1 /\ (1 + 1) * k = k + k /\ l + k + 1 = o + k + 1 /\ l + k + k = o + k + k
      BY <1>21
    <3>2. k + k <= m
      <4>1. 2 * k = k + k
        OBVIOUS
      <4>. QED
        BY <1>11, <1>7, <1>28, <4>1
    <3>3. SubSeq(g, k + 1, k + k) = SubSeq(c, l + k + 1, l + k + k) /\ SubSeq(g, k + 1, k + k) \in Seq(Int)
      <4>1. k \in Nat
        OBVIOUS
      <4>. QED
        BY <1>2, <1>11, <1>12, <3>2, <4>1, SameParts, Zenon
    <3>. QED
      BY <1>17, <1>21, <2>2, <3>1, <3>3, Zenon DEF BlockOf
  <2>4. PICK a : a = Append(b, s1)
    OBVIOUS
  <2>5. a = BlocksOf(c, k, d) /\ a \in Seq(Seq(Int))
    <3>1. a = BlocksOf(c, k, q + 1)
      BY ONLY <1>2, k \in Nat \ {0}, q \in Nat, <1>25, <1>26, <2>4, OneMoreBlock
    <3>2. a \in Seq(Seq(Int))
      BY ONLY <1>2, <1>26, <2>4
    <3>. QED
      BY <2>1, <3>1, <3>2, Zenon
  <2>6. Append(a, s2) = BlocksOf(c, k, d + 1)
    BY ONLY k \in Nat \ {0}, d \in Nat, <2>3, <2>5, OneMoreBlock
  <2>7. md5'.blocks = Append(a, s2)
    <3>1. PICK v, w, x : v = n + k + k /\ w = Append(a, s2) /\ x = Digest(g, 0, v, w)
      OBVIOUS
    <3>2. x.blocks = w
      <4>1. x = Digest(g, 0, v, w)
        BY <3>1
      <4>2. x.buffer = g /\ x.head = 0 /\ x.length = v /\ x.blocks = w
        BY ONLY <4>1, DigestFields
      <4>. QED
        BY <4>2
    <3>. QED
      BY <1>15, <1>19, <1>28, <2>4, <3>1, <3>2, Zenon
  <2>. QED
    BY <1>4, <1>16, <1>23, <1>24, <2>2, <2>6, <2>7, Zenon DEF DigestOfMessage, M!DigestOfMessage, BlocksOf
<1>. QED
  BY <1>7, <1>27, <1>28

(* The digest is that of the whole message, in whatever pieces it came     *)
(* (md5.cpp): Md5!Inv is inductive; a piece keeps it block by block, and    *)
(* the end of the message has the zeros RFC 1321 prescribes.               *)
THEOREM DigestOfMessageHolds == M!Spec => []DigestOfMessage
<1>. USE DigestAssumption
<1>1. M!Init => M!Inv
  <2>. SUFFICES ASSUME M!Init PROVE M!Inv
    OBVIOUS
  <2>1. PICK f : f = [i \in 1 .. 2 * k_block_size |-> 0]
    OBVIOUS
  <2>2. k_block_size \in Nat /\ k_block_size > 0
    BY DEF M!Md5Assumption
  <2>3. /\ f \in [1 .. 2 * k_block_size -> Int] /\ 0 \in Nat /\ <<>> \in Seq(Seq(Int)) /\ 0 = 0 + 0
        /\ (\A i \in 1 .. 0 : f[i] = 0 + i) /\ 0 < k_block_size
    BY <2>1, <2>2
  <2>4. md5 = Digest(f, 0, 0, <<>>) /\ fed = 0 /\ finished = FALSE
    BY <2>1, Zenon DEF M!Init, Digest
  <2>5. Parts(md5, 0, f, 0, 0, <<>>)
    BY <2>3, <2>4, Zenon DEF Parts
  <2>6. Cut(0, <<>>)
    <3>1. 0 = 0 * k_block_size
      BY <2>2
    <3>2. Len(<<>>) = 0 /\ DOMAIN <<>> = {}
      OBVIOUS
    <3>. QED
      BY <3>1, <3>2, Zenon DEF Cut
  <2>7. M!Taken(md5, 0)
    BY <2>5, <2>6, PartsTaken, Zenon
  <2>. QED
    BY <2>3, <2>4, <2>7, Zenon DEF M!Inv, M!DigestOfMessage
<1>2. M!Inv /\ [M!Next]_md5_vars => M!Inv'
  <2>. SUFFICES ASSUME M!Inv, [M!Next]_md5_vars PROVE M!Inv'
    OBVIOUS
  <2>1. fed \in Nat /\ finished \in BOOLEAN /\ (~finished => M!Taken(md5, fed)) /\ DigestOfMessage
    BY DEF M!Inv, DigestOfMessage
  <2>2. CASE M!Process
    <3>1. PICK n \in Pieces : /\ ~finished /\ md5' = M!process(md5, M!Message(fed + 1, fed + n))
                              /\ fed' = fed + n /\ finished' = finished
      BY <2>2, Zenon DEF M!Process
    <3>2. n \in Nat /\ fed' \in Nat
      BY <2>1, <3>1 DEF M!Md5Assumption
    <3>3. M!Taken(md5', fed')
      BY <2>1, <3>1, <3>2, ProcessTakes, Zenon
    <3>. QED
      BY <2>1, <3>1, <3>2, <3>3, Zenon DEF M!Inv, M!Taken, M!Digests, M!DigestOfMessage
  <2>3. CASE M!Finish
    <3>1. ~finished /\ finished' = TRUE /\ fed' = fed
      BY <2>3, Zenon DEF M!Finish
    <3>2. DigestOfMessage'
      BY <2>1, <2>3, <3>1, FinishTakes
    <3>. QED
      BY <2>1, <3>1, <3>2, Zenon DEF M!Inv, DigestOfMessage
  <2>4. CASE UNCHANGED md5_vars
    BY <2>1, <2>4 DEF M!Inv, md5_vars, DigestOfMessage, M!DigestOfMessage
  <2>. QED
    BY <2>2, <2>3, <2>4 DEF M!Next
<1>3. M!Inv => DigestOfMessage
  BY DEF M!Inv, DigestOfMessage
<1>. QED
  BY <1>1, <1>2, <1>3, PTL DEF M!Spec, M!vars, md5_vars
=============================================================================
