---------------------------- MODULE ReloadProofs ----------------------------
(***************************************************************************)
(* Proofs about Reload, for every set of loader threads and of files: type *)
(* correctness, ReloadInstallsFile, what is left of the broken promises    *)
(* when reloads do not overlap, and that Reload implements HotReload.      *)
(***************************************************************************)
EXTENDS Reload, MapperProofs, SequenceTheorems

\* The parsed file a loader works on is one that its step can handle.
RootInv ==
  \A t \in Loaders :
    /\ lpc[t] = "clear" => root[t] # Unreadable
    /\ lpc[t] \in {"clear", "push", "merge"} => root[t] \in Files
    /\ lpc[t] \in {"push", "merge"} => root[t] \in Seq(Blocks)

\* The exclusive lock is held exactly while its holder is inside init.
HolderInv == \A t \in Loaders : lpc[t] = "merge" <=> holder = t

\* Two reloads that overlap know it.
OverlapInv ==
  \A t, u \in Loaders : t # u /\ InWindow(t) /\ InWindow(u) => raced[t]

\* A reload that runs alone finds in the global vector what it put there,
\* and its init has built the table of the blocks it has passed.
AloneInv ==
  \A t \in Loaders : ~raced[t] =>
    /\ lpc[t] = "push" =>
         /\ Len(gdevs) = at[t]
         /\ at[t] <= Len(root[t])
         /\ \A i \in 1..at[t] : gdevs[i] = root[t][i]
    /\ lpc[t] = "merge" =>
         /\ gdevs = root[t]
         /\ at[t] <= Len(gdevs)
         /\ table = TableUpTo(gdevs, at[t])

ReloadInv ==
  /\ ReloadTypeOK
  /\ RootInv
  /\ HolderInv
  /\ OverlapInv
  /\ AloneInv
  /\ ReloadInstallsFile
-----------------------------------------------------------------------------

\* The files that load accepts are sequences of blocks.
LEMMA GoodFile ==
  ASSUME NEW f \in Files, f \notin {Unreadable, NoDevices, IllTyped}
  PROVE  f \in Seq(Blocks)
BY ReloadAssumption

LEMMA ReloadInvInit == ReloadInit => ReloadInv
<1> SUFFICES ASSUME ReloadInit PROVE ReloadInv
  OBVIOUS
<1>1. file \in Seq(Blocks)
  BY GoodFile DEF ReloadInit
<1>2. table \in Tables
  BY <1>1, TableOfType DEF ReloadInit
<1>3. ReloadTypeOK
  BY <1>1, <1>2 DEF ReloadInit, ReloadTypeOK
<1>4. RootInv /\ HolderInv /\ OverlapInv /\ AloneInv
  BY ReloadAssumption DEF ReloadInit, RootInv, HolderInv, OverlapInv, AloneInv, InWindow
<1> QED
  BY <1>3, <1>4 DEF ReloadInit, ReloadInv, ReloadInstallsFile

LEMMA FileChangeKeeps ==
  ASSUME ReloadInv, FileChange
  PROVE  ReloadInv'
<1> USE DEF ReloadInv
<1>1. ReloadTypeOK'
  BY DEF FileChange, ReloadTypeOK
<1>2. RootInv'
  BY DEF FileChange, ReloadTypeOK, RootInv
<1>3. HolderInv'
  BY DEF FileChange, ReloadTypeOK, HolderInv
<1>4. OverlapInv'
  BY DEF FileChange, ReloadTypeOK, OverlapInv, InWindow
<1>5. AloneInv'
  BY DEF FileChange, ReloadTypeOK, AloneInv
<1>6. ReloadInstallsFile'
  BY DEF FileChange, ReloadInstallsFile
<1> QED
  BY <1>1, <1>2, <1>3, <1>4, <1>5, <1>6

LEMMA StartReloadKeeps ==
  ASSUME ReloadInv, NEW t \in Loaders, StartReload(t)
  PROVE  ReloadInv'
<1> USE DEF ReloadInv
<1>1. ReloadTypeOK'
  BY DEF StartReload, ReloadTypeOK
<1>2. RootInv'
  BY DEF StartReload, ReloadTypeOK, RootInv
<1>3. HolderInv'
  BY DEF StartReload, ReloadTypeOK, HolderInv
<1>4. OverlapInv'
  BY DEF StartReload, ReloadTypeOK, OverlapInv, InWindow
<1>5. AloneInv'
  BY DEF StartReload, ReloadTypeOK, AloneInv
<1>6. ReloadInstallsFile'
  BY DEF StartReload, ReloadInstallsFile
<1> QED
  BY <1>1, <1>2, <1>3, <1>4, <1>5, <1>6

LEMMA LoadReadKeeps ==
  ASSUME ReloadInv, NEW t \in Loaders, LoadRead(t)
  PROVE  ReloadInv'
<1> USE DEF ReloadInv
<1>1. ReloadTypeOK'
  <2>1. Overlap(t) \in [Loaders -> BOOLEAN]
    BY Zenon DEF Overlap
  <2>2. raced' \in [Loaders -> BOOLEAN]
    BY <2>1 DEF LoadRead, Return, ReloadTypeOK
  <2>3. root' \in [Loaders -> Files \cup {NoFile}] /\ at' \in [Loaders -> Nat]
    <3>1. root' = [root EXCEPT ![t] = NoFile] \/ root' = [root EXCEPT ![t] = file]
      BY DEF LoadRead, Return
    <3>2. at' = at \/ at' = [at EXCEPT ![t] = 0]
      BY DEF LoadRead, Return
    <3>3. /\ root \in [Loaders -> Files \cup {NoFile}]
          /\ at \in [Loaders -> Nat]
          /\ file \in Files
      BY DEF ReloadTypeOK
    <3> QED BY <3>1, <3>2, <3>3
  <2>4. lpc' \in [Loaders -> {"idle", "open", "clear", "push", "merge"}]
    BY DEF LoadRead, Return, ReloadTypeOK
  <2> QED BY <2>2, <2>3, <2>4 DEF LoadRead, ReloadTypeOK
<1>2. RootInv'
  <2>1. CASE file = Unreadable
    BY <2>1 DEF LoadRead, Return, ReloadTypeOK, RootInv
  <2>2. CASE file # Unreadable
    BY <2>2 DEF LoadRead, Return, ReloadTypeOK, RootInv
  <2> QED BY <2>1, <2>2
<1>3. HolderInv'
  <2>1. holder' = holder /\ \A u \in Loaders : lpc'[u] = "merge" <=> lpc[u] = "merge"
    BY DEF LoadRead, Return, ReloadTypeOK
  <2> QED BY <2>1 DEF HolderInv
<1>4. OverlapInv'
  <2>1. CASE file = Unreadable
    BY <2>1, SMTT(30) DEF LoadRead, Return, ReloadTypeOK, OverlapInv, InWindow
  <2>2. CASE file # Unreadable
    <3>1. \A u \in Loaders : u # t => lpc'[u] = lpc[u]
      BY <2>2 DEF LoadRead, ReloadTypeOK
    <3>2. ASSUME NEW u \in Loaders, u # t, InWindow(u)
          PROVE  raced'[u] /\ raced'[t]
      BY <2>2, <3>2 DEF LoadRead, Overlap
    <3>3. \A u, v \in Loaders : u # v /\ u # t /\ v # t /\ InWindow(u) /\ InWindow(v) => raced'[u]
      BY <3>2
    <3> QED BY <3>1, <3>2, <3>3 DEF OverlapInv, InWindow
  <2> QED BY <2>1, <2>2
<1>5. AloneInv'
  <2>1. \A u \in Loaders : u # t /\ ~raced'[u] => ~raced[u]
    BY DEF LoadRead, Return, Overlap, ReloadTypeOK
  <2>2. \A u \in Loaders : u # t => lpc'[u] = lpc[u] /\ root'[u] = root[u] /\ at'[u] = at[u]
    BY DEF LoadRead, Return, ReloadTypeOK
  <2>3. lpc'[t] \in {"idle", "clear"} /\ gdevs' = gdevs /\ table' = table
    BY DEF LoadRead, Return, ReloadTypeOK
  <2> QED BY <2>1, <2>2, <2>3 DEF AloneInv
<1>6. ReloadInstallsFile'
  BY DEF LoadRead, ReloadInstallsFile
<1> QED
  BY <1>1, <1>2, <1>3, <1>4, <1>5, <1>6

LEMMA LoadClearKeeps ==
  ASSUME ReloadInv, NEW t \in Loaders, LoadClear(t)
  PROVE  ReloadInv'
<1> USE DEF ReloadInv
<1>1. ReloadTypeOK'
  <2>1. root' \in [Loaders -> Files \cup {NoFile}] /\ at' \in [Loaders -> Nat]
    <3>1. root' = root \/ root' = [root EXCEPT ![t] = NoFile]
      BY DEF LoadClear, Return
    <3>2. at' = at \/ at' = [at EXCEPT ![t] = 0]
      BY DEF LoadClear, Return
    <3>3. root \in [Loaders -> Files \cup {NoFile}] /\ at \in [Loaders -> Nat]
      BY DEF ReloadTypeOK
    <3> QED BY <3>1, <3>2, <3>3
  <2>2. raced' \in [Loaders -> BOOLEAN]
    BY DEF LoadClear, Return, ReloadTypeOK
  <2>3. lpc' \in [Loaders -> {"idle", "open", "clear", "push", "merge"}]
    BY DEF LoadClear, Return, ReloadTypeOK
  <2>4. gdevs' \in Seq(Blocks)
    BY DEF LoadClear
  <2>5. crashed' \in BOOLEAN
    BY Zenon DEF LoadClear, ReloadTypeOK
  <2> QED BY <2>1, <2>2, <2>3, <2>4, <2>5 DEF LoadClear, ReloadTypeOK
<1>2. RootInv'
  <2>1. root[t] \in Files /\ root[t] # Unreadable
    BY DEF LoadClear, RootInv
  <2>2. root[t] \notin {NoDevices, IllTyped} => root[t] \in Seq(Blocks)
    BY <2>1, GoodFile
  <2>3. CASE root[t] = NoDevices
    BY <2>3, ReloadAssumption DEF LoadClear, Return, ReloadTypeOK, RootInv
  <2>4. CASE root[t] = IllTyped
    BY <2>4, ReloadAssumption DEF LoadClear, RootInv
  <2>5. CASE root[t] \notin {NoDevices, IllTyped}
    BY <2>2, <2>5 DEF LoadClear, Return, ReloadTypeOK, RootInv
  <2> QED BY <2>3, <2>4, <2>5
<1>3. HolderInv'
  BY DEF LoadClear, Return, ReloadTypeOK, HolderInv
<1>4. OverlapInv'
  BY SMTT(30) DEF LoadClear, Return, ReloadTypeOK, OverlapInv, InWindow
<1>5. AloneInv'
  <2>1. \A u \in Loaders : u # t => lpc'[u] = lpc[u] /\ raced'[u] = raced[u]
    BY DEF LoadClear, Return, ReloadTypeOK
  <2>2. \A u \in Loaders : u # t /\ InWindow(u) => raced'[u]
    BY <2>1 DEF LoadClear, OverlapInv, InWindow
  <2>3. lpc'[t] \in {"idle", "clear", "push"} /\ gdevs' = <<>>
    BY DEF LoadClear, Return, ReloadTypeOK
  <2>4. lpc'[t] = "push" => at'[t] = 0 /\ root'[t] \in Seq(Blocks)
    BY <1>1, <1>2 DEF LoadClear, Return, ReloadTypeOK, RootInv
  <2> QED BY <2>1, <2>2, <2>3, <2>4 DEF AloneInv, InWindow
<1>6. ReloadInstallsFile'
  BY DEF LoadClear, ReloadInstallsFile
<1> QED
  BY <1>1, <1>2, <1>3, <1>4, <1>5, <1>6

LEMMA LoadPushKeeps ==
  ASSUME ReloadInv, NEW t \in Loaders, LoadPush(t)
  PROVE  ReloadInv'
<1> USE DEF ReloadInv
<1>1. ReloadTypeOK'
  <2>1. root[t] \in Seq(Blocks) /\ at[t] \in Nat /\ at[t] < Len(root[t])
    BY DEF LoadPush, RootInv, ReloadTypeOK
  <2>2. root[t][at[t] + 1] \in Blocks
    BY <2>1
  <2>3. gdevs' = gdevs \/ gdevs' = Append(gdevs, root[t][at[t] + 1])
    BY DEF LoadPush
  <2>4. gdevs' \in Seq(Blocks)
    <3>1. gdevs \in Seq(Blocks)
      BY DEF ReloadTypeOK
    <3>2. \A b \in Blocks : Append(gdevs, b) \in Seq(Blocks)
      BY <3>1
    <3> QED BY <2>2, <2>3, <3>1, <3>2
  <2> QED BY <2>4 DEF LoadPush, ReloadTypeOK
<1>2. RootInv'
  BY DEF LoadPush, RootInv
<1>3. HolderInv'
  BY DEF LoadPush, HolderInv
<1>4. OverlapInv'
  BY DEF LoadPush, OverlapInv, InWindow
<1>5. AloneInv'
  <2>1. \A u \in Loaders : u # t => lpc'[u] = lpc[u] /\ raced'[u] = raced[u]
    BY DEF LoadPush, ReloadTypeOK
  <2>2. \A u \in Loaders : u # t /\ InWindow(u) => raced'[u]
    BY <2>1 DEF LoadPush, OverlapInv, InWindow
  <2>3. CASE raced[t]
    BY <2>1, <2>2, <2>3 DEF AloneInv, InWindow, LoadPush
  <2>4. CASE ~raced[t]
    <3>1. \A u \in Loaders : u # t => ~InWindow(u)
      BY <2>4 DEF OverlapInv, InWindow, LoadPush
    <3>2. ~ \E u \in Loaders : DataRace(t, u)
      BY <3>1 DEF DataRace, AboutToWrite, AboutToRead, InWindow
    <3>3. gdevs' = Append(gdevs, root[t][at[t] + 1])
      BY <3>2 DEF LoadPush
    <3>4. root[t] \in Seq(Blocks) /\ gdevs \in Seq(Blocks) /\ at[t] \in Nat
      BY DEF LoadPush, RootInv, ReloadTypeOK
    <3>5. /\ Len(gdevs) = at[t]
          /\ \A i \in 1..at[t] : gdevs[i] = root[t][i]
      BY <2>4 DEF AloneInv, LoadPush
    <3>6. root[t][at[t] + 1] \in Blocks
      BY <3>4 DEF LoadPush
    <3>7. /\ Len(gdevs') = at[t] + 1
          /\ \A i \in 1..(at[t] + 1) : gdevs'[i] = root[t][i]
      BY <3>3, <3>4, <3>5, <3>6
    <3>8. at'[t] = at[t] + 1 /\ root' = root /\ lpc'[t] = "push" /\ at[t] < Len(root[t])
      BY DEF LoadPush, ReloadTypeOK
    <3> QED BY <2>1, <2>2, <3>4, <3>7, <3>8 DEF AloneInv, InWindow
  <2> QED BY <2>3, <2>4
<1>6. ReloadInstallsFile'
  BY DEF LoadPush, ReloadInstallsFile
<1> QED
  BY <1>1, <1>2, <1>3, <1>4, <1>5, <1>6

LEMMA InitLockKeeps ==
  ASSUME ReloadInv, NEW t \in Loaders, InitLock(t)
  PROVE  ReloadInv'
<1> USE DEF ReloadInv
<1>1. ReloadTypeOK'
  BY UpdateTypes DEF InitLock, ReloadTypeOK
<1>2. RootInv'
  BY DEF InitLock, ReloadTypeOK, RootInv
<1>3. HolderInv'
  BY ReloadAssumption DEF InitLock, ReloadTypeOK, HolderInv
<1>4. OverlapInv'
  BY DEF InitLock, ReloadTypeOK, OverlapInv, InWindow
<1>5. AloneInv'
  <2>1. \A u \in Loaders : u # t => lpc'[u] = lpc[u] /\ raced'[u] = raced[u]
    BY DEF InitLock, ReloadTypeOK
  <2>2. \A u \in Loaders : u # t /\ InWindow(u) => raced'[u]
    BY <2>1 DEF InitLock, OverlapInv, InWindow
  <2>3. lpc'[t] = "merge" /\ at'[t] = 0 /\ gdevs' = gdevs /\ root' = root /\ table' = EmptyTable
    BY DEF InitLock, ReloadTypeOK
  <2>4. gdevs \in Seq(Blocks) /\ root[t] \in Seq(Blocks) /\ at[t] = Len(root[t])
    BY DEF InitLock, ReloadTypeOK, RootInv
  <2>5. CASE raced[t]
    BY <2>1, <2>2, <2>5 DEF AloneInv, InWindow, InitLock
  <2>6. CASE ~raced[t]
    <3>1. Len(gdevs) = Len(root[t]) /\ \A i \in 1..Len(root[t]) : gdevs[i] = root[t][i]
      BY <2>4, <2>6 DEF AloneInv, InitLock
    <3>2. gdevs = root[t]
      BY <2>4, <3>1, SeqEqual
    <3>3. TableUpTo(gdevs, 0) = EmptyTable
      BY <2>4, TableUpToNone
    <3> QED BY <2>1, <2>2, <2>3, <2>4, <3>2, <3>3 DEF AloneInv, InWindow
  <2> QED BY <2>5, <2>6
<1>6. ReloadInstallsFile'
  BY ReloadAssumption DEF InitLock, ReloadInstallsFile
<1> QED
  BY <1>1, <1>2, <1>3, <1>4, <1>5, <1>6

LEMMA InitMergeKeeps ==
  ASSUME ReloadInv, NEW t \in Loaders, InitMerge(t)
  PROVE  ReloadInv'
<1> USE DEF ReloadInv
<1>1. ReloadTypeOK'
  BY UpdateTypes DEF InitMerge, ReloadTypeOK
<1>2. RootInv'
  BY DEF InitMerge, ReloadTypeOK, RootInv
<1>3. HolderInv'
  BY DEF InitMerge, ReloadTypeOK, HolderInv
<1>4. OverlapInv'
  BY DEF InitMerge, ReloadTypeOK, OverlapInv, InWindow
<1>5. AloneInv'
  BY MergeIsNext DEF InitMerge, ReloadTypeOK, HolderInv, AloneInv
<1>6. ReloadInstallsFile'
  BY ReloadAssumption DEF InitMerge, HolderInv, ReloadInstallsFile
<1> QED
  BY <1>1, <1>2, <1>3, <1>4, <1>5, <1>6

LEMMA InitUnlockKeeps ==
  ASSUME ReloadInv, NEW t \in Loaders, InitUnlock(t)
  PROVE  ReloadInv'
<1> USE DEF ReloadInv
<1>1. ReloadTypeOK'
  BY TableOfType DEF InitUnlock, Return, ReloadTypeOK, RootInv
<1>2. RootInv'
  BY DEF InitUnlock, Return, ReloadTypeOK, RootInv
<1>3. HolderInv'
  BY ReloadAssumption DEF InitUnlock, Return, ReloadTypeOK, HolderInv
<1>4. OverlapInv'
  BY DEF InitUnlock, Return, ReloadTypeOK, OverlapInv, InWindow
<1>5. AloneInv'
  BY DEF InitUnlock, Return, ReloadTypeOK, AloneInv
<1>6. ReloadInstallsFile'
  <2>1. holder = t /\ at[t] \in Nat /\ root[t] \in Seq(Blocks)
    BY DEF InitUnlock, HolderInv, RootInv, ReloadTypeOK
  <2>2. ~raced[t] => table = TableOf(root[t])
    BY <2>1 DEF InitUnlock, AloneInv, TableOf
  <2> QED BY <2>2 DEF InitUnlock, ReloadInstallsFile
<1> QED
  BY <1>1, <1>2, <1>3, <1>4, <1>5, <1>6

LEMMA RebindKeeps ==
  ASSUME ReloadInv, Rebind
  PROVE  ReloadInv'
<1> USE DEF ReloadInv
<1>1. PICK b \in Rebinds : Bind(b[1], b[2], b[3]) \/ Unbind(b[1], b[2])
  BY DEF Rebind
<1>2. b[1] \in Ids /\ b[2] \in Keys /\ b[3] \in Decisions
  BY ReloadAssumption
<1>3. /\ table' \in Tables
      /\ intended' \in Tables
      /\ table = intended => table' = intended'
      /\ holder = NoThread
      /\ UNCHANGED <<file, gdevs, lpc, root, at, holder, crashed, raced, suspect>>
  BY <1>1, <1>2, UpdateTypes DEF Bind, Unbind, ReloadTypeOK
<1>4. ReloadTypeOK' /\ RootInv' /\ HolderInv' /\ OverlapInv'
  BY <1>3 DEF ReloadTypeOK, RootInv, HolderInv, OverlapInv, InWindow
<1>5. \A t \in Loaders : lpc[t] # "merge"
  BY <1>3, ReloadAssumption DEF HolderInv
<1>6. AloneInv'
  BY <1>3, <1>5 DEF AloneInv
<1>7. ReloadInstallsFile'
  BY <1>3 DEF ReloadInstallsFile
<1> QED
  BY <1>4, <1>6, <1>7

\* Nothing but the crash flag moves, or nothing at all.
LEMMA OtherKeeps ==
  ASSUME ReloadInv, DataRaceCrash \/ Dead \/ UNCHANGED reloadVars
  PROVE  ReloadInv'
<1>1. UNCHANGED <<file, gdevs, table, lpc, root, at, holder, intended, raced, suspect>>
      /\ crashed' \in BOOLEAN
  BY DEF DataRaceCrash, Dead, reloadVars, ReloadInv, ReloadTypeOK
<1> QED
  BY <1>1 DEF ReloadInv, ReloadTypeOK, RootInv, HolderInv, OverlapInv, AloneInv,
              InWindow, ReloadInstallsFile

-----------------------------------------------------------------------------

\* A step of a reload keeps the invariant.
LEMMA LoadStepKeeps ==
  ASSUME ReloadInv, NEW t \in Loaders, LoadStep(t)
  PROVE  ReloadInv'
BY LoadReadKeeps, LoadClearKeeps, LoadPushKeeps, InitLockKeeps, InitMergeKeeps,
   InitUnlockKeeps DEF LoadStep

LEMMA ReloadInvNext ==
  ASSUME ReloadInv, [ReloadNext]_reloadVars
  PROVE  ReloadInv'
BY FileChangeKeeps, StartReloadKeeps, LoadStepKeeps, RebindKeeps, OtherKeeps
   DEF ReloadNext

\* The invariant above holds for any number of threads that reload, any set
\* of files and any clients.
THEOREM ReloadInvariance == ReloadSpec => []ReloadInv
<1>1. ReloadInv /\ [ReloadNext]_reloadVars => ReloadInv'
  BY ReloadInvNext
<1> QED
  BY <1>1, ReloadInvInit, PTL DEF ReloadSpec

\* Type correctness of the reload, for every instance of the constants.
THEOREM ReloadTypeCorrect == ReloadSpec => []ReloadTypeOK
<1>1. ReloadInv => ReloadTypeOK
  BY DEF ReloadInv
<1> QED
  BY <1>1, ReloadInvariance, PTL

\* Outside init the table is the one the reloads, binds and unbinds so far ask
\* for, unless the last reload to finish had overlapped another one
\* (config.cpp load, mapper.cpp init without a lock on g_config).
THEOREM ReloadInstalls == ReloadSpec => []ReloadInstallsFile
<1>1. ReloadInv => ReloadInstallsFile
  BY DEF ReloadInv
<1> QED
  BY <1>1, ReloadInvariance, PTL
-----------------------------------------------------------------------------
(* Reloads that do not overlap                                             *)

\* At most one reload is between its read of the file and the end of init.
OneAtATime == \A t, u \in Loaders : InWindow(t) /\ InWindow(u) => t = u

SerialInv == ~suspect /\ \A t \in Loaders : ~raced[t]

\* Without an overlap nothing is marked as overlapped.
LEMMA SerialKeeps ==
  ASSUME ReloadInv, SerialInv, OneAtATime', [ReloadNext]_reloadVars
  PROVE  SerialInv'
<1>1. ReloadTypeOK
  BY DEF ReloadInv
<1>2. ASSUME NEW t \in Loaders, LoadRead(t) PROVE SerialInv'
  <2>1. CASE file = Unreadable
    BY <1>1, <1>2, <2>1 DEF LoadRead, Return, SerialInv, ReloadTypeOK
  <2>2. CASE file # Unreadable
    <3>1. lpc' = [lpc EXCEPT ![t] = "clear"] /\ raced' = Overlap(t) /\ suspect' = suspect
      BY <1>2, <2>2 DEF LoadRead
    <3>2. \A u \in Loaders : u # t => ~InWindow(u)
      BY <1>1, <3>1 DEF OneAtATime, InWindow, ReloadTypeOK
    <3> QED BY <3>1, <3>2 DEF SerialInv, Overlap
  <2> QED BY <2>1, <2>2
<1>3. ASSUME NEW t \in Loaders, LoadClear(t) \/ InitUnlock(t) PROVE SerialInv'
  <2>1. raced' = raced \/ raced' = [raced EXCEPT ![t] = FALSE]
    BY <1>3 DEF LoadClear, InitUnlock, Return
  <2>2. suspect' = suspect \/ suspect' = raced[t]
    BY <1>3 DEF LoadClear, InitUnlock
  <2>3. ~raced[t] /\ ~suspect /\ raced \in [Loaders -> BOOLEAN]
    BY <1>1 DEF SerialInv, ReloadTypeOK
  <2>4. ~suspect'
    BY <2>2, <2>3
  <2>5. \A u \in Loaders : ~raced'[u]
    BY <2>1, <2>3 DEF SerialInv
  <2> QED BY <2>4, <2>5 DEF SerialInv
<1>4. ASSUME UNCHANGED <<raced, suspect>> PROVE SerialInv'
  BY <1>4 DEF SerialInv
<1>5. ASSUME NEW t \in Loaders,
             StartReload(t) \/ LoadPush(t) \/ InitLock(t) \/ InitMerge(t)
      PROVE  UNCHANGED <<raced, suspect>>
  BY <1>5 DEF StartReload, LoadPush, InitLock, InitMerge
<1>6. FileChange \/ Rebind \/ DataRaceCrash \/ Dead \/ UNCHANGED reloadVars
        => UNCHANGED <<raced, suspect>>
  BY DEF FileChange, Rebind, Bind, Unbind, DataRaceCrash, Dead, reloadVars
<1> QED
  BY <1>2, <1>3, <1>4, <1>5, <1>6 DEF ReloadNext, LoadStep

LEMMA SerialInvInit == ReloadInit => SerialInv
BY DEF ReloadInit, SerialInv

\* What the run with two overlapping reloads breaks holds whenever no two
\* overlap, however many threads may reload: the table is the one asked for
\* (config.cpp load and mapper.cpp init, without a lock on g_config).  A lock
\* from load to the end of init is enough.
THEOREM SerialReloadsInstall ==
  ReloadSpec /\ []OneAtATime => []ReloadAlwaysInstallsFile
<1>1. ReloadInv /\ SerialInv /\ OneAtATime' /\ [ReloadNext]_reloadVars => SerialInv'
  BY SerialKeeps
<1>2. ReloadInv /\ SerialInv => ReloadAlwaysInstallsFile
  BY DEF ReloadInv, SerialInv, ReloadInstallsFile, ReloadAlwaysInstallsFile
<1> QED
  BY <1>1, <1>2, SerialInvInit, ReloadInvariance, PTL DEF ReloadSpec

\* What ends the daemon in the middle of a reload is an overlapping one or a value
\* jsoncpp cannot convert, and nothing else.
THEOREM SerialReloadsSurvive ==
  ASSUME IllTyped \notin Files
  PROVE  ReloadSpec /\ []OneAtATime => [](~crashed)
<1>1. ReloadInit => ~crashed
  BY DEF ReloadInit
<1>2. ReloadInv /\ OneAtATime /\ ~crashed /\ [ReloadNext]_reloadVars => ~crashed'
  <2> SUFFICES ASSUME ReloadInv, OneAtATime, ~crashed, [ReloadNext]_reloadVars
               PROVE  ~crashed'
    OBVIOUS
  <2>1. ~DataRaceCrash
    BY DEF DataRaceCrash, DataRace, AboutToWrite, AboutToRead, OneAtATime, InWindow
  <2>2. ASSUME NEW t \in Loaders, LoadClear(t) PROVE UNCHANGED crashed
    <3>1. root[t] # IllTyped
      BY <2>2 DEF LoadClear, ReloadInv, RootInv
    <3> QED BY <2>2, <3>1 DEF LoadClear
  <2>3. ASSUME NEW t \in Loaders, StartReload(t) \/ LoadRead(t) \/ LoadPush(t) \/ InitLock(t)
                                    \/ InitMerge(t) \/ InitUnlock(t)
        PROVE  UNCHANGED crashed
    BY <2>3 DEF StartReload, LoadRead, LoadPush, InitLock, InitMerge, InitUnlock
  <2>4. FileChange \/ Rebind \/ Dead \/ UNCHANGED reloadVars => UNCHANGED crashed
    BY DEF FileChange, Rebind, Bind, Unbind, Dead, reloadVars
  <2> QED BY <2>1, <2>2, <2>3, <2>4 DEF ReloadNext, LoadStep
<1> QED
  BY <1>1, <1>2, ReloadInvariance, PTL DEF ReloadSpec
-----------------------------------------------------------------------------
(* A reload as one step                                                    *)

\* The operators of the two modules are the same.
LEMMA SwapOperators ==
  /\ Swap!Blocks = Blocks
  /\ Swap!Tables = Tables
  /\ \A f : Swap!TableOf(f) = TableOf(f)
  /\ \A m, d, k, c : Swap!AddBinding(m, d, k, c) = AddBinding(m, d, k, c)
  /\ \A m, d, k : Swap!RemoveBinding(m, d, k) = RemoveBinding(m, d, k)
<1>1. Swap!Blocks = Blocks /\ Swap!Tables = Tables
  BY DEF Swap!Blocks, Blocks, Swap!Tables, Tables, Swap!Ids, Ids, Swap!Cells, Cells,
     Swap!Decisions, Decisions
<1>2. \A f : Swap!TableOf(f) = TableOf(f)
  BY DEF Swap!TableOf, TableOf, Swap!TableUpTo, TableUpTo, Swap!Ids, Ids, Swap!Binders, Binders,
     Swap!LastOf, LastOf
<1>3. /\ \A m, d, k, c : Swap!AddBinding(m, d, k, c) = AddBinding(m, d, k, c)
      /\ \A m, d, k : Swap!RemoveBinding(m, d, k) = RemoveBinding(m, d, k)
  BY DEF Swap!AddBinding, AddBinding, Swap!RemoveBinding, RemoveBinding
<1> QED
  BY <1>1, <1>2, <1>3

Pending == {t \in Loaders : InWindow(t)}
Racing == {t \in Loaders : raced[t]}

\* A loader that relies on nothing has read nothing and overlaps nobody.
IdleInv == \A t \in Loaders : ~InWindow(t) => root[t] = NoFile /\ ~raced[t]

\* What the steps of one loader leave alone of another.
Apart(t) ==
  \A u \in Loaders \ {t} : lpc'[u] = lpc[u] /\ root'[u] = root[u] /\ raced'[u] = raced[u]

\* A call that returns leaves nothing behind.
LEMMA ReturnLeavesNothing ==
  ASSUME ReloadTypeOK, NEW t \in Loaders, Return(t)
  PROVE  /\ Apart(t)
         /\ lpc'[t] = "idle" /\ root'[t] = NoFile /\ ~raced'[t]
         /\ Pending' = Pending \ {t} /\ Racing' = Racing \ {t}
<1>1. /\ Apart(t)
      /\ lpc'[t] = "idle" /\ root'[t] = NoFile /\ ~raced'[t]
  BY DEF Return, ReloadTypeOK, Apart
<1>2. Pending' = Pending \ {t}
  BY <1>1 DEF Pending, InWindow, Apart
<1>3. Racing' = Racing \ {t}
  BY <1>1 DEF Racing, Apart
<1> QED
  BY <1>1, <1>2, <1>3

LEMMA IdleInvNext ==
  ASSUME ReloadInv, IdleInv, [ReloadNext]_reloadVars
  PROVE  IdleInv'
<1>1. ReloadTypeOK
  BY DEF ReloadInv
<1>2. ASSUME NEW t \in Loaders, Return(t) PROVE IdleInv'
  BY <1>1, <1>2, ReturnLeavesNothing DEF IdleInv, Apart, InWindow
<1>3. ASSUME NEW t \in Loaders, LoadRead(t) PROVE IdleInv'
  <2>1. CASE file # Unreadable
    <3>1. /\ lpc' = [lpc EXCEPT ![t] = "clear"] /\ root' = [root EXCEPT ![t] = file]
          /\ raced' = Overlap(t)
      BY <1>3, <2>1 DEF LoadRead
    <3>2. \A u \in Loaders \ {t} : ~InWindow(u) /\ ~raced[u] => ~raced'[u]
      BY <3>1 DEF Overlap
    <3> QED BY <1>1, <3>1, <3>2 DEF IdleInv, InWindow, ReloadTypeOK
  <2> QED BY <1>2, <1>3, <2>1 DEF LoadRead
<1>4. ASSUME NEW t \in Loaders, LoadClear(t) PROVE IdleInv'
  <2>1. CASE UNCHANGED <<lpc, root, at, raced>>
    BY <2>1 DEF IdleInv, InWindow
  <2>2. CASE lpc' = [lpc EXCEPT ![t] = "push"] /\ UNCHANGED <<root, raced>>
    BY <2>2, <1>1, <1>4 DEF LoadClear, IdleInv, InWindow, ReloadTypeOK
  <2> QED BY <1>2, <1>4, <2>1, <2>2 DEF LoadClear
<1>5. ASSUME NEW t \in Loaders, LoadPush(t) \/ InitLock(t) \/ InitMerge(t) \/ StartReload(t)
      PROVE  IdleInv'
  <2>1. /\ UNCHANGED <<root, raced>>
        /\ \A u \in Loaders : InWindow(u)' <=> InWindow(u)
    BY <1>1, <1>5 DEF LoadPush, InitLock, InitMerge, StartReload, InWindow, ReloadTypeOK
  <2> QED BY <2>1 DEF IdleInv
<1>6. ASSUME UNCHANGED <<lpc, root, raced>> PROVE IdleInv'
  BY <1>6 DEF IdleInv, InWindow
<1>7. FileChange \/ Rebind \/ DataRaceCrash \/ Dead \/ UNCHANGED reloadVars
        => UNCHANGED <<lpc, root, raced>>
  BY DEF FileChange, Rebind, Bind, Unbind, DataRaceCrash, Dead, reloadVars
<1> QED
  BY <1>2, <1>3, <1>4, <1>5, <1>6, <1>7 DEF ReloadNext, LoadStep, InitUnlock

LEMMA IdleInvariance == ReloadSpec => []IdleInv
<1>1. ReloadInit => IdleInv
  BY DEF ReloadInit, IdleInv, InWindow
<1>2. ReloadInv /\ IdleInv /\ [ReloadNext]_reloadVars => IdleInv'
  BY IdleInvNext
<1> QED
  BY <1>1, <1>2, ReloadInvariance, PTL DEF ReloadSpec

SwapVars == <<file, Pending, root, Racing, Visible, suspect>>

\* Reading the file is the abstract read, or the end of a reload that cannot.
LEMMA ReadSwaps ==
  ASSUME ReloadInv, IdleInv, NEW t \in Loaders, LoadRead(t)
  PROVE  Swap!Read(t) \/ UNCHANGED SwapVars
<1>1. ReloadTypeOK /\ lpc[t] = "open" /\ UNCHANGED <<file, Visible, suspect>>
  BY DEF ReloadInv, LoadRead, Visible
<1>2. root[t] = NoFile /\ ~raced[t] /\ t \notin Pending /\ t \notin Racing
  BY <1>1 DEF IdleInv, InWindow, Pending, Racing
<1>3. CASE file = Unreadable
  <2>1. Return(t)
    BY <1>3 DEF LoadRead
  <2>2. UNCHANGED root
    BY <1>1, <1>2, <2>1 DEF Return, ReloadTypeOK
  <2>3. UNCHANGED <<Pending, Racing>>
    BY <1>1, <1>2, <2>1, ReturnLeavesNothing
  <2> QED BY <1>1, <2>2, <2>3 DEF SwapVars
<1>4. CASE file # Unreadable
  <2>1. /\ lpc' = [lpc EXCEPT ![t] = "clear"] /\ root' = [root EXCEPT ![t] = file]
        /\ raced' = Overlap(t)
    BY <1>4 DEF LoadRead
  <2>2. Pending' = Pending \cup {t}
    BY <1>1, <2>1 DEF Pending, InWindow, ReloadTypeOK
  <2>3. Racing' = {u \in Loaders : \/ raced[u]
                                   \/ u # t /\ InWindow(u)
                                   \/ u = t /\ \E v \in Loaders \ {t} : InWindow(v)}
    BY <2>1 DEF Racing, Overlap
  <2>4. CASE Pending = {}
    BY <1>2, <2>3, <2>4, <1>1, <1>4, <2>1, <2>2 DEF Swap!Read, Pending, Racing
  <2>5. CASE Pending # {}
    <3>1. PICK v \in Loaders \ {t} : InWindow(v)
      BY <1>2, <2>5 DEF Pending
    <3>2. Racing' = Racing \cup Pending'
      BY <2>2, <2>3, <3>1 DEF Racing, Pending
    <3>3. Pending \ {t} # {}
      BY <1>2, <2>5
    <3> HIDE DEF Pending, Racing, Visible
    <3> QED BY <1>1, <1>4, <2>1, <2>2, <3>2, <3>3 DEF Swap!Read, Pending, Racing
  <2> QED BY <2>4, <2>5
<1> QED
  BY <1>3, <1>4

\* Clearing the vector shows in nothing, but for a file without devices, whose
\* reload fails.
LEMMA ClearSwaps ==
  ASSUME ReloadInv, NEW t \in Loaders, LoadClear(t)
  PROVE  Swap!Fail(t) \/ UNCHANGED SwapVars
<1>1. ReloadTypeOK /\ lpc[t] = "clear" /\ UNCHANGED <<file, Visible, suspect>>
  BY DEF ReloadInv, LoadClear, Visible
<1>2. t \in Pending
  BY <1>1 DEF Pending, InWindow
<1>3. CASE root[t] = NoDevices
  <2>1. Return(t)
    BY <1>3, ReloadAssumption DEF LoadClear
  <2>2. root' = [root EXCEPT ![t] = <<>>]
    BY <2>1 DEF Return, NoFile
  <2>3. Pending' = Pending \ {t} /\ Racing' = Racing \ {t}
    BY <1>1, <2>1, ReturnLeavesNothing
  <2> QED BY <1>1, <1>2, <1>3, <2>2, <2>3 DEF Swap!Fail, Swap!Done, Pending, Racing
<1>4. CASE root[t] # NoDevices
  <2>1. UNCHANGED <<root, raced>> /\ (lpc' = lpc \/ lpc' = [lpc EXCEPT ![t] = "push"])
    BY <1>4 DEF LoadClear
  <2>2. \A u \in Loaders : InWindow(u)' <=> InWindow(u)
    BY <1>1, <2>1 DEF InWindow, ReloadTypeOK
  <2> QED BY <1>1, <2>1, <2>2 DEF SwapVars, Pending, Racing
<1> QED
  BY <1>3, <1>4

\* The steps of the two loops show in nothing.  The lock hides the table while it
\* is built; if overlapping reloads have left one nobody asked for, it goes then.
LEMMA LoopSwaps ==
  ASSUME ReloadInv, NEW t \in Loaders, LoadPush(t) \/ InitLock(t) \/ InitMerge(t)
  PROVE  Swap!Decay \/ UNCHANGED SwapVars
<1>1. ReloadTypeOK /\ UNCHANGED <<file, root, raced, suspect, intended>>
  BY DEF ReloadInv, LoadPush, InitLock, InitMerge
<1>2. \A u \in Loaders : InWindow(u)' <=> InWindow(u)
  BY <1>1 DEF LoadPush, InitLock, InitMerge, InWindow, ReloadTypeOK
<1>3. UNCHANGED <<Pending, Racing>>
  BY <1>1, <1>2 DEF Pending, Racing
<1>4. CASE LoadPush(t)
  BY <1>1, <1>3, <1>4 DEF LoadPush, SwapVars, Visible
<1>5. CASE InitMerge(t)
  <2>1. holder # NoThread /\ holder' = holder
    BY <1>5, ReloadAssumption DEF InitMerge, ReloadInv, HolderInv
  <2> QED BY <1>1, <1>3, <2>1 DEF SwapVars, Visible
<1>6. CASE InitLock(t)
  <2>1. holder = NoThread /\ holder' # NoThread
    BY <1>6, ReloadAssumption DEF InitLock
  <2>2. Visible = table /\ Visible' = intended
    BY <1>1, <2>1 DEF Visible
  <2>3. CASE suspect
    BY <1>1, <1>3, <2>2, <2>3, SwapOperators DEF Swap!Decay, ReloadTypeOK, Pending, Racing
  <2>4. CASE ~suspect
    BY <1>1, <1>3, <2>1, <2>2, <2>4 DEF ReloadInv, ReloadInstallsFile, SwapVars
  <2> QED BY <2>3, <2>4
<1> QED
  BY <1>4, <1>5, <1>6

\* The end of init installs everything the reload has read, if it ran alone.
LEMMA UnlockSwaps ==
  ASSUME ReloadInv, NEW t \in Loaders, InitUnlock(t)
  PROVE  Swap!Install(t) \/ Swap!Muddle(t)
<1>1. /\ ReloadTypeOK /\ lpc[t] = "merge" /\ Return(t)
      /\ UNCHANGED <<file, table>> /\ holder' = NoThread /\ suspect' = raced[t]
  BY DEF ReloadInv, InitUnlock
<1>2. t \in Pending /\ Visible' = table /\ root' = [root EXCEPT ![t] = <<>>]
  BY <1>1 DEF Pending, InWindow, Visible, Return, NoFile
<1>3. Pending' = Pending \ {t} /\ Racing' = Racing \ {t}
  BY <1>1, ReturnLeavesNothing
<1>4. Swap!Done(t)
  BY <1>1, <1>2, <1>3 DEF Swap!Done, Pending, Racing
<1>5. root[t] \in Seq(Blocks) /\ at[t] \in Nat /\ table \in Tables
  BY <1>1 DEF ReloadInv, RootInv, ReloadTypeOK
<1>6. CASE raced[t]
  BY <1>1, <1>2, <1>4, <1>5, <1>6, SwapOperators DEF Swap!Muddle
<1>7. CASE ~raced[t]
  <2>1. table = TableOf(root[t])
    BY <1>5, <1>7 DEF InitUnlock, ReloadInv, AloneInv, TableOf
  <2>2. ~suspect'
    BY <1>1, <1>7
  <2>3. suspect' = FALSE
    BY <1>1, <1>7, <2>2 DEF ReloadTypeOK
  <2> QED BY <1>2, <1>4, <1>5, <1>7, <2>1, <2>3, SwapOperators DEF Swap!Install
<1> QED
  BY <1>6, <1>7

LEMMA RebindSwaps ==
  ASSUME Rebind
  PROVE  Swap!Rebind
<1>1. PICK b \in Rebinds : Bind(b[1], b[2], b[3]) \/ Unbind(b[1], b[2])
  BY DEF Rebind
<1>2. holder = NoThread /\ holder' = NoThread
      /\ UNCHANGED <<file, lpc, root, raced, suspect>>
  BY <1>1 DEF Bind, Unbind
<1>3. Visible = table /\ Visible' = table'
  BY <1>2 DEF Visible
<1>4. UNCHANGED <<Pending, Racing>>
  BY <1>2 DEF Pending, Racing, InWindow
<1>5. \/ table' = AddBinding(table, b[1], b[2], b[3])
      \/ table' = RemoveBinding(table, b[1], b[2])
  BY <1>1 DEF Bind, Unbind
<1> QED
  BY <1>2, <1>3, <1>4, <1>5, SwapOperators DEF Swap!Rebind, Pending, Racing

\* Every step of the reload is one of HotReload or shows in nothing.
LEMMA SwapStep ==
  ASSUME ReloadInv, IdleInv, [ReloadNext]_reloadVars
  PROVE  Swap!Next \/ UNCHANGED SwapVars
<1>1. ASSUME NEW t \in Loaders, StartReload(t) PROVE UNCHANGED SwapVars
  <2>1. \A u \in Loaders : InWindow(u)' <=> InWindow(u)
    BY <1>1 DEF StartReload, InWindow, ReloadInv, ReloadTypeOK
  <2> QED BY <1>1, <2>1 DEF StartReload, SwapVars, Pending, Racing, Visible
<1>2. ASSUME FileChange PROVE Swap!Next
  <2>1. UNCHANGED <<Pending, Racing, root, Visible, suspect>>
    BY <1>2 DEF FileChange, Pending, Racing, Visible, InWindow
  <2> QED BY <1>2, <2>1 DEF FileChange, Swap!Next, Swap!Change, Pending, Racing
<1>3. ASSUME DataRaceCrash \/ Dead \/ UNCHANGED reloadVars PROVE UNCHANGED SwapVars
  BY <1>3 DEF DataRaceCrash, Dead, reloadVars, SwapVars, Pending, Racing, Visible, InWindow
<1> QED
  BY <1>1, <1>2, <1>3, ReadSwaps, ClearSwaps, LoopSwaps, UnlockSwaps, RebindSwaps
     DEF ReloadNext, LoadStep, Swap!Next

\* For any number of threads that reload, any files and any binds in between, what
\* a lookup sees changes as if every reload that runs alone replaced all bindings
\* at once (config.cpp:13-103, mapper.cpp:100-121).
THEOREM HotReloadImplemented == ReloadSpec => ImplementsHotReload
<1>1. ReloadInit => Swap!Init
  <2> SUFFICES ASSUME ReloadInit PROVE Swap!Init
    OBVIOUS
  <2>1. file \in Files \cap Seq(Blocks)
    BY GoodFile DEF ReloadInit
  <2>2. Pending = {} /\ Racing = {} /\ Visible = TableOf(file) /\ suspect = FALSE
    BY DEF ReloadInit, Pending, Racing, Visible, InWindow
  <2>3. root \in [Loaders -> {<<>>}]
    BY DEF ReloadInit, NoFile
  <2> QED BY <2>1, <2>2, <2>3, SwapOperators DEF Swap!Init, Pending, Racing
<1>2. ReloadInv /\ IdleInv /\ [ReloadNext]_reloadVars => [Swap!Next]_(Swap!vars)
  BY SwapStep DEF SwapVars, Swap!vars, Pending, Racing
<1> QED
  BY <1>1, <1>2, ReloadInvariance, IdleInvariance, PTL
     DEF ReloadSpec, ImplementsHotReload, Swap!Spec
=============================================================================
