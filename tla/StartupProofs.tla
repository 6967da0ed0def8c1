--------------------------- MODULE StartupProofs ---------------------------
(***************************************************************************)
(* Proofs about Startup, for any number of processes, devices and blocks.  *)
(***************************************************************************)
EXTENDS Startup, DeviceScanProofs, TLAPS

\* Where a process is that has written its number, or will not any more.
After ==
  {"scan", "remove", "control", "bind", "devices", "run", "stop", "close", "clean", "destroy",
   "gone", "dead"}

\* Where a daemon's number should be in the PID file.
Owning == {"scan", "remove", "control", "bind", "devices", "run", "stop", "close", "clean"}

\* Whose number, socket or grab is to be found where.
MarksInv ==
  /\ \A p \in Procs :
       /\ pidFile.pid = p => at[p] \in After \ {"destroy", "gone"}
       /\ \A q \in Procs : seen[q] = p => at[p] \in After
  /\ \A s \in Paths, p \in Procs :
       socketFile[s] = p =>
         at[p] \in {"devices", "run", "stop", "close", "clean", "destroy", "gone", "dead"}
  /\ \A n \in NodeIds, p \in Procs :
       grabber[n] = p => at[p] \in {"run", "stop", "close"}

\* Without a tangle there is one instance, and it has what it needs.
AloneInv ==
  ~tangled =>
    /\ ~Overlap
    /\ \A p, q \in Procs : Past(p) /\ Past(q) => p = q
    /\ \A p, q \in Procs : Starting(p) /\ Past(q) => p = q
    /\ \A p \in Procs \ foreground : at[p] \in Owning => pidFile.pid = p
    /\ \A p \in Procs : at[p] = "write" => pidFile.ino = handle[p]

ServedInv ==
  ~tangled =>
    \A p \in Procs :
      /\ at[p] \in {"devices", "run"} /\ bound[p] # NoPath => socketFile[bound[p]] = p
      /\ at[p] = "run" => \A n \in ToGrab(p) : grabber[n] = p
      /\ bound[p] # NoPath =>
           at[p] \in {"devices", "run", "stop", "close", "clean", "destroy"}

\* A node that did not open is behind the scan.
ScanInv ==
  /\ DevicesSettled
  /\ \A p \in Procs : failed[p] \subseteq 1..(next[p] - 1)

\* The inductive invariant.
StartInv ==
  /\ TypeOK
  /\ MarksInv
  /\ AloneInv
  /\ ServedInv
  /\ ScanInv

-----------------------------------------------------------------------------
(* Types                                                                   *)

LEMMA TypeInit == Init => TypeOK
<1> SUFFICES ASSUME Init PROVE TypeOK
  OBVIOUS
<1>1. at \in [Procs -> Places] /\ \A p \in Procs : at[p] \in {"dead", "new"}
  BY DEF Init, Places
<1>2. 1 \in 1..(Len(Nodes) + 1)
  BY ScanAssumption
<1>3. pidFile \in {NoFile} \cup [ino : Procs, pid : Procs \cup {NoProc}]
  BY StartupAssumption DEF Init
<1>4. socketFile \in [Paths -> Procs \cup {NoProc}]
  BY StartupAssumption DEF Init
<1> QED
  BY <1>1, <1>2, <1>3, <1>4 DEF Init, TypeOK, Alive, NoEntries

LEMMA TypeStep ==
  ASSUME TypeOK, NEW p \in Procs, Step(p), Chronicle
  PROVE  TypeOK'
<1>0. tangled' \in BOOLEAN
  BY Zenon DEF Chronicle
<1> USE <1>0, StartupAssumption DEF TypeOK, Places, Alive, scanVars, fileVars, NoEntries, NoFile
<1>1. CASE Begin(p)
  BY <1>1 DEF Begin, Goto
<1>2. CASE ReadPid(p)
  BY <1>2 DEF ReadPid, Goto, AfterGuard
<1>3. CASE Refuse(p)
  BY <1>3 DEF Refuse, Ends, Goto
<1>4. CASE FindStale(p)
  BY <1>4 DEF FindStale, Goto
<1>5. CASE RemoveStale(p)
  BY <1>5 DEF RemoveStale, Goto, AfterGuard, NoFile
<1>6. CASE OpenPid(p)
  BY <1>6 DEF OpenPid, Inode, Goto, NoFile
<1>7. CASE DaemonizeFails(p)
  BY <1>7 DEF DaemonizeFails, Ends, Goto
<1>8. CASE WritePid(p)
  BY <1>8 DEF WritePid, Written, Goto
<1>9. CASE ScanNode(p)
  <2>1. next[p] \in NodeIds /\ next[p] + 1 \in 1..(Len(Nodes) + 1)
    BY <1>9, ScanAssumption DEF ScanNode, NodeIds
  <2>2. /\ entries' \in [Procs -> [BlockIds -> {0} \cup NodeIds]]
        /\ failed' \in [Procs -> SUBSET NodeIds]
    <3>1. CASE UNCHANGED <<entries, failed>>
      BY <3>1
    <3>2. CASE \E b \in BlockFor(entries[p], next[p]) :
                 entries' = [entries EXCEPT ![p][b] = next[p]] /\ UNCHANGED failed
      BY <3>2, <2>1 DEF BlockFor, Candidates
    <3>3. CASE failed' = [failed EXCEPT ![p] = @ \cup {next[p]}] /\ UNCHANGED entries
      BY <3>3, <2>1
    <3> QED BY <1>9, <3>1, <3>2, <3>3 DEF ScanNode, Opened
  <2>4. next' \in [Procs -> 1..(Len(Nodes) + 1)]
    BY <1>9, <2>1 DEF ScanNode
  <2> QED BY <1>9, <2>2, <2>4 DEF ScanNode
<1>10. CASE ScanEnds(p)
  BY <1>10 DEF ScanEnds, Goto
<1>11. CASE GiveUp(p)
  BY <1>11 DEF GiveUp, Ends, Goto, NoFile
<1>12. CASE UnlinkSocket(p)
  BY <1>12 DEF UnlinkSocket, Goto
<1>13. CASE BindSocket(p)
  BY <1>13 DEF BindSocket, Goto
<1>14. CASE BindFails(p)
  BY <1>14 DEF BindFails, Goto
<1>15. CASE StartDevices(p)
  BY <1>15 DEF StartDevices, Goto
<1>16. CASE Reload(p)
  BY <1>16 DEF Reload
<1>17. CASE Terminate(p)
  BY <1>17 DEF Terminate, Goto
<1>18. CASE StopControl(p)
  BY <1>18 DEF StopControl, WithoutName, Goto
<1>19. CASE StopDevices(p)
  BY <1>19 DEF StopDevices, Released, Goto
<1>20. CASE RemovePid(p)
  BY <1>20 DEF RemovePid, Goto, NoFile
<1>21. CASE Destroy(p)
  <2>1. 1 \in 1..(Len(Nodes) + 1)
    BY ScanAssumption
  <2>2. socketFile' \in [Paths -> Procs \cup {NoProc}]
    BY <1>21 DEF Destroy, WithoutName
  <2> QED BY <1>21, <2>1, <2>2 DEF Destroy, Ends, Goto
<1>22. CASE Crash(p)
  BY <1>22 DEF Crash, Ends, Goto, Released
<1>23. CASE ReusePid(p)
  BY <1>23 DEF ReusePid
<1>24. CASE FreePid(p)
  BY <1>24 DEF FreePid
<1> QED
  BY <1>1, <1>2, <1>3, <1>4, <1>5, <1>6, <1>7, <1>8, <1>9, <1>10, <1>11, <1>12, <1>13, <1>14, <1>15, <1>16, <1>17, <1>18, <1>19, <1>20, <1>21, <1>22, <1>23, <1>24 DEF Step

-----------------------------------------------------------------------------
(* Marks                                                                   *)

LEMMA MarksStep ==
  ASSUME TypeOK, MarksInv, NEW p \in Procs, Step(p)
  PROVE  MarksInv'
<1> USE StartupAssumption DEF TypeOK, MarksInv, After, NoFile, scanVars, fileVars
<1>1. CASE Begin(p)
  BY <1>1 DEF Begin, Goto
<1>2. CASE ReadPid(p)
  BY <1>2 DEF ReadPid, Goto, AfterGuard
<1>3. CASE Refuse(p)
  BY <1>3 DEF Refuse, Ends, Goto
<1>4. CASE FindStale(p)
  BY <1>4 DEF FindStale, Goto
<1>5. CASE RemoveStale(p)
  BY <1>5 DEF RemoveStale, Goto, AfterGuard, NoFile
<1>6. CASE OpenPid(p)
  BY <1>6 DEF OpenPid, Inode, Goto, NoFile
<1>7. CASE DaemonizeFails(p)
  BY <1>7 DEF DaemonizeFails, Ends, Goto
<1>8. CASE WritePid(p)
  BY <1>8 DEF WritePid, Written, Goto
<1>9. CASE ScanNode(p)
  BY <1>9 DEF ScanNode, Opened
<1>10. CASE ScanEnds(p)
  BY <1>10 DEF ScanEnds, Goto
<1>11. CASE GiveUp(p)
  BY <1>11 DEF GiveUp, Ends, Goto, NoFile
<1>12. CASE UnlinkSocket(p)
  BY <1>12 DEF UnlinkSocket, Goto
<1>13. CASE BindSocket(p)
  BY <1>13 DEF BindSocket, Goto
<1>14. CASE BindFails(p)
  BY <1>14 DEF BindFails, Goto
<1>15. CASE StartDevices(p)
  BY <1>15 DEF StartDevices, Goto
<1>16. CASE Reload(p)
  BY <1>16 DEF Reload
<1>17. CASE Terminate(p)
  BY <1>17 DEF Terminate, Goto
<1>18. CASE StopControl(p)
  BY <1>18 DEF StopControl, WithoutName, Goto
<1>19. CASE StopDevices(p)
  BY <1>19 DEF StopDevices, Released, Goto
<1>20. CASE RemovePid(p)
  BY <1>20 DEF RemovePid, Goto, NoFile
<1>21. CASE Destroy(p)
  BY <1>21 DEF Destroy, WithoutName, Ends, Goto
<1>22. CASE Crash(p)
  BY <1>22 DEF Crash, Ends, Goto, Released
<1>23. CASE ReusePid(p)
  BY <1>23 DEF ReusePid
<1>24. CASE FreePid(p)
  BY <1>24 DEF FreePid
<1> QED
  BY <1>1, <1>2, <1>3, <1>4, <1>5, <1>6, <1>7, <1>8, <1>9, <1>10, <1>11, <1>12, <1>13, <1>14, <1>15, <1>16, <1>17, <1>18, <1>19, <1>20, <1>21, <1>22, <1>23, <1>24 DEF Step

-----------------------------------------------------------------------------
(* One instance                                                            *)

\* A step after which nobody is past the guard, or starting, who was not before.
Follows ==
  /\ UNCHANGED pidFile
  /\ \A q \in Procs :
       /\ Past(q)' => Past(q)
       /\ Starting(q)' => Starting(q)
       /\ q \notin foreground' /\ at'[q] \in Owning => q \notin foreground /\ at[q] \in Owning
       /\ at'[q] = "write" => at[q] = "write" /\ handle'[q] = handle[q]

LEMMA FollowsKeeps ==
  ASSUME AloneInv, ~tangled, ~Overlap', Follows
  PROVE  AloneInv'
BY DEF AloneInv, Follows

\* What a step of p leaves of the others.
Others(p) ==
  \A q \in Procs \ {p} :
    /\ at'[q] = at[q] /\ seen'[q] = seen[q] /\ handle'[q] = handle[q]
    /\ q \in foreground' <=> q \in foreground

\* A step of one that moves on between two places where it is alive.
LEMMA MovesFollow ==
  ASSUME TypeOK, NEW p \in Procs, Others(p), UNCHANGED <<pidFile, seen, handle, foreground>>,
         Alive(p), Alive(p)',
         Past(p)' => Past(p), Starting(p)' => Starting(p),
         at'[p] \in Owning => at[p] \in Owning, at'[p] = "write" => at[p] = "write"
  PROVE  Follows
<1>1. \A q \in Procs : Alive(q)' <=> Alive(q)
  BY DEF Others, Alive
<1>2. ASSUME NEW q \in Procs PROVE Past(q)' => Past(q)
  BY DEF Others, Past
<1>3. ASSUME NEW q \in Procs PROVE Starting(q)' => Starting(q)
  <2>1. CASE q = p
    BY <2>1
  <2>2. CASE q # p /\ at[q] = "probe"
    BY <2>2, <1>1 DEF Others, Starting, TypeOK
  <2>3. CASE q # p /\ at[q] # "probe"
    BY <2>3 DEF Others, Starting
  <2> QED BY <2>1, <2>2, <2>3
<1> QED
  BY <1>2, <1>3 DEF Follows, Others

\* A process ends.
LEMMA EndsKeeps ==
  ASSUME TypeOK, MarksInv, AloneInv, ~tangled, ~Overlap',
         NEW p \in Procs, Alive(p), NEW how \in {"gone", "dead"}, Ends(p, how),
         UNCHANGED pidFile \/ Past(p)
  PROVE  AloneInv'
<1>1. Others(p) /\ at'[p] = how
  BY DEF Ends, Goto, Others, TypeOK
<1>2. ASSUME NEW q \in Procs, Past(q)' PROVE q # p /\ Past(q)
  BY <1>1, <1>2 DEF Others, Past, Places
<1>3. ASSUME NEW q \in Procs, Starting(q)' PROVE q # p /\ (Starting(q) \/ Past(p))
  <2>1. q # p
    BY <1>1, <1>3 DEF Starting
  <2>2. CASE at[q] = "probe" /\ seen[q] # p
    BY <1>1, <1>3, <2>1, <2>2 DEF Others, Starting, Alive, TypeOK
  <2>3. CASE at[q] = "probe" /\ seen[q] = p
    <3>1. at[p] \in After
      BY <2>3 DEF MarksInv
    <3> QED BY <2>1, <3>1 DEF After, Past, Alive, Places
  <2>4. CASE at[q] # "probe"
    BY <1>1, <1>3, <2>1, <2>4 DEF Others, Starting
  <2> QED BY <2>1, <2>2, <2>3, <2>4
<1>4. ASSUME NEW q \in Procs, Past(q)' PROVE UNCHANGED pidFile
  BY <1>2, <1>4 DEF AloneInv
<1>5. \A q \in Procs, r \in Procs : Starting(q)' /\ Past(r)' => q = r
  BY <1>2, <1>3 DEF AloneInv
<1>6. ASSUME NEW q \in Procs \ foreground', at'[q] \in Owning PROVE pidFile'.pid = q
  <2>1. Past(q)'
    BY <1>6 DEF Past, Owning, Places
  <2>2. q # p /\ at[q] \in Owning /\ q \notin foreground
    BY <1>1, <1>2, <1>6, <2>1 DEF Others
  <2> QED BY <1>4, <2>1, <2>2 DEF AloneInv
<1>7. ASSUME NEW q \in Procs, at'[q] = "write" PROVE pidFile'.ino = handle'[q]
  <2>1. Past(q)'
    BY <1>7 DEF Past, Places
  <2> QED BY <1>1, <1>2, <1>4, <1>7, <2>1 DEF Others, AloneInv
<1> QED
  BY <1>2, <1>5, <1>6, <1>7 DEF AloneInv

\* A step of one that is about the PID file while nobody else is.
LEMMA LonelyKeeps ==
  ASSUME TypeOK, ~Overlap', NEW p \in Procs, Others(p),
         \A q \in Procs \ {p} : ~Past(q) /\ ~Starting(q),
         Alive(p), Alive(p)',
         at'[p] \in Owning /\ p \notin foreground' => pidFile'.pid = p,
         at'[p] = "write" => pidFile'.ino = handle'[p]
  PROVE  AloneInv'
<1>1. \A q \in Procs : Alive(q)' <=> Alive(q)
  BY DEF Others, Alive
<1>2. ASSUME NEW q \in Procs \ {p} PROVE ~Past(q)' /\ ~Starting(q)'
  <2>1. ~Past(q)'
    BY DEF Others, Past
  <2>2. CASE at[q] = "probe"
    BY <1>1, <2>1, <2>2 DEF Others, Starting, TypeOK
  <2>3. CASE at[q] # "probe"
    BY <2>1, <2>3 DEF Others, Starting
  <2> QED BY <2>1, <2>2, <2>3
<1>3. \A q \in Procs \ {p} : at'[q] \notin Owning /\ at'[q] # "write"
  BY <1>2 DEF Past, Owning, Places
<1> QED
  BY <1>2, <1>3 DEF AloneInv

\* Reading the PID file: whoever gets past the guard is alone, and so is whoever is
\* about to remove a stale file.
LEMMA ReadPidKeeps ==
  ASSUME TypeOK, MarksInv, AloneInv, ~tangled, ~Overlap', NEW p \in Procs, ReadPid(p)
  PROVE  AloneInv'
<1>1. /\ Others(p) /\ UNCHANGED <<pidFile, handle, foreground>>
      /\ at[p] = "guard" /\ at'[p] \in {"scan", "daemonize", "probe"}
      /\ seen'[p] = pidFile.pid
      /\ at'[p] = "probe" <=> pidFile.pid # NoProc
      /\ at'[p] = "scan" => p \in foreground
  BY DEF ReadPid, Goto, AfterGuard, Others, TypeOK, fileVars
<1>2. \A q \in Procs : Alive(q)' <=> Alive(q)
  BY <1>1 DEF Others, Alive
<1>3. ASSUME NEW q \in Procs \ {p}
      PROVE  (Past(q)' <=> Past(q)) /\ (Starting(q)' <=> Starting(q))
  <2>1. Past(q)' <=> Past(q)
    BY <1>1 DEF Others, Past
  <2>2. CASE at[q] = "probe"
    BY <1>1, <1>2, <2>1, <2>2 DEF Others, Starting, TypeOK
  <2>3. CASE at[q] # "probe"
    BY <1>1, <2>1, <2>3 DEF Others, Starting
  <2> QED BY <2>1, <2>2, <2>3
<1>4. ASSUME NEW q \in Procs \ {p}, Past(q), Past(p)' \/ Starting(p)'
      PROVE  FALSE
  <2>1. CASE q \in foreground
    BY <1>1, <1>3, <1>4, <2>1 DEF Overlap
  <2>2. CASE at[q] \in {"daemonize", "write"}
    <3>1. Starting(q)'
      BY <1>3, <2>2 DEF Starting
    <3>2. CASE at'[p] = "scan"
      BY <1>1, <3>1, <3>2 DEF Overlap, Past, Places
    <3>3. CASE at'[p] # "scan"
      <4>1. Starting(p)'
        BY <1>1, <1>4, <3>3 DEF Starting, Past
      <4> QED BY <3>1, <4>1 DEF Overlap
    <3> QED BY <3>2, <3>3
  <2>3. CASE at[q] = "destroy"
    BY <1>1, <1>4, <2>3 DEF Overlap, Others
  <2>4. CASE q \notin foreground /\ at[q] \in Owning
    <3>1. pidFile.pid = q
      BY <2>4 DEF AloneInv
    <3>2. at'[p] = "probe" /\ seen'[p] = q
      BY <1>1, <3>1, StartupAssumption
    <3>3. Alive(q)'
      BY <1>1, <2>4 DEF Others, Alive, Owning
    <3> QED BY <1>4, <3>2, <3>3 DEF Past, Starting
  <2> QED BY <1>4, <2>1, <2>2, <2>3, <2>4 DEF Past, Places, Owning
<1>5. Past(p)' => at'[p] = "scan" \/ at'[p] = "daemonize"
  BY <1>1 DEF Past
<1>6. ~Past(p) /\ ~Starting(p)
  BY <1>1 DEF Past, Starting
<1>7. ASSUME NEW q \in Procs \ foreground', at'[q] \in Owning PROVE pidFile'.pid = q
  BY <1>1, <1>7 DEF Others, AloneInv, Owning
<1>8. ASSUME NEW q \in Procs, at'[q] = "write" PROVE pidFile'.ino = handle'[q]
  BY <1>1, <1>8 DEF Others, AloneInv
<1>9. ASSUME NEW q \in Procs, NEW r \in Procs, Past(r)', Past(q)' \/ Starting(q)'
      PROVE  q = r
  <2>1. CASE q # p /\ r # p
    BY <1>3, <1>9, <2>1 DEF AloneInv
  <2>2. CASE q = p /\ r # p
    BY <1>3, <1>4, <1>9, <2>2
  <2>3. CASE q # p /\ r = p
    <3>1. CASE Past(q)'
      BY <1>3, <1>4, <1>9, <2>3, <3>1
    <3>2. CASE Starting(q)'
      <4>1. CASE at'[p] = "scan"
        BY <1>1, <2>3, <3>2, <4>1 DEF Overlap, Past, Places
      <4>2. CASE at'[p] = "daemonize"
        BY <2>3, <3>2, <4>2 DEF Overlap, Starting
      <4> QED BY <1>5, <1>9, <2>3, <4>1, <4>2
    <3> QED BY <1>9, <3>1, <3>2
  <2> QED BY <2>1, <2>2, <2>3
<1> QED
  BY <1>7, <1>8, <1>9 DEF AloneInv

LEMMA AloneStep ==
  ASSUME TypeOK, MarksInv, AloneInv, NEW p \in Procs, Step(p), Chronicle, ~tangled'
  PROVE  AloneInv'
<1>0. ~tangled /\ ~Overlap'
  BY Zenon DEF Chronicle, TypeOK
<1>1. CASE Begin(p)
  <2>1. /\ at[p] = "new" /\ at'[p] = "guard"
        /\ UNCHANGED <<pidFile, seen, handle>>
        /\ \A q \in Procs \ {p} : at'[q] = at[q] /\ (q \in foreground' <=> q \in foreground)
    BY <1>1 DEF Begin, Goto, TypeOK, fileVars
  <2>2. \A q \in Procs : (q # p => (Alive(q)' <=> Alive(q))) /\ seen[q] # p
    BY <2>1 DEF Alive, MarksInv, After
  <2>3. ASSUME NEW q \in Procs PROVE (Past(q)' => Past(q)) /\ (Starting(q)' => Starting(q))
    <3>1. CASE q = p
      BY <2>1, <3>1 DEF Past, Starting
    <3>2. CASE q # p
      <4>1. Past(q)' => Past(q)
        BY <2>1, <3>2 DEF Past
      <4>2. CASE at[q] = "probe"
        BY <2>1, <2>2, <3>2, <4>1, <4>2 DEF Starting, TypeOK
      <4>3. CASE at[q] # "probe"
        BY <2>1, <3>2, <4>1, <4>3 DEF Starting
      <4> QED BY <4>2, <4>3
    <3> QED BY <3>1, <3>2
  <2>4. Follows
    BY <2>1, <2>3 DEF Follows, Owning
  <2> QED BY <1>0, <2>4, FollowsKeeps
<1>2. CASE ReadPid(p)
  BY <1>0, <1>2, ReadPidKeeps
<1>3. CASE Refuse(p)
  <2>1. Ends(p, "gone") /\ Alive(p) /\ (UNCHANGED pidFile \/ Past(p))
    BY <1>3 DEF Refuse, Alive, Past, Places, fileVars
  <2> QED BY <1>0, <2>1, EndsKeeps
<1>4. CASE FindStale(p)
  BY <1>0, <1>4 DEF FindStale, Goto, AloneInv, TypeOK, Past, Starting, Alive, Owning, Places, fileVars, Found, InUse, scanVars
<1>5. CASE RemoveStale(p)
  <2>1. Others(p) /\ at[p] = "unlink" /\ at'[p] \in {"scan", "daemonize"} /\ UNCHANGED foreground
    BY <1>5 DEF RemoveStale, Goto, Others, AfterGuard, TypeOK
  <2>2. Starting(p) /\ Alive(p) /\ Alive(p)'
    BY <2>1 DEF Starting, Alive
  <2>3. \A q \in Procs \ {p} : ~Past(q) /\ ~Starting(q)
    BY <1>0, <2>2 DEF AloneInv, Overlap
  <2>4. at'[p] = "scan" => p \in foreground
    BY <1>5 DEF RemoveStale, Goto, AfterGuard, TypeOK
  <2> QED BY <1>0, <2>1, <2>2, <2>3, <2>4, LonelyKeeps DEF Owning
<1>6. CASE OpenPid(p)
  <2>1. Others(p) /\ at[p] = "daemonize" /\ at'[p] = "write" /\ pidFile'.ino = handle'[p]
    BY <1>6 DEF OpenPid, Goto, Others, TypeOK
  <2>2. Starting(p) /\ Past(p) /\ Alive(p) /\ Alive(p)'
    BY <2>1 DEF Starting, Alive, Past, Places
  <2>3. \A q \in Procs \ {p} : ~Past(q) /\ ~Starting(q)
    BY <1>0, <2>2 DEF AloneInv, Overlap
  <2> QED BY <1>0, <2>1, <2>2, <2>3, LonelyKeeps DEF Owning
<1>7. CASE DaemonizeFails(p)
  <2>1. Ends(p, "gone") /\ Alive(p) /\ (UNCHANGED pidFile \/ Past(p))
    BY <1>7 DEF DaemonizeFails, Alive, Past, Places, fileVars
  <2> QED BY <1>0, <2>1, EndsKeeps
<1>8. CASE WritePid(p)
  <2>1. Others(p) /\ at[p] = "write" /\ at'[p] = "scan"
    BY <1>8 DEF WritePid, Goto, Others, TypeOK
  <2>2. Starting(p) /\ Past(p) /\ Alive(p) /\ Alive(p)'
    BY <2>1 DEF Starting, Alive, Past, Places
  <2>3. \A q \in Procs \ {p} : ~Past(q) /\ ~Starting(q)
    BY <1>0, <2>2 DEF AloneInv, Overlap
  <2>4. pidFile'.pid = p
    BY <1>0, <1>8, <2>1, StartupAssumption DEF WritePid, Written, AloneInv, TypeOK, NoFile
  <2> QED BY <1>0, <2>1, <2>2, <2>3, <2>4, LonelyKeeps
<1>9. CASE ScanNode(p)
  BY <1>0, <1>9 DEF ScanNode, AloneInv, TypeOK, Past, Starting, Alive, Owning, Places, fileVars, Found, InUse, scanVars
<1>10. CASE ScanEnds(p)
  <2>1. Others(p) /\ UNCHANGED <<pidFile, seen, handle, foreground>>
    BY <1>10 DEF ScanEnds, Goto, Others, TypeOK, fileVars
  <2>2. Alive(p) /\ Alive(p)' /\ Past(p) /\ at[p] \in Owning /\ at'[p] \in Owning
    BY <1>10 DEF ScanEnds, Goto, Alive, Past, Places, Owning, TypeOK
  <2>3. ~Starting(p)' /\ at'[p] # "write"
    BY <2>2 DEF Starting, Owning
  <2> QED BY <1>0, <2>1, <2>2, <2>3, MovesFollow, FollowsKeeps
<1>11. CASE GiveUp(p)
  <2>1. Ends(p, "gone") /\ Alive(p) /\ (UNCHANGED pidFile \/ Past(p))
    BY <1>11 DEF GiveUp, Alive, Past, Places, fileVars
  <2> QED BY <1>0, <2>1, EndsKeeps
<1>12. CASE UnlinkSocket(p)
  <2>1. Others(p) /\ UNCHANGED <<pidFile, seen, handle, foreground>>
    BY <1>12 DEF UnlinkSocket, Goto, Others, TypeOK, fileVars
  <2>2. Alive(p) /\ Alive(p)' /\ Past(p) /\ at[p] \in Owning /\ at'[p] \in Owning
    BY <1>12 DEF UnlinkSocket, Goto, Alive, Past, Places, Owning, TypeOK
  <2>3. ~Starting(p)' /\ at'[p] # "write"
    BY <2>2 DEF Starting, Owning
  <2> QED BY <1>0, <2>1, <2>2, <2>3, MovesFollow, FollowsKeeps
<1>13. CASE BindSocket(p)
  <2>1. Others(p) /\ UNCHANGED <<pidFile, seen, handle, foreground>>
    BY <1>13 DEF BindSocket, Goto, Others, TypeOK, fileVars
  <2>2. Alive(p) /\ Alive(p)' /\ Past(p) /\ at[p] \in Owning /\ at'[p] \in Owning
    BY <1>13 DEF BindSocket, Goto, Alive, Past, Places, Owning, TypeOK
  <2>3. ~Starting(p)' /\ at'[p] # "write"
    BY <2>2 DEF Starting, Owning
  <2> QED BY <1>0, <2>1, <2>2, <2>3, MovesFollow, FollowsKeeps
<1>14. CASE BindFails(p)
  <2>1. Others(p) /\ UNCHANGED <<pidFile, seen, handle, foreground>>
    BY <1>14 DEF BindFails, Goto, Others, TypeOK, fileVars
  <2>2. Alive(p) /\ Alive(p)' /\ Past(p) /\ at[p] \in Owning /\ at'[p] \in Owning
    BY <1>14 DEF BindFails, Goto, Alive, Past, Places, Owning, TypeOK
  <2>3. ~Starting(p)' /\ at'[p] # "write"
    BY <2>2 DEF Starting, Owning
  <2> QED BY <1>0, <2>1, <2>2, <2>3, MovesFollow, FollowsKeeps
<1>15. CASE StartDevices(p)
  <2>1. Others(p) /\ UNCHANGED <<pidFile, seen, handle, foreground>>
    BY <1>15 DEF StartDevices, Goto, Others, TypeOK, fileVars
  <2>2. Alive(p) /\ Alive(p)' /\ Past(p) /\ at[p] \in Owning /\ at'[p] \in Owning
    BY <1>15 DEF StartDevices, Goto, Alive, Past, Places, Owning, TypeOK
  <2>3. ~Starting(p)' /\ at'[p] # "write"
    BY <2>2 DEF Starting, Owning
  <2> QED BY <1>0, <2>1, <2>2, <2>3, MovesFollow, FollowsKeeps
<1>16. CASE Reload(p)
  BY <1>0, <1>16 DEF Reload, AloneInv, TypeOK, Past, Starting, Alive, Owning, Places, fileVars, Found, InUse, scanVars
<1>17. CASE Terminate(p)
  <2>1. Others(p) /\ UNCHANGED <<pidFile, seen, handle, foreground>>
    BY <1>17 DEF Terminate, Goto, Others, TypeOK, fileVars
  <2>2. Alive(p) /\ Alive(p)' /\ Past(p) /\ at[p] \in Owning /\ at'[p] \in Owning
    BY <1>17 DEF Terminate, Goto, Alive, Past, Places, Owning, TypeOK
  <2>3. ~Starting(p)' /\ at'[p] # "write"
    BY <2>2 DEF Starting, Owning
  <2> QED BY <1>0, <2>1, <2>2, <2>3, MovesFollow, FollowsKeeps
<1>18. CASE StopControl(p)
  <2>1. Others(p) /\ UNCHANGED <<pidFile, seen, handle, foreground>>
    BY <1>18 DEF StopControl, Goto, Others, TypeOK, fileVars
  <2>2. Alive(p) /\ Alive(p)' /\ Past(p) /\ at[p] \in Owning /\ at'[p] \in Owning
    BY <1>18 DEF StopControl, Goto, Alive, Past, Places, Owning, TypeOK
  <2>3. ~Starting(p)' /\ at'[p] # "write"
    BY <2>2 DEF Starting, Owning
  <2> QED BY <1>0, <2>1, <2>2, <2>3, MovesFollow, FollowsKeeps
<1>19. CASE StopDevices(p)
  <2>1. Others(p) /\ UNCHANGED <<pidFile, seen, handle, foreground>>
    BY <1>19 DEF StopDevices, Goto, Others, TypeOK, fileVars
  <2>2. Alive(p) /\ Alive(p)' /\ Past(p) /\ at[p] \in Owning /\ at'[p] \in Owning
    BY <1>19 DEF StopDevices, Goto, Alive, Past, Places, Owning, TypeOK
  <2>3. ~Starting(p)' /\ at'[p] # "write"
    BY <2>2 DEF Starting, Owning
  <2> QED BY <1>0, <2>1, <2>2, <2>3, MovesFollow, FollowsKeeps
<1>20. CASE RemovePid(p)
  <2>1. Others(p) /\ at[p] = "clean" /\ at'[p] = "destroy"
    BY <1>20 DEF RemovePid, Goto, Others, TypeOK
  <2>2. Past(p) /\ Alive(p) /\ Alive(p)'
    BY <2>1 DEF Alive, Past, Places
  <2>3. \A q \in Procs \ {p} : ~Past(q) /\ ~Starting(q)
    BY <1>0, <2>2 DEF AloneInv, Overlap
  <2> QED BY <1>0, <2>1, <2>2, <2>3, LonelyKeeps DEF Owning
<1>21. CASE Destroy(p)
  <2>1. Ends(p, "gone") /\ Alive(p) /\ (UNCHANGED pidFile \/ Past(p))
    BY <1>21 DEF Destroy, Alive, Past, Places, fileVars
  <2> QED BY <1>0, <2>1, EndsKeeps
<1>22. CASE Crash(p)
  <2>1. Ends(p, "dead") /\ Alive(p) /\ (UNCHANGED pidFile \/ Past(p))
    BY <1>22 DEF Crash, Alive, Past, Places, fileVars
  <2> QED BY <1>0, <2>1, EndsKeeps
<1>23. CASE ReusePid(p)
  BY <1>0, <1>23 DEF ReusePid, AloneInv, TypeOK, Past, Starting, Alive, Owning, Places, fileVars, Found, InUse, scanVars
<1>24. CASE FreePid(p)
  BY <1>0, <1>24 DEF FreePid, AloneInv, TypeOK, Past, Starting, Alive, Owning, Places, fileVars, Found, InUse, scanVars
<1> QED
  BY <1>1, <1>2, <1>3, <1>4, <1>5, <1>6, <1>7, <1>8, <1>9, <1>10, <1>11, <1>12, <1>13, <1>14, <1>15, <1>16, <1>17, <1>18, <1>19, <1>20, <1>21, <1>22, <1>23, <1>24 DEF Step

-----------------------------------------------------------------------------
(* Socket and devices                                                      *)

LEMMA ServedStep ==
  ASSUME TypeOK, MarksInv, AloneInv, ServedInv, NEW p \in Procs, Step(p), Chronicle,
         ~tangled'
  PROVE  ServedInv'
<1>0. ~tangled
  BY Zenon DEF Chronicle, TypeOK
<1>00. \A q \in Procs : Past(p) /\ Past(q) => p = q
  BY <1>0 DEF AloneInv
<1> USE <1>0, <1>00, StartupAssumption
    DEF TypeOK, MarksInv, ServedInv, Past, Places, ToGrab, scanVars, fileVars
<1>1. CASE Begin(p)
  BY <1>1 DEF Begin, Goto
<1>2. CASE ReadPid(p)
  BY <1>2 DEF ReadPid, Goto, AfterGuard
<1>3. CASE Refuse(p)
  BY <1>3 DEF Refuse, Ends, Goto
<1>4. CASE FindStale(p)
  BY <1>4 DEF FindStale, Goto
<1>5. CASE RemoveStale(p)
  BY <1>5 DEF RemoveStale, Goto, AfterGuard, NoFile, NoFile
<1>6. CASE OpenPid(p)
  BY <1>6 DEF OpenPid, Inode, Goto, NoFile
<1>7. CASE DaemonizeFails(p)
  BY <1>7 DEF DaemonizeFails, Ends, Goto
<1>8. CASE WritePid(p)
  BY <1>8 DEF WritePid, Written, Goto
<1>9. CASE ScanNode(p)
  BY <1>9 DEF ScanNode, Opened
<1>10. CASE ScanEnds(p)
  BY <1>10 DEF ScanEnds, Goto
<1>11. CASE GiveUp(p)
  BY <1>11 DEF GiveUp, Ends, Goto, NoFile
<1>12. CASE UnlinkSocket(p)
  <2>1. \A q \in Procs \ {p} : at[q] \notin {"devices", "run"}
    BY <1>00, <1>12 DEF UnlinkSocket
  <2>2. at'[p] \notin {"devices", "run"} /\ \A q \in Procs \ {p} : at'[q] = at[q]
    BY <1>12 DEF UnlinkSocket, Goto
  <2>3. \A q \in Procs : at'[q] \notin {"devices", "run"}
    BY <2>1, <2>2
  <2>4. \A q \in Procs : bound'[q] # NoPath =>
           at'[q] \in {"devices", "run", "stop", "close", "clean", "destroy"}
    BY <1>12 DEF UnlinkSocket, Goto
  <2> QED BY <2>3, <2>4
<1>13. CASE BindSocket(p)
  BY <1>13 DEF BindSocket, Goto
<1>14. CASE BindFails(p)
  BY <1>14 DEF BindFails, Goto
<1>15. CASE StartDevices(p)
  <2>1. \A q \in Procs \ {p} : at[q] \notin {"devices", "run", "stop", "close"}
    BY <1>00, <1>15 DEF StartDevices
  <2>2. \A n \in NodeIds : grabber[n] = NoProc
    BY <1>15, <2>1 DEF StartDevices
  <2>3. ASSUME NEW n \in ToGrab(p) PROVE n \in NodeIds
    BY <2>3
  <2>4. \A n \in ToGrab(p) : grabber'[n] = p
    BY <1>15, <2>2, <2>3 DEF StartDevices
  <2>5. ToGrab(p)' = ToGrab(p)
    BY <1>15 DEF StartDevices
  <2>6. \A q \in Procs : at'[q] = "run" => q = p
    BY <1>15, <2>1 DEF StartDevices, Goto
  <2>7. \A q \in Procs :
          /\ at'[q] \in {"devices", "run"} /\ bound'[q] # NoPath => socketFile'[bound'[q]] = q
          /\ bound'[q] # NoPath =>
               at'[q] \in {"devices", "run", "stop", "close", "clean", "destroy"}
    BY <1>15 DEF StartDevices, Goto
  <2> HIDE DEF ToGrab
  <2> QED BY <2>4, <2>5, <2>6, <2>7
<1>16. CASE Reload(p)
  BY <1>16 DEF Reload
<1>17. CASE Terminate(p)
  BY <1>17 DEF Terminate, Goto
<1>18. CASE StopControl(p)
  <2>1. \A q \in Procs \ {p} : at[q] \notin {"devices", "run"}
    BY <1>00, <1>18 DEF StopControl
  <2>2. at'[p] \notin {"devices", "run"} /\ \A q \in Procs \ {p} : at'[q] = at[q]
    BY <1>18 DEF StopControl, Goto
  <2>3. \A q \in Procs : at'[q] \notin {"devices", "run"}
    BY <2>1, <2>2
  <2>4. \A q \in Procs : bound'[q] # NoPath =>
           at'[q] \in {"devices", "run", "stop", "close", "clean", "destroy"}
    BY <1>18 DEF StopControl, Goto
  <2> QED BY <2>3, <2>4
<1>19. CASE StopDevices(p)
  BY <1>19 DEF StopDevices, Released, Goto
<1>20. CASE RemovePid(p)
  BY <1>20 DEF RemovePid, Goto, NoFile
<1>21. CASE Destroy(p)
  <2>1. \A q \in Procs \ {p} : at[q] \notin {"devices", "run"}
    BY <1>00, <1>21 DEF Destroy
  <2>2. at'[p] \notin {"devices", "run"} /\ \A q \in Procs \ {p} : at'[q] = at[q]
    BY <1>21 DEF Destroy, Goto, Ends
  <2>3. \A q \in Procs : at'[q] \notin {"devices", "run"}
    BY <2>1, <2>2
  <2>4. \A q \in Procs : bound'[q] # NoPath =>
           at'[q] \in {"devices", "run", "stop", "close", "clean", "destroy"}
    BY <1>21 DEF Destroy, Goto, Ends
  <2> QED BY <2>3, <2>4
<1>22. CASE Crash(p)
  BY <1>22 DEF Crash, Ends, Goto, Released
<1>23. CASE ReusePid(p)
  BY <1>23 DEF ReusePid
<1>24. CASE FreePid(p)
  BY <1>24 DEF FreePid
<1> QED
  BY <1>1, <1>2, <1>3, <1>4, <1>5, <1>6, <1>7, <1>8, <1>9, <1>10, <1>11, <1>12, <1>13, <1>14, <1>15, <1>16, <1>17, <1>18, <1>19, <1>20, <1>21, <1>22, <1>23, <1>24 DEF Step

-----------------------------------------------------------------------------
(* Scan                                                                    *)

\* Only ScanNode and the end of a process touch the scan.
LEMMA ScanStep ==
  ASSUME TypeOK, ScanInv, NEW p \in Procs, Step(p)
  PROVE  ScanInv'
<1>1. CASE UNCHANGED scanVars
  <2>1. UNCHANGED <<entries, next, failed>>
    BY <1>1 DEF scanVars
  <2> QED BY <2>1 DEF ScanInv, DevicesSettled
<1>2. CASE Ends(p, "gone") \/ Ends(p, "dead")
  <2>1. /\ entries' = [entries EXCEPT ![p] = NoEntries]
        /\ next' = [next EXCEPT ![p] = 1]
        /\ failed' = [failed EXCEPT ![p] = {}]
    BY <1>2 DEF Ends
  <2>2. /\ entries'[p] = NoEntries /\ next'[p] = 1 /\ failed'[p] = {}
        /\ \A q \in Procs \ {p} :
             entries'[q] = entries[q] /\ next'[q] = next[q] /\ failed'[q] = failed[q]
    BY <2>1 DEF TypeOK
  <2> QED BY <2>2, NothingSettled DEF ScanInv, DevicesSettled
<1>3. CASE ScanNode(p)
  <2> DEFINE n == next[p]
  <2>1. /\ n \in NodeIds /\ n \in Nat
        /\ next'[p] = n + 1
        /\ entries[p] \in [BlockIds -> {0} \cup NodeIds]
        /\ failed[p] \in SUBSET (1..(n - 1))
        /\ Settled(entries[p], n, failed[p])
    BY <1>3, ScanAssumption DEF ScanNode, TypeOK, ScanInv, DevicesSettled, NodeIds
  <2>2. \A q \in Procs \ {p} :
          entries'[q] = entries[q] /\ next'[q] = next[q] /\ failed'[q] = failed[q]
    BY <1>3 DEF ScanNode, Opened, TypeOK
  <2>3. Settled(entries'[p], next'[p], failed'[p]) /\ failed'[p] \subseteq 1..n
    <3>1. CASE UNCHANGED <<entries, failed>> /\ Candidates(entries[p], n) = {}
      BY <2>1, <3>1, SettledNone
    <3>2. CASE \E b \in BlockFor(entries[p], n) :
                 entries' = [entries EXCEPT ![p][b] = n] /\ UNCHANGED failed
      <4>1. PICK b \in BlockFor(entries[p], n) :
              entries' = [entries EXCEPT ![p][b] = n] /\ UNCHANGED failed
        BY <3>2
      <4>2. entries'[p] = [entries[p] EXCEPT ![b] = n] /\ failed'[p] = failed[p]
        BY <4>1 DEF TypeOK
      <4> QED BY <2>1, <4>2, SettledTaken
    <3>3. CASE failed' = [failed EXCEPT ![p] = @ \cup {n}] /\ UNCHANGED entries
      <4>1. failed'[p] = failed[p] \cup {n} /\ entries'[p] = entries[p]
        BY <3>3 DEF TypeOK
      <4>2. failed'[p] \subseteq 1..n
        BY <2>1, <4>1, ScanAssumption DEF NodeIds
      <4> QED BY <2>1, <4>1, <4>2, SettledFailed
    <3> QED BY <1>3, <3>1, <3>2, <3>3 DEF ScanNode, Opened
  <2>4. n = (n + 1) - 1
    BY <2>1
  <2> QED BY <2>1, <2>2, <2>3, <2>4 DEF ScanInv, DevicesSettled
<1> QED
  BY <1>1, <1>2, <1>3
  DEF Step, Begin, ReadPid, Refuse, FindStale, RemoveStale, OpenPid, DaemonizeFails,
      WritePid, ScanEnds, GiveUp, UnlinkSocket, BindSocket, BindFails, StartDevices,
      Reload, Terminate, StopControl, StopDevices, RemovePid, Destroy, Crash, ReusePid,
      FreePid

-----------------------------------------------------------------------------
(* Theorems                                                                *)

\* Before the first step only those that died earlier have left something.
LEMMA StartInvInit == Init => StartInv
<1> SUFFICES ASSUME Init PROVE StartInv
  OBVIOUS
<1>1. TypeOK
  BY TypeInit
<1>2. \A p \in Procs :
        /\ at[p] = IF p \in Crashed THEN "dead" ELSE "new"
        /\ seen[p] = NoProc /\ bound[p] = NoPath
  BY DEF Init
<1>3. MarksInv
  <2>1. \A p \in Procs : pidFile.pid = p => p \in Crashed
    BY StartupAssumption DEF Init, NoFile
  <2>2. \A s \in Paths, p \in Procs : socketFile[s] = p => p \in Crashed
    BY StartupAssumption DEF Init
  <2>3. \A n \in NodeIds : grabber[n] = NoProc
    BY DEF Init
  <2> QED BY <1>2, <2>1, <2>2, <2>3, StartupAssumption DEF MarksInv, After
<1>4. \A p \in Procs : ~Past(p) /\ ~Starting(p)
  BY <1>2 DEF Past, Starting
<1>5. ~Overlap
  BY <1>4, <1>2 DEF Overlap
<1>6. AloneInv
  BY <1>2, <1>4, <1>5 DEF AloneInv, Owning
<1>7. ServedInv
  BY <1>2 DEF ServedInv
<1>8. ScanInv
  BY NothingSettled DEF Init, ScanInv, DevicesSettled
<1> QED
  BY <1>1, <1>3, <1>6, <1>7, <1>8 DEF StartInv

\* Every step keeps it.
LEMMA StartInvNext == StartInv /\ [Next]_vars => StartInv'
<1> SUFFICES ASSUME StartInv, [Next]_vars PROVE StartInv'
  OBVIOUS
<1>1. CASE Next
  <2>1. PICK p \in Procs : Step(p) /\ Chronicle
    BY <1>1 DEF Next
  <2>2. TypeOK' /\ MarksInv' /\ ScanInv'
    BY <2>1, TypeStep, MarksStep, ScanStep DEF StartInv
  <2>3. CASE tangled'
    BY <2>2, <2>3 DEF StartInv, AloneInv, ServedInv
  <2>4. CASE ~tangled'
    <3>1. AloneInv'
      BY <2>1, <2>4, AloneStep DEF StartInv
    <3>2. ServedInv'
      BY <2>1, <2>4, ServedStep DEF StartInv
    <3> QED BY <2>2, <3>1, <3>2 DEF StartInv
  <2> QED BY <2>3, <2>4
<1>2. CASE UNCHANGED vars
  <2>1. TypeOK'
    BY <1>2 DEF StartInv, TypeOK, Alive, vars, scanVars, fileVars
  <2>2. MarksInv' /\ ServedInv'
    BY <1>2 DEF StartInv, MarksInv, ServedInv, ToGrab, vars, scanVars, fileVars
  <2>3. AloneInv'
    BY <1>2 DEF StartInv, AloneInv, Overlap, Past, Starting, Alive, vars, scanVars, fileVars
  <2>4. ScanInv'
    BY <1>2 DEF StartInv, ScanInv, DevicesSettled, vars, scanVars
  <2> QED BY <2>1, <2>2, <2>3, <2>4 DEF StartInv
<1> QED
  BY <1>1, <1>2

\* The inductive invariant holds always.
THEOREM StartInvariance == Spec => []StartInv
BY StartInvInit, StartInvNext, PTL DEF Spec

\* Every variable of the start-up model keeps its type (main.cpp, daemon.cpp).
THEOREM StartTypeCorrect == Spec => []TypeOK
<1>1. StartInv => TypeOK
  BY DEF StartInv
<1> QED BY <1>1, StartInvariance, PTL

\* However many processes are started, one after the other, crash, and lose their
\* numbers to strangers, at most one is past the guard, and the PID file shows it if
\* it is a daemon (daemon.cpp:88-120).
THEOREM OneInstanceAlways == Spec => []OneInstance
<1>1. StartInv => OneInstance
  BY DEF StartInv, AloneInv, OneInstance, Owning
<1> QED BY <1>1, StartInvariance, PTL

\* A lone instance keeps the name of its socket and its grabs as long as it runs
\* (control.cpp:56-106, devicemanager.cpp:186-219).
THEOREM InstancesServed == Spec => []InstanceServed
<1>1. StartInv => InstanceServed
  BY DEF StartInv, ServedInv, InstanceServed
<1> QED BY <1>1, StartInvariance, PTL

\* At most one process is past its guard, and the one that runs has its number in the
\* PID file, its socket under the name it was bound to and the grabs it asked for.
LoneInstance ==
  /\ \A p, q \in Procs : Past(p) /\ Past(q) => p = q
  /\ \A p \in Procs : at[p] = "run" =>
       /\ p \notin foreground => pidFile.pid = p
       /\ bound[p] # NoPath => socketFile[bound[p]] = p
       /\ \A n \in ToGrab(p) : grabber[n] = p

\* The history of the two theorems above is not needed when nobody starts the daemon
\* while another start, a foreground instance or the end of a daemon is under way:
\* the guard then keeps instances apart, through every crash, every stale file and
\* every number that comes back as a stranger's (main.cpp:109-121, daemon.cpp:88-120).
THEOREM SerialStartsAreAlone == Spec /\ []~Overlap => []LoneInstance
<1>1. Init => ~tangled
  BY DEF Init
<1>2. ~tangled /\ [Next]_vars /\ ~Overlap' => ~tangled'
  <2>1. UNCHANGED vars => tangled' = tangled
    BY DEF vars
  <2>2. Next => Chronicle
    BY DEF Next
  <2> QED BY <2>1, <2>2, Zenon DEF Chronicle
<1>3. StartInv /\ ~tangled => LoneInstance
  BY DEF StartInv, AloneInv, ServedInv, LoneInstance, Owning
<1> QED
  BY <1>1, <1>2, <1>3, StartInvariance, PTL DEF Spec

\* For any nodes and blocks, whichever nodes fail to open, open_all's assignment is
\* settled at each candidate (devicemanager.cpp:133-174).
THEOREM ScansSettled == Spec => []DevicesSettled
<1>1. StartInv => DevicesSettled
  BY DEF StartInv, ScanInv
<1> QED BY <1>1, StartInvariance, PTL

\* Two scans of the same nodes agree, for any nodes and blocks and whatever the
\* processes do besides: their assignments are both settled, and there is only one.
THEOREM ScansAlwaysAgree == Spec => []ScansAgree
<1>1. StartInv => ScansAgree
  <2> SUFFICES ASSUME StartInv, NEW p \in Procs, NEW q \in Procs,
                      next[p] = next[q], failed[p] = failed[q]
               PROVE  entries[p] = entries[q]
    BY DEF ScansAgree
  <2>1. /\ entries[p] \in [BlockIds -> {0} \cup NodeIds]
        /\ entries[q] \in [BlockIds -> {0} \cup NodeIds]
        /\ Settled(entries[p], next[p], failed[p])
        /\ Settled(entries[q], next[p], failed[p])
        /\ next[p] \in Nat
    BY ScanAssumption DEF StartInv, TypeOK, ScanInv, DevicesSettled
  <2> QED BY <2>1, SettledUnique
<1> QED BY <1>1, StartInvariance, PTL

\* A process that ends by itself leaves nothing of its own (main.cpp:133-164).
THEOREM CleanExits == Spec => CleanExit
<1> DEFINE Clean == \A p \in Procs : Alive(p) /\ at'[p] = "gone" =>
             /\ pidFile'.pid # p
             /\ \A n \in NodeIds : grabber'[n] # p
             /\ socketFile'[config[p]] # p
<1>1. StartInv /\ [Next]_vars => [Clean]_vars
  <2> SUFFICES ASSUME StartInv, Next, NEW p \in Procs, Alive(p), at'[p] = "gone"
               PROVE  /\ pidFile'.pid # p
                      /\ \A n \in NodeIds : grabber'[n] # p
                      /\ socketFile'[config[p]] # p
    BY DEF vars
  <2>1. PICK q \in Procs : Step(q)
    BY DEF Next
  <2>2. at \in [Procs -> Places] /\ config[p] \in Paths /\ p # NoProc
    BY StartupAssumption DEF StartInv, TypeOK
  <2>3. /\ pidFile.pid = p => at[p] \in After \ {"destroy", "gone"}
        /\ socketFile[config[p]] = p =>
             at[p] \in {"devices", "run", "stop", "close", "clean", "destroy", "gone", "dead"}
        /\ \A n \in NodeIds : grabber[n] = p => at[p] \in {"run", "stop", "close"}
    BY <2>2 DEF StartInv, MarksInv
  <2>4. q = p /\ (Refuse(p) \/ DaemonizeFails(p) \/ GiveUp(p) \/ Destroy(p))
    BY <2>1, <2>2
    DEF Step, Begin, ReadPid, Refuse, FindStale, RemoveStale, OpenPid, DaemonizeFails,
        WritePid, ScanNode, ScanEnds, GiveUp, UnlinkSocket, BindSocket, BindFails,
        StartDevices, Reload, Terminate, StopControl, StopDevices, RemovePid, Destroy,
        Crash, ReusePid, FreePid, Ends, Goto, AfterGuard, Alive
  <2>5. CASE Refuse(p)
    BY <2>2, <2>3, <2>5 DEF Refuse, After, fileVars
  <2>6. CASE DaemonizeFails(p)
    BY <2>2, <2>3, <2>6 DEF DaemonizeFails, After, fileVars
  <2>7. CASE GiveUp(p)
    BY <2>2, <2>3, <2>7 DEF GiveUp, NoFile
  <2>8. CASE Destroy(p)
    BY <2>2, <2>3, <2>8 DEF Destroy, WithoutName, StartInv, TypeOK
  <2> QED BY <2>4, <2>5, <2>6, <2>7, <2>8
<1>2. Clean <=> (\A p \in Procs : Alive(p) /\ at'[p] = "gone" =>
             /\ pidFile'.pid # p
             /\ \A n \in NodeIds : grabber'[n] # p
             /\ socketFile'[config[p]] # p)
  OBVIOUS
<1> QED
  BY <1>1, StartInvariance, PTL DEF Spec, CleanExit
=============================================================================
