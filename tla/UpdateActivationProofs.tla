------------------------ MODULE UpdateActivationProofs ------------------------
(***************************************************************************)
(* What the managed updater promises, proved for every set of updaters and    *)
(* versions, on every platform (UpdateActivation): wherever one is killed or   *)
(* the power fails there is a version to run and one to go back to, doubt      *)
(* about the version to run is covered by a barrier and costs no session, and  *)
(* doubt about the broker that runs is left uncovered by a rollback only.      *)
(***************************************************************************)
EXTENDS UpdateActivation, TLAPS

RootType == [current : Versions, previous : Versions \cup {None}, barrier : Phases \cup {None}]
Jobs == [target : Versions \cup {None}, from : Versions \cup {None}, required : BOOLEAN,
         token : BOOLEAN, says : Versions \cup {None}, doomed : SUBSET Versions]

\* The steps from the barrier on, until the barrier is gone or the job ends.
Barred == {"previous", "current", "restart", "health", "clear", "unlink", "rollback", "back",
           "rbRestart", "rbHealth", "diagnostic", "rbClear", "rbUnlink", "uncertain"}
\* The steps that may still move a pointer, or that trust the one they moved.
Moving == {"begin", "persist"} \cup (Barred \ {"uncertain"})
RolledBack == {"rbRestart", "rbHealth", "diagnostic", "rbClear", "rbUnlink"}

\* Where directories are synced nothing is left of older pointers once a barrier is gone.
PastSettled ==
    platform # "win32" /\ root.barrier = None =>
        \A r \in past : r.current = root.current /\ r.previous = root.previous

\* What an updater works on can be run, and what it goes back to has answered.
TargetsInv(p) ==
    pc[p] \in Moving =>
        /\ job[p].target \in Versions /\ versions[job[p].target] = "sealed"
        /\ job[p].from \in confirmed /\ job[p].from \in Versions /\ versions[job[p].from] = "sealed"

\* Where the pointers are at each step.
PointerInv(p) ==
    /\ pc[p] \in {"begin", "persist", "previous", "current"} => root.current = job[p].from
    /\ pc[p] = "current" => root.previous = job[p].from
    /\ pc[p] \in {"restart", "health", "clear", "unlink"} => root.current = job[p].target
    /\ pc[p] \in {"clear", "unlink"} => job[p].target \in confirmed
    /\ pc[p] \in RolledBack => root.current = job[p].from

\* Where the barrier is, and that the lease holds until it is there.
BarrierInv(p) ==
    /\ pc[p] \in {"begin", "persist"} => root.barrier = None
    /\ pc[p] \in {"previous", "current"} => root.barrier = "pending"
    /\ pc[p] = "persist" => lease = p /\ sessions = 0
    /\ pc[p] \in Barred => /\ root.barrier # None /\ reported = None
                           /\ platform # "win32" => \A r \in past : r.barrier # None
    /\ pc[p] \in {"unlink", "rbUnlink"} /\ platform # "win32" => past = {root}

\* What the updater is going to report.
SaysInv(p) ==
    /\ pc[p] \in {"begin", "persist"} => job[p].says = None
    /\ pc[p] \in RolledBack \ {"rbRestart"} => job[p].says = job[p].from
    /\ pc[p] = "end" /\ job[p].says # None /\ platform # "win32" =>
          \A r \in past : r.current = job[p].says \/ r.barrier # None

\* Nobody looks at the version an updater prepares, and no pointer names one it removes.
DirectoryInv(p) ==
    /\ pc[p] = "staging" => job[p].target \in Versions /\ versions[job[p].target] = "absent"
    /\ pc[p] = "sealing" => job[p].target \in Versions /\ versions[job[p].target] = "unsealed"
    /\ pc[p] = "pruning" => /\ platform # "win32" /\ root.barrier = None
                            /\ root.current \notin job[p].doomed /\ root.previous \notin job[p].doomed

JobInv(p) == TargetsInv(p) /\ PointerInv(p) /\ BarrierInv(p) /\ SaysInv(p) /\ DirectoryInv(p)

UpdateInv == PointersSound /\ DoubtCovered /\ PastSettled /\ \A p \in Updaters : JobInv(p)

-----------------------------------------------------------------------------
(* The invariant, said of the roots one by one.                             *)

\* What holds of each root that a power loss may leave.
RootInv(r) ==
    /\ r \in RootType
    /\ versions[r.current] = "sealed" /\ (r.previous # None => versions[r.previous] = "sealed")
    /\ r.current \in confirmed \/ r.previous \in confirmed
    /\ r.barrier \in {None, "completion-confirmed"} => r.current \in confirmed
    /\ reported # None /\ platform # "win32" => r.current = reported \/ r.barrier # None

RestType ==
    /\ root \in past
    /\ versions \in [Versions -> {"absent", "unsealed", "sealed"}]
    /\ broker \in Good \cup {None} /\ lease \in Updaters \cup {None} /\ sessions \in 0..MaxSessions
    /\ confirmed \subseteq Good /\ reported \in Versions \cup {None}

\* One updater at a time has a job.
LockInv ==
    /\ lock \in Updaters \cup {None, Stale}
    /\ pc \in [Updaters -> Steps] /\ job \in [Updaters -> Jobs]
    /\ \A p \in Updaters : pc[p] # "idle" <=> lock = p

\* The invariant, part by part.
LEMMA Parts ==
    ASSUME UpdateInv
    PROVE  /\ \A r \in past : RootInv(r)
           /\ RestType /\ LockInv /\ SessionsUndisturbed /\ PastSettled
           /\ \A p \in Updaters : JobInv(p)
<1>1. \A r \in past : r \in Roots /\ r \in RootType
  BY DEF UpdateInv, PointersSound, TypeOK, Roots, RootType
<1>2. ASSUME NEW r \in past PROVE RootInv(r)
  <2>1. versions[r.current] = "sealed" /\ (r.previous # None => versions[r.previous] = "sealed")
    BY <1>1, UpdateAssumption DEF UpdateInv, PointersSound, PointersPrepared, RootType
  <2>2. r.current \in confirmed \/ r.previous \in confirmed
    BY <1>1 DEF UpdateInv, PointersSound, WayBack
  <2>3. r.barrier \in {None, "completion-confirmed"} => r.current \in confirmed
    BY <1>1 DEF UpdateInv, DoubtCovered, BarrierCoversDoubt
  <2>4. reported # None /\ platform # "win32" => r.current = reported \/ r.barrier # None
    BY <1>1 DEF UpdateInv, PointersSound, ReportDurable
  <2> QED BY <1>1, <2>1, <2>2, <2>3, <2>4 DEF RootInv
<1>3. RestType /\ LockInv
  BY DEF UpdateInv, PointersSound, TypeOK, RestType, LockInv, Jobs
<1> QED BY <1>2, <1>3 DEF UpdateInv, DoubtCovered

\* And put together again after a step.
LEMMA Together ==
    ASSUME \A r \in past' : RootInv(r)', RestType', LockInv', SessionsUndisturbed', PastSettled',
           \A p \in Updaters : JobInv(p)'
    PROVE  UpdateInv'
<1>1. \A r \in Roots' : r \in past'
  BY DEF Roots, RestType
<1>2. TypeOK'
  BY <1>1 DEF TypeOK, RestType, LockInv, Jobs, RootInv, RootType
<1>3. PointersPrepared'
  BY <1>1 DEF PointersPrepared, RootInv
<1>4. WayBack'
  BY <1>1 DEF WayBack, RootInv
<1>5. ReportDurable'
  BY <1>1 DEF ReportDurable, RootInv
<1>6. BarrierCoversDoubt'
  BY <1>1 DEF BarrierCoversDoubt, RootInv
<1> QED BY <1>2, <1>3, <1>4, <1>5, <1>6 DEF UpdateInv, PointersSound, DoubtCovered

-----------------------------------------------------------------------------
(* Lemmas on the lock, the jobs and the roots.                              *)

\* While one updater works the others are idle.
LEMMA OneWorks ==
    ASSUME LockInv, NEW p \in Updaters, pc[p] # "idle"
    PROVE  lock = p /\ \A q \in Updaters \ {p} : pc[q] = "idle"
BY DEF LockInv

\* Nothing is asked of an idle updater.
LEMMA IdleAfter ==
    ASSUME NEW q \in Updaters, pc'[q] = "idle"
    PROVE  JobInv(q)'
BY DEF JobInv, TargetsInv, PointerInv, BarrierInv, SaysInv, DirectoryInv, Moving, Barred, RolledBack

\* A step to another place keeps the lock; only this updater's job is in question.
LEMMA Goes ==
    ASSUME LockInv, NEW p \in Updaters, NEW step \in Steps \ {"idle"}, pc[p] # "idle",
           Goto(p, step), lock' = lock, job' \in [Updaters -> Jobs]
    PROVE  /\ LockInv' /\ pc'[p] = step
           /\ \A q \in Updaters \ {p} : JobInv(q)'
<1>1. pc' \in [Updaters -> Steps] /\ pc'[p] = step /\ \A q \in Updaters \ {p} : pc'[q] = pc[q]
  BY DEF LockInv, Goto
<1>2. \A q \in Updaters \ {p} : pc'[q] = "idle"
  BY <1>1, OneWorks
<1>3. LockInv'
  BY <1>1, <1>2, OneWorks DEF LockInv
<1> QED BY <1>1, <1>2, <1>3, IdleAfter

\* Without a job.
LEMMA NoJobTyped == NoJob \in Jobs /\ NoJob.says = None /\ NoJob.doomed = {}
BY DEF NoJob, Jobs

\* The end of a job leaves everybody idle.
LEMMA Releases ==
    ASSUME LockInv, NEW p \in Updaters, pc[p] # "idle", Release(p)
    PROVE  LockInv' /\ \A q \in Updaters : JobInv(q)'
<1>1. pc' \in [Updaters -> Steps] /\ \A q \in Updaters : pc'[q] = "idle"
  BY OneWorks DEF LockInv, Release, Goto, Steps
<1>2. job' \in [Updaters -> Jobs]
  BY NoJobTyped DEF LockInv, Release
<1>3. LockInv'
  BY <1>1, <1>2, UpdateAssumption DEF LockInv, Release
<1> QED BY <1>1, <1>3, IdleAfter

\* A root that is not written stays what it was.
LEMMA RootKept ==
    ASSUME NEW r, RootInv(r), versions' = versions, platform' = platform,
           confirmed \subseteq confirmed', reported' \in {reported, None}
    PROVE  RootInv(r)'
BY DEF RootInv

\* A root with another barrier.
LEMMA BarrierSet ==
    ASSUME NEW r \in RootType, NEW b \in Phases \cup {None}
    PROVE  /\ [r EXCEPT !.barrier = b] \in RootType
           /\ [r EXCEPT !.barrier = b].barrier = b
           /\ [r EXCEPT !.barrier = b].current = r.current
           /\ [r EXCEPT !.barrier = b].previous = r.previous
BY DEF RootType

\* A root with another pointer.
LEMMA PointerSet ==
    ASSUME NEW r \in RootType, NEW v \in Versions
    PROVE  /\ [r EXCEPT !["current"] = v] \in RootType
           /\ [r EXCEPT !["current"] = v].barrier = r.barrier
           /\ [r EXCEPT !["current"] = v].current = v
           /\ [r EXCEPT !["current"] = v].previous = r.previous
           /\ [r EXCEPT !["previous"] = v] \in RootType
           /\ [r EXCEPT !["previous"] = v].barrier = r.barrier
           /\ [r EXCEPT !["previous"] = v].current = r.current
           /\ [r EXCEPT !["previous"] = v].previous = v
BY DEF RootType

\* Writing the barrier keeps the pointers, and where it succeeds on a system that syncs
\* its directories nothing older is left.
LEMMA BarrierWritten ==
    ASSUME RestType, \A r \in past : RootInv(r), NEW b \in Phases,
           Persists(b) \/ PersistFails(b),
           b = "completion-confirmed" => root.current \in confirmed,
           versions' = versions, platform' = platform, confirmed' = confirmed,
           reported' \in {reported, None}
    PROVE  /\ root'.current = root.current /\ root'.previous = root.previous
           /\ root'.barrier \in {root.barrier, b}
           /\ root' \in past' /\ past' \subseteq past \cup {root'}
           /\ \A r \in past' : RootInv(r)'
           /\ Persists(b) => root'.barrier = b /\ (platform # "win32" => past' = {root'})
<1> DEFINE n == [root EXCEPT !.barrier = b]
<1>1. root \in RootType /\ RootInv(root) /\ root \in past
  BY DEF RestType, RootInv
<1>2. n \in RootType /\ n.barrier = b /\ n.current = root.current /\ n.previous = root.previous
  BY <1>1, BarrierSet
<1>3. root' \in {n, root} /\ root' \in past' /\ past' \subseteq past \cup {root'}
  BY <1>1 DEF Persists, PersistFails, Changes
<1>4. Persists(b) => root' = n /\ (platform # "win32" => past' = {root'})
  BY DEF Persists
<1> HIDE DEF n
<1>5. b # None
  BY UpdateAssumption
<1>6. root' = n => RootInv(root)'
  BY <1>1, <1>2, <1>5 DEF RootInv
<1>7. \A r \in past : RootInv(r)'
  BY RootKept
<1> QED BY <1>1, <1>2, <1>3, <1>4, <1>6, <1>7

\* Behind a barrier no session is open, and nothing is asked of older roots.
LEMMA StillBarred ==
    ASSUME root'.barrier # None, sessions \in 0..MaxSessions, SessionsUndisturbed,
           sessions' \in {sessions, 0}, root.barrier # None \/ sessions = 0
    PROVE  SessionsUndisturbed' /\ PastSettled'
BY DEF SessionsUndisturbed, PastSettled

\* A job begins where nobody has one.
LEMMA Begins ==
    ASSUME LockInv, NEW p \in Updaters, NEW step \in Steps \ {"idle"}, NEW j \in Jobs, Start(p, step, j)
    PROVE  /\ LockInv' /\ pc'[p] = step /\ job'[p] = j
           /\ \A q \in Updaters \ {p} : JobInv(q)'
<1>1. /\ pc' \in [Updaters -> Steps] /\ pc'[p] = step /\ job' \in [Updaters -> Jobs] /\ job'[p] = j
      /\ \A q \in Updaters \ {p} : pc'[q] = pc[q]
  BY DEF LockInv, Start, Goto
<1>2. \A q \in Updaters : pc[q] = "idle"
  BY UpdateAssumption DEF LockInv, Start
<1>3. LockInv'
  BY <1>1, <1>2 DEF LockInv, Start
<1> QED BY <1>1, <1>2, <1>3, IdleAfter

-----------------------------------------------------------------------------
(* The activation.                                                          *)

\* What is admitted was looked at under the lock.
LEMMA ActivateKeeps ==
    ASSUME UpdateInv, NEW p \in Updaters, NEW v \in Versions, ActivateAdmitted(p, v)
    PROVE  UpdateInv'
<1> DEFINE j == [NoJob EXCEPT !.target = v, !.from = root.current]
<1>1. RestType /\ LockInv /\ SessionsUndisturbed /\ PastSettled /\ RootInv(root) /\ root \in RootType
  BY Parts DEF RestType, RootInv
<1>2. j \in Jobs /\ j.target = v /\ j.from = root.current /\ j.says = None
  BY <1>1 DEF Jobs, NoJob, RootType
<1> HIDE DEF j
<1>3. LockInv' /\ pc'[p] = "begin" /\ job'[p] = j /\ \A q \in Updaters \ {p} : JobInv(q)'
  BY <1>1, <1>2, Begins DEF ActivateAdmitted, j, Steps
<1>4. UNCHANGED <<rootVars, versions, brokerVars, machine>>
  BY DEF ActivateAdmitted
<1>5. JobInv(p)'
  <2>1. TargetsInv(p)'
    BY <1>1, <1>2, <1>3, <1>4 DEF TargetsInv, ActivateAdmitted, RootInv, RootType, rootVars, machine
  <2>2. PointerInv(p)' /\ BarrierInv(p)' /\ SaysInv(p)' /\ DirectoryInv(p)'
    BY <1>2, <1>3, <1>4 DEF PointerInv, BarrierInv, SaysInv, DirectoryInv, Barred, RolledBack,
            ActivateAdmitted, rootVars
  <2> QED BY <2>1, <2>2 DEF JobInv
<1>6. \A r \in past' : RootInv(r)'
  BY <1>4, Parts, RootKept DEF rootVars, machine
<1>7. RestType' /\ SessionsUndisturbed' /\ PastSettled'
  BY <1>1, <1>4 DEF RestType, SessionsUndisturbed, PastSettled, rootVars, brokerVars, machine
<1> QED BY <1>3, <1>5, <1>6, <1>7, Together

\* The lease is granted to an idle broker, and while it holds no session opens.
LEMMA BeginKeeps ==
    ASSUME UpdateInv, NEW p \in Updaters, UpdateBegun(p)
    PROVE  UpdateInv'
<1>1. RestType /\ LockInv /\ SessionsUndisturbed /\ PastSettled /\ JobInv(p)
  BY Parts
<1>2. /\ job' \in [Updaters -> Jobs]
      /\ job'[p].target = job[p].target /\ job'[p].from = job[p].from /\ job'[p].says = job[p].says
  <2>1. ASSUME NEW j \in Jobs
        PROVE  /\ [j EXCEPT !.token = TRUE] \in Jobs
               /\ [j EXCEPT !.token = TRUE].target = j.target
               /\ [j EXCEPT !.token = TRUE].from = j.from
               /\ [j EXCEPT !.token = TRUE].says = j.says
    BY DEF Jobs
  <2> QED BY <1>1, <2>1 DEF LockInv, UpdateBegun
<1>3. LockInv' /\ pc'[p] = "persist" /\ \A q \in Updaters \ {p} : JobInv(q)'
  BY <1>1, <1>2, Goes DEF UpdateBegun, Steps
<1>4. JobInv(p)'
  BY <1>1, <1>2, <1>3 DEF UpdateBegun, JobInv, TargetsInv, PointerInv, BarrierInv, SaysInv, DirectoryInv,
          Moving, Barred, RolledBack, rootVars, machine
<1>5. \A r \in past' : RootInv(r)'
  BY Parts, RootKept DEF UpdateBegun, rootVars, machine
<1>6. RestType' /\ SessionsUndisturbed' /\ PastSettled'
  BY <1>1 DEF UpdateBegun, RestType, SessionsUndisturbed, PastSettled, rootVars, machine
<1> QED BY <1>3, <1>4, <1>5, <1>6, Together

\* A refusal ends the job with nothing touched.
LEMMA RefusedKeeps ==
    ASSUME UpdateInv, NEW p \in Updaters, UpdateRefused(p)
    PROVE  UpdateInv'
<1>1. RestType /\ LockInv /\ SessionsUndisturbed /\ PastSettled
  BY Parts
<1>2. LockInv' /\ \A q \in Updaters : JobInv(q)'
  BY <1>1, Releases DEF UpdateRefused
<1>3. \A r \in past' : RootInv(r)'
  BY Parts, RootKept DEF UpdateRefused, rootVars, machine
<1>4. RestType' /\ SessionsUndisturbed' /\ PastSettled'
  BY <1>1 DEF UpdateRefused, RestType, SessionsUndisturbed, PastSettled, rootVars, brokerVars, machine
<1> QED BY <1>2, <1>3, <1>4, Together

\* The barrier stands before anything is touched, and no session is open behind it.
LEMMA PendingKeeps ==
    ASSUME UpdateInv, NEW p \in Updaters, Pending(p)
    PROVE  UpdateInv'
<1>1. /\ RestType /\ LockInv /\ SessionsUndisturbed /\ PastSettled /\ JobInv(p)
      /\ \A r \in past : RootInv(r)
  BY Parts
<1>2. pc[p] = "persist" /\ sessions = 0 /\ UNCHANGED <<versions, brokerVars, lock, platform, confirmed>>
  BY <1>1 DEF Pending, JobInv, BarrierInv
<1>3. Persists("pending") \/ PersistFails("pending")
  BY DEF Pending
<1>4. "pending" \in Phases /\ "pending" # "completion-confirmed" /\ "pending" # None
  BY UpdateAssumption DEF Phases
<1>5. reported' \in {reported, None}
  BY DEF Pending
<1>6. /\ root'.current = root.current /\ root'.previous = root.previous
      /\ root'.barrier \in {root.barrier, "pending"}
      /\ root' \in past' /\ past' \subseteq past \cup {root'}
      /\ \A r \in past' : RootInv(r)'
      /\ Persists("pending") => root'.barrier = "pending" /\ (platform # "win32" => past' = {root'})
  BY <1>1, <1>2, <1>3, <1>4, <1>5, BarrierWritten
<1>7. RestType'
  BY <1>1, <1>2, <1>5, <1>6 DEF RestType, brokerVars
<1>8. SessionsUndisturbed' /\ PastSettled'
  <2>1. SessionsUndisturbed'
    BY <1>1, <1>2 DEF SessionsUndisturbed, brokerVars
  <2>2. root'.barrier = None => root.barrier = None
    BY <1>4, <1>6
  <2>3. PastSettled'
    BY <1>1, <1>2, <1>6, <2>2 DEF PastSettled
  <2> QED BY <2>1, <2>3
<1>9. LockInv' /\ \A q \in Updaters : JobInv(q)'
  <2>1. CASE /\ Persists("pending") /\ Goto(p, "previous")
             /\ job' = [job EXCEPT ![p].required = TRUE] /\ reported' = None
    <3>1. /\ job' \in [Updaters -> Jobs]
          /\ job'[p].target = job[p].target /\ job'[p].from = job[p].from /\ job'[p].says = job[p].says
      <4>1. ASSUME NEW j \in Jobs
            PROVE  /\ [j EXCEPT !.required = TRUE] \in Jobs
                   /\ [j EXCEPT !.required = TRUE].target = j.target
                   /\ [j EXCEPT !.required = TRUE].from = j.from
                   /\ [j EXCEPT !.required = TRUE].says = j.says
        BY DEF Jobs
      <4> QED BY <1>1, <2>1, <4>1 DEF LockInv
    <3>2. LockInv' /\ pc'[p] = "previous" /\ \A q \in Updaters \ {p} : JobInv(q)'
      BY <1>1, <1>2, <2>1, <3>1, Goes DEF Steps
    <3>3. JobInv(p)'
      BY <1>1, <1>2, <1>4, <1>6, <2>1, <3>1, <3>2 DEF JobInv, TargetsInv, PointerInv, BarrierInv, SaysInv,
              DirectoryInv, Moving, Barred, RolledBack
    <3> QED BY <3>2, <3>3
  <2>2. CASE PersistFails("pending") /\ Goto(p, "end") /\ UNCHANGED <<job, reported>>
    <3>1. LockInv' /\ pc'[p] = "end" /\ \A q \in Updaters \ {p} : JobInv(q)'
      BY <1>1, <1>2, <2>2, Goes DEF Steps, LockInv
    <3>2. job[p].says = None /\ job' = job
      BY <1>1, <1>2, <2>2 DEF JobInv, SaysInv
    <3>3. JobInv(p)'
      BY <2>2, <3>1, <3>2 DEF JobInv, TargetsInv, PointerInv, BarrierInv, SaysInv,
              DirectoryInv, Moving, Barred, RolledBack
    <3> QED BY <3>1, <3>3
  <2> QED BY <2>1, <2>2 DEF Pending
<1> QED BY <1>6, <1>7, <1>8, <1>9, Together

\* What a step says that leaves the managed root alone.
LEMMA RootsStay ==
    ASSUME RestType, \A r \in past : RootInv(r), SessionsUndisturbed, PastSettled,
           UNCHANGED <<root, past, versions, platform>>,
           confirmed \subseteq confirmed', reported' \in {reported, None}, sessions' \in {sessions, 0}
    PROVE  (\A r \in past' : RootInv(r)') /\ SessionsUndisturbed' /\ PastSettled' /\ root' \in past'
<1>1. \A r \in past' : RootInv(r)'
  BY RootKept
<1>2. SessionsUndisturbed' /\ PastSettled' /\ root' \in past'
  BY DEF RestType, SessionsUndisturbed, PastSettled
<1> QED BY <1>1, <1>2

\* What is known of an updater behind its barrier.
LEMMA BehindBarrier ==
    ASSUME UpdateInv, NEW p \in Updaters, pc[p] \in Barred
    PROVE  /\ RestType /\ LockInv /\ SessionsUndisturbed /\ PastSettled /\ JobInv(p)
           /\ \A r \in past : RootInv(r)
           /\ root.barrier # None /\ reported = None /\ (platform # "win32" => \A r \in past : r.barrier # None)
           /\ job[p] \in Jobs /\ root \in RootType /\ root \in past /\ pc[p] # "idle"
BY Parts DEF JobInv, BarrierInv, LockInv, RestType, RootInv, Barred

\* A pointer that moved names a version that can be run, and the other one that answered.
LEMMA PointerMoved ==
    ASSUME RestType, \A r \in past : RootInv(r), NEW v \in Versions, NEW name \in {"current", "previous"},
           root.barrier # None, reported = None, SessionsUndisturbed,
           versions[v] = "sealed",
           IF name = "current" THEN v \in confirmed \/ (root.previous \in confirmed /\ root.barrier = "pending")
           ELSE root.current \in confirmed,
           Changes([root EXCEPT ![name] = v]),
           UNCHANGED <<versions, platform, confirmed, reported, sessions>>
    PROVE  /\ root'.barrier = root.barrier
           /\ name = "current" => root'.current = v
           /\ name = "previous" => root'.previous = v /\ root'.current = root.current
           /\ root' \in past' /\ past' = past \cup {root'}
           /\ \A r \in past' : RootInv(r)'
           /\ SessionsUndisturbed' /\ PastSettled'
<1> DEFINE n == [root EXCEPT ![name] = v]
<1>1. root \in RootType /\ RootInv(root) /\ root \in past
  BY DEF RestType, RootInv
<1>2. /\ n \in RootType /\ n.barrier = root.barrier
      /\ name = "current" => n.current = v /\ n.previous = root.previous
      /\ name = "previous" => n.previous = v /\ n.current = root.current
  <2>1. CASE name = "current"
    <3>1. n = [root EXCEPT !["current"] = v]
      BY <2>1
    <3> HIDE DEF n
    <3> QED BY <1>1, <2>1, <3>1, PointerSet
  <2>2. CASE name = "previous"
    <3>1. n = [root EXCEPT !["previous"] = v]
      BY <2>2
    <3> HIDE DEF n
    <3> QED BY <1>1, <2>2, <3>1, PointerSet
  <2> QED BY <2>1, <2>2
<1>3. root' = n /\ past' = past \cup {root'}
  BY DEF Changes
<1> HIDE DEF n
<1>4. RootInv(root)'
  <2>1. CASE name = "current"
    <3>1. root'.barrier \in {None, "completion-confirmed"} => root'.current \in confirmed'
      BY <1>2, <1>3, <2>1 DEF RootInv
    <3> QED BY <1>1, <1>2, <1>3, <2>1, <3>1 DEF RootInv
  <2>2. CASE name = "previous"
    BY <1>1, <1>2, <1>3, <2>2 DEF RootInv
  <2> QED BY <2>1, <2>2
<1>5. \A r \in past : RootInv(r)'
  BY RootKept
<1>6. SessionsUndisturbed' /\ PastSettled'
  BY <1>2, <1>3 DEF SessionsUndisturbed, PastSettled
<1> QED BY <1>2, <1>3, <1>4, <1>5, <1>6

\* The pointer that failed to move is where it was.
LEMMA PointFails ==
    ASSUME UpdateInv, NEW p \in Updaters, pc[p] \in Barred, UNCHANGED rootVars, Goto(p, "uncertain"),
           UNCHANGED <<versions, brokerVars, lock, job, machine>>
    PROVE  UpdateInv'
<1>1. /\ RestType /\ LockInv /\ SessionsUndisturbed /\ PastSettled /\ JobInv(p)
      /\ \A r \in past : RootInv(r)
      /\ root.barrier # None /\ reported = None /\ (platform # "win32" => \A r \in past : r.barrier # None)
      /\ pc[p] # "idle"
  BY BehindBarrier
<1>2. (\A r \in past' : RootInv(r)') /\ SessionsUndisturbed' /\ PastSettled'
  BY <1>1, RootsStay DEF rootVars, brokerVars, machine
<1>3. LockInv' /\ pc'[p] = "uncertain" /\ \A q \in Updaters \ {p} : JobInv(q)'
  BY <1>1, Goes DEF Steps, LockInv
<1>4. JobInv(p)'
  BY <1>1, <1>3 DEF JobInv, TargetsInv, PointerInv, BarrierInv, SaysInv, DirectoryInv, Moving, Barred,
          RolledBack, rootVars, machine
<1>5. RestType'
  BY <1>1 DEF RestType, rootVars, brokerVars, machine
<1> QED BY <1>2, <1>3, <1>4, <1>5, Together

\* The pointer to what there is to go back to.
LEMMA PointPreviousKeeps ==
    ASSUME UpdateInv, NEW p \in Updaters, PointPrevious(p)
    PROVE  UpdateInv'
<1>1. pc[p] = "previous" /\ UNCHANGED <<versions, brokerVars, lock, job, machine>>
  BY DEF PointPrevious, Point
<1>2. /\ RestType /\ LockInv /\ SessionsUndisturbed /\ PastSettled /\ JobInv(p)
      /\ \A r \in past : RootInv(r)
      /\ root.barrier # None /\ reported = None /\ (platform # "win32" => \A r \in past : r.barrier # None)
      /\ pc[p] # "idle"
  BY <1>1, BehindBarrier DEF Barred
<1>3. CASE Changes([root EXCEPT !["previous"] = job[p].from]) /\ Goto(p, "current")
  <2>1. /\ job[p].from \in Versions /\ versions[job[p].from] = "sealed" /\ job[p].from \in confirmed
        /\ root.current = job[p].from
        /\ job[p].target \in Versions /\ versions[job[p].target] = "sealed" /\ root.barrier = "pending"
    BY <1>1, <1>2 DEF JobInv, TargetsInv, PointerInv, BarrierInv, Moving, Barred
  <2>2. /\ root'.barrier = root.barrier /\ root'.previous = job[p].from /\ root'.current = root.current
        /\ root' \in past' /\ past' = past \cup {root'}
        /\ (\A r \in past' : RootInv(r)') /\ SessionsUndisturbed' /\ PastSettled'
    BY <1>1, <1>2, <1>3, <2>1, PointerMoved DEF brokerVars, machine
  <2>3. LockInv' /\ pc'[p] = "current" /\ \A q \in Updaters \ {p} : JobInv(q)'
    BY <1>1, <1>2, <1>3, Goes DEF Steps, LockInv
  <2>4. JobInv(p)'
    BY <1>1, <1>2, <2>1, <2>2, <2>3 DEF JobInv, TargetsInv, PointerInv, BarrierInv, SaysInv,
            DirectoryInv, Moving, Barred, RolledBack, machine
  <2>5. RestType'
    BY <1>1, <1>2, <2>2 DEF RestType, brokerVars, machine
  <2> QED BY <2>2, <2>3, <2>4, <2>5, Together
<1>4. CASE UNCHANGED rootVars /\ Goto(p, "uncertain")
  BY <1>1, <1>4, PointFails DEF Barred
<1> QED BY <1>3, <1>4 DEF PointPrevious, Point

\* The pointer to what runs next.
LEMMA PointCurrentKeeps ==
    ASSUME UpdateInv, NEW p \in Updaters, PointCurrent(p)
    PROVE  UpdateInv'
<1>1. pc[p] = "current" /\ UNCHANGED <<versions, brokerVars, lock, job, machine>>
  BY DEF PointCurrent, Point
<1>2. /\ RestType /\ LockInv /\ SessionsUndisturbed /\ PastSettled /\ JobInv(p)
      /\ \A r \in past : RootInv(r)
      /\ root.barrier # None /\ reported = None /\ (platform # "win32" => \A r \in past : r.barrier # None)
      /\ pc[p] # "idle"
  BY <1>1, BehindBarrier DEF Barred
<1>3. CASE Changes([root EXCEPT !["current"] = job[p].target]) /\ Goto(p, "restart")
  <2>1. /\ job[p].from \in Versions /\ versions[job[p].from] = "sealed" /\ job[p].from \in confirmed
        /\ root.previous = job[p].from
        /\ job[p].target \in Versions /\ versions[job[p].target] = "sealed" /\ root.barrier = "pending"
    BY <1>1, <1>2 DEF JobInv, TargetsInv, PointerInv, BarrierInv, Moving, Barred
  <2>2. /\ root'.barrier = root.barrier /\ root'.current = job[p].target
        /\ root' \in past' /\ past' = past \cup {root'}
        /\ (\A r \in past' : RootInv(r)') /\ SessionsUndisturbed' /\ PastSettled'
    BY <1>1, <1>2, <1>3, <2>1, PointerMoved DEF brokerVars, machine
  <2>3. LockInv' /\ pc'[p] = "restart" /\ \A q \in Updaters \ {p} : JobInv(q)'
    BY <1>1, <1>2, <1>3, Goes DEF Steps, LockInv
  <2>4. JobInv(p)'
    BY <1>1, <1>2, <2>1, <2>2, <2>3 DEF JobInv, TargetsInv, PointerInv, BarrierInv, SaysInv,
            DirectoryInv, Moving, Barred, RolledBack, machine
  <2>5. RestType'
    BY <1>1, <1>2, <2>2 DEF RestType, brokerVars, machine
  <2> QED BY <2>2, <2>3, <2>4, <2>5, Together
<1>4. CASE UNCHANGED rootVars /\ Goto(p, "uncertain")
  BY <1>1, <1>4, PointFails DEF Barred
<1> QED BY <1>3, <1>4 DEF PointCurrent, Point

-----------------------------------------------------------------------------
(* Steps behind the barrier, but for what they mean to the updater itself.  *)

\* A step that leaves the managed root alone.
LEMMA StepsBehind ==
    ASSUME UpdateInv, NEW p \in Updaters, pc[p] \in Barred, NEW step \in Steps \ {"idle"}, Goto(p, step),
           UNCHANGED <<root, past, versions, lock, platform, reported>>, job' \in [Updaters -> Jobs],
           confirmed \subseteq confirmed', confirmed' \subseteq Good, sessions' \in {sessions, 0},
           broker' \in Good \cup {None}, lease' \in Updaters \cup {None}
    PROVE  /\ (\A r \in past' : RootInv(r)') /\ RestType' /\ LockInv' /\ SessionsUndisturbed' /\ PastSettled'
           /\ pc'[p] = step /\ \A q \in Updaters \ {p} : JobInv(q)'
<1>1. /\ RestType /\ LockInv /\ SessionsUndisturbed /\ PastSettled
      /\ (\A r \in past : RootInv(r)) /\ pc[p] # "idle"
  BY BehindBarrier
<1>2. (\A r \in past' : RootInv(r)') /\ SessionsUndisturbed' /\ PastSettled'
  BY <1>1, RootsStay
<1>3. LockInv' /\ pc'[p] = step /\ \A q \in Updaters \ {p} : JobInv(q)'
  BY <1>1, Goes
<1>4. RestType'
  <2>1. sessions' \in 0..MaxSessions
    BY <1>1, UpdateAssumption DEF RestType
  <2> QED BY <1>1, <2>1 DEF RestType
<1> QED BY <1>2, <1>3, <1>4

\* A step that writes the barrier.
LEMMA WritesBehind ==
    ASSUME UpdateInv, NEW p \in Updaters, pc[p] \in Barred, NEW step \in Steps \ {"idle"}, Goto(p, step),
           NEW b \in Phases, Persists(b) \/ PersistFails(b),
           b = "completion-confirmed" => root.current \in confirmed,
           UNCHANGED <<versions, brokerVars, lock, job, machine>>
    PROVE  /\ (\A r \in past' : RootInv(r)') /\ RestType' /\ LockInv' /\ SessionsUndisturbed' /\ PastSettled'
           /\ pc'[p] = step /\ \A q \in Updaters \ {p} : JobInv(q)'
           /\ root'.current = root.current /\ root'.previous = root.previous /\ root'.barrier # None
           /\ platform # "win32" => \A r \in past' : r.barrier # None
           /\ Persists(b) /\ platform # "win32" => past' = {root'}
<1>1. /\ RestType /\ LockInv /\ SessionsUndisturbed
      /\ (\A r \in past : RootInv(r)) /\ pc[p] # "idle"
      /\ root.barrier # None /\ (platform # "win32" => \A r \in past : r.barrier # None)
  BY BehindBarrier
<1>2. b # None
  BY UpdateAssumption
<1>3. /\ root'.current = root.current /\ root'.previous = root.previous
      /\ root'.barrier \in {root.barrier, b}
      /\ root' \in past' /\ past' \subseteq past \cup {root'}
      /\ \A r \in past' : RootInv(r)'
      /\ Persists(b) /\ platform # "win32" => past' = {root'}
  BY <1>1, BarrierWritten DEF machine
<1>4. root'.barrier # None
  BY <1>1, <1>2, <1>3
<1>5. SessionsUndisturbed' /\ PastSettled'
  BY <1>1, <1>4, StillBarred DEF RestType, brokerVars
<1>6. LockInv' /\ pc'[p] = step /\ \A q \in Updaters \ {p} : JobInv(q)'
  BY <1>1, Goes DEF LockInv
<1>7. RestType'
  BY <1>1, <1>3 DEF RestType, brokerVars, machine
<1>8. platform # "win32" => \A r \in past' : r.barrier # None
  BY <1>1, <1>3, <1>4
<1> QED BY <1>3, <1>4, <1>5, <1>6, <1>7, <1>8

\* The step that removes the barrier of a version that has answered.
LEMMA UnlinksBehind ==
    ASSUME UpdateInv, NEW p \in Updaters, pc[p] \in {"unlink", "rbUnlink"}, Goto(p, "end"),
           Changes([root EXCEPT !.barrier = None]), root.current \in confirmed,
           job' \in [Updaters -> Jobs],
           UNCHANGED <<versions, brokerVars, lock, machine>>
    PROVE  /\ (\A r \in past' : RootInv(r)') /\ RestType' /\ LockInv' /\ SessionsUndisturbed' /\ PastSettled'
           /\ pc'[p] = "end" /\ \A q \in Updaters \ {p} : JobInv(q)'
           /\ platform # "win32" => \A r \in past' : r.current = root.current
<1> DEFINE n == [root EXCEPT !.barrier = None]
<1>1. /\ RestType /\ LockInv /\ SessionsUndisturbed /\ PastSettled /\ JobInv(p)
      /\ (\A r \in past : RootInv(r)) /\ pc[p] # "idle" /\ root.barrier # None /\ reported = None
      /\ root \in RootType /\ root \in past
  BY BehindBarrier DEF Barred
<1>2. n \in RootType /\ n.barrier = None /\ n.current = root.current /\ n.previous = root.previous
  BY <1>1, BarrierSet
<1>3. root' = n /\ past' = past \cup {root'}
  BY DEF Changes
<1> HIDE DEF n
<1>4. RootInv(root)'
  <2>1. RootInv(root)
    BY <1>1
  <2> QED BY <1>1, <1>2, <1>3, <2>1 DEF RootInv, machine
<1>5. \A r \in past : RootInv(r)'
  BY <1>1, RootKept DEF machine
<1>6. platform # "win32" => past = {root}
  BY <1>1 DEF JobInv, BarrierInv
<1>7. SessionsUndisturbed'
  BY <1>1, <1>2, <1>3 DEF SessionsUndisturbed, brokerVars
<1>8. platform # "win32" => \A r \in past' : r.current = root.current /\ r.previous = root.previous
  BY <1>2, <1>3, <1>6
<1>9. PastSettled'
  BY <1>2, <1>3, <1>8 DEF PastSettled, machine
<1>10. LockInv' /\ pc'[p] = "end" /\ \A q \in Updaters \ {p} : JobInv(q)'
  BY <1>1, Goes DEF Steps
<1>11. RestType'
  BY <1>1, <1>3 DEF RestType, brokerVars, machine
<1> QED BY <1>3, <1>4, <1>5, <1>7, <1>8, <1>9, <1>10, <1>11

\* A broker that was replaced, or that stayed.
LEMMA BrokersAfter ==
    ASSUME RestType, Restarted \/ RestartRefused \/ StopUnconfirmed
    PROVE  broker' \in Good \cup {None} /\ lease' \in Updaters \cup {None} /\ sessions' \in {sessions, 0}
BY DEF RestType, Restarted, RestartRefused, StopUnconfirmed, Replaced, brokerVars

-----------------------------------------------------------------------------
(* The rest of the activation, and its rollback.                            *)

\* The restart, however it ends.
LEMMA RestartKeeps ==
    ASSUME UpdateInv, NEW p \in Updaters, Restart(p)
    PROVE  UpdateInv'
<1>1. pc[p] = "restart" /\ UNCHANGED <<rootVars, versions, lock, job, machine>>
  BY DEF Restart
<1>2. PICK step \in {"health", "rollback", "uncertain"} : Goto(p, step)
  BY DEF Restart
<1>3. RestType /\ LockInv /\ JobInv(p) /\ root.barrier # None /\ confirmed \subseteq Good
      /\ reported = None /\ (platform # "win32" => \A r \in past : r.barrier # None)
  BY <1>1, BehindBarrier DEF Barred, RestType
<1>4. broker' \in Good \cup {None} /\ lease' \in Updaters \cup {None} /\ sessions' \in {sessions, 0}
  BY <1>3, BrokersAfter DEF Restart
<1>5. /\ (\A r \in past' : RootInv(r)') /\ RestType' /\ LockInv' /\ SessionsUndisturbed' /\ PastSettled'
      /\ pc'[p] = step /\ \A q \in Updaters \ {p} : JobInv(q)'
  BY <1>1, <1>2, <1>3, <1>4, StepsBehind DEF Barred, Steps, rootVars, machine, LockInv
<1>6. JobInv(p)'
  BY <1>1, <1>3, <1>5 DEF JobInv, TargetsInv, PointerInv, BarrierInv, SaysInv,
          DirectoryInv, Moving, Barred, RolledBack, rootVars, machine
<1> QED BY <1>5, <1>6, Together

\* The broker that answers is the one that was activated.
LEMMA HealthKeeps ==
    ASSUME UpdateInv, NEW p \in Updaters, Health(p)
    PROVE  UpdateInv'
<1>1. pc[p] = "health" /\ UNCHANGED <<rootVars, versions, brokerVars, lock, job, platform, reported>>
  BY DEF Health
<1>3. RestType /\ LockInv /\ JobInv(p) /\ root.barrier # None
      /\ reported = None /\ (platform # "win32" => \A r \in past : r.barrier # None)
  BY <1>1, BehindBarrier DEF Barred
<1>4. job[p].target \in Versions
  BY <1>1, <1>3 DEF JobInv, TargetsInv, Moving, Barred
<1>5. CASE broker = job[p].target /\ confirmed' = confirmed \cup {broker} /\ Goto(p, "clear")
  <2>1. confirmed \subseteq confirmed' /\ confirmed' \subseteq Good /\ job[p].target \in confirmed'
    BY <1>3, <1>4, <1>5, UpdateAssumption DEF RestType
  <2>2. /\ (\A r \in past' : RootInv(r)') /\ RestType' /\ LockInv' /\ SessionsUndisturbed' /\ PastSettled'
        /\ pc'[p] = "clear" /\ \A q \in Updaters \ {p} : JobInv(q)'
    BY <1>1, <1>3, <1>5, <2>1, StepsBehind DEF Barred, Steps, rootVars, brokerVars, LockInv, RestType
  <2>3. JobInv(p)'
    BY <1>1, <1>3, <2>1, <2>2 DEF JobInv, TargetsInv, PointerInv, BarrierInv, SaysInv,
          DirectoryInv, Moving, Barred, RolledBack, rootVars
  <2> QED BY <2>2, <2>3, Together
<1>6. CASE Goto(p, "rollback") /\ UNCHANGED confirmed
  <2>1. confirmed \subseteq confirmed' /\ confirmed' \subseteq Good
    BY <1>3, <1>6 DEF RestType
  <2>2. /\ (\A r \in past' : RootInv(r)') /\ RestType' /\ LockInv' /\ SessionsUndisturbed' /\ PastSettled'
        /\ pc'[p] = "rollback" /\ \A q \in Updaters \ {p} : JobInv(q)'
    BY <1>1, <1>3, <1>6, <2>1, StepsBehind DEF Barred, Steps, rootVars, brokerVars, LockInv, RestType
  <2>3. JobInv(p)'
    BY <1>1, <1>3, <2>1, <2>2 DEF JobInv, TargetsInv, PointerInv, BarrierInv, SaysInv,
          DirectoryInv, Moving, Barred, RolledBack, rootVars
  <2> QED BY <2>2, <2>3, Together
<1> QED BY <1>5, <1>6 DEF Health

\* The barrier says so before it goes.
LEMMA ClearKeeps ==
    ASSUME UpdateInv, NEW p \in Updaters, Clear(p) \/ RollbackClear(p)
    PROVE  UpdateInv'
<1>1. pc[p] \in {"clear", "rbClear"} /\ UNCHANGED <<versions, brokerVars, lock, job, machine>>
  BY DEF Clear, RollbackClear
<1>2. /\ Persists("completion-confirmed") \/ PersistFails("completion-confirmed")
      /\ \/ /\ Persists("completion-confirmed")
            /\ \/ pc[p] = "clear" /\ Goto(p, "unlink")
               \/ pc[p] = "rbClear" /\ Goto(p, "rbUnlink")
         \/ pc[p] = "clear" /\ Goto(p, "uncertain")
         \/ pc[p] = "rbClear" /\ Goto(p, "end")
  BY DEF Clear, RollbackClear
<1>3. JobInv(p) /\ reported = None
  BY <1>1, BehindBarrier DEF Barred
<1>4. root.current \in confirmed
  BY <1>1, <1>3 DEF JobInv, TargetsInv, PointerInv, Moving, Barred, RolledBack
<1>5. PICK step \in {"unlink", "rbUnlink", "uncertain", "end"} :
          /\ Goto(p, step)
          /\ step = "unlink" => Persists("completion-confirmed") /\ pc[p] = "clear"
          /\ step = "rbUnlink" => Persists("completion-confirmed") /\ pc[p] = "rbClear"
  BY <1>2
<1>6. /\ (\A r \in past' : RootInv(r)') /\ RestType' /\ LockInv' /\ SessionsUndisturbed' /\ PastSettled'
      /\ pc'[p] = step /\ \A q \in Updaters \ {p} : JobInv(q)'
      /\ root'.current = root.current /\ root'.previous = root.previous /\ root'.barrier # None
      /\ platform # "win32" => \A r \in past' : r.barrier # None
      /\ Persists("completion-confirmed") /\ platform # "win32" => past' = {root'}
  BY <1>1, <1>2, <1>4, <1>5, WritesBehind DEF Barred, Steps, Phases
<1>7. JobInv(p)'
  BY <1>1, <1>3, <1>5, <1>6 DEF JobInv, TargetsInv, PointerInv, BarrierInv, SaysInv,
          DirectoryInv, Moving, Barred, RolledBack, machine
<1> QED BY <1>6, <1>7, Together

\* Without its barrier the version that answered is what the report says.
LEMMA UnlinkKeeps ==
    ASSUME UpdateInv, NEW p \in Updaters, Unlink(p)
    PROVE  UpdateInv'
<1>1. pc[p] = "unlink" /\ UNCHANGED <<versions, brokerVars, lock, machine>>
  BY DEF Unlink
<1>2. JobInv(p) /\ LockInv /\ reported = None
  BY <1>1, BehindBarrier DEF Barred
<1>3. root.current \in confirmed /\ root.current = job[p].target /\ job[p].target \in Versions
  BY <1>1, <1>2 DEF JobInv, PointerInv, TargetsInv, Moving, Barred
<1>4. CASE /\ Changes([root EXCEPT !.barrier = None]) /\ Goto(p, "end")
           /\ job' = [job EXCEPT ![p].required = FALSE, ![p].says = job[p].target]
  <2>1. job' \in [Updaters -> Jobs] /\ job'[p].says = job[p].target
    <3>1. ASSUME NEW j \in Jobs
          PROVE  /\ [j EXCEPT !.required = FALSE, !.says = job[p].target] \in Jobs
                 /\ [j EXCEPT !.required = FALSE, !.says = job[p].target].says = job[p].target
      BY <1>3 DEF Jobs
    <3> QED BY <1>2, <1>4, <3>1 DEF LockInv
  <2>2. /\ (\A r \in past' : RootInv(r)') /\ RestType' /\ LockInv' /\ SessionsUndisturbed' /\ PastSettled'
        /\ pc'[p] = "end" /\ \A q \in Updaters \ {p} : JobInv(q)'
        /\ platform # "win32" => \A r \in past' : r.current = root.current
    BY <1>1, <1>3, <1>4, <2>1, UnlinksBehind
  <2>3. JobInv(p)'
    BY <1>3, <2>1, <2>2, <1>1 DEF JobInv, TargetsInv, PointerInv, BarrierInv, SaysInv,
            DirectoryInv, Moving, Barred, RolledBack, machine
  <2> QED BY <2>2, <2>3, Together
<1>5. CASE UNCHANGED <<rootVars, job>> /\ Goto(p, "uncertain")
  BY <1>1, <1>5, PointFails DEF Barred
<1> QED BY <1>4, <1>5 DEF Unlink

\* The rollback says so in the barrier before it moves the pointer back.
LEMMA RollbackPendingKeeps ==
    ASSUME UpdateInv, NEW p \in Updaters, RollbackPending(p)
    PROVE  UpdateInv'
<1>1. pc[p] = "rollback" /\ UNCHANGED <<versions, brokerVars, lock, job, machine>>
  BY DEF RollbackPending
<1>2. PICK step \in {"back", "end"} : Goto(p, step)
  BY DEF RollbackPending
<1>3. Persists("rollback-pending") \/ PersistFails("rollback-pending")
  BY DEF RollbackPending
<1>4. JobInv(p) /\ reported = None
  BY <1>1, BehindBarrier DEF Barred
<1>5. /\ (\A r \in past' : RootInv(r)') /\ RestType' /\ LockInv' /\ SessionsUndisturbed' /\ PastSettled'
      /\ pc'[p] = step /\ \A q \in Updaters \ {p} : JobInv(q)'
      /\ root'.current = root.current /\ root'.previous = root.previous /\ root'.barrier # None
      /\ platform # "win32" => \A r \in past' : r.barrier # None
  BY <1>1, <1>2, <1>3, WritesBehind DEF Barred, Steps, Phases
<1>6. JobInv(p)'
  BY <1>1, <1>4, <1>5 DEF JobInv, TargetsInv, PointerInv, BarrierInv, SaysInv,
          DirectoryInv, Moving, Barred, RolledBack, machine
<1> QED BY <1>5, <1>6, Together

\* Back to what has answered.
LEMMA RollbackPointerKeeps ==
    ASSUME UpdateInv, NEW p \in Updaters, RollbackPointer(p)
    PROVE  UpdateInv'
<1>1. pc[p] = "back" /\ UNCHANGED <<versions, brokerVars, lock, job, machine>>
  BY DEF RollbackPointer, Point
<1>2. /\ RestType /\ LockInv /\ SessionsUndisturbed /\ PastSettled /\ JobInv(p)
      /\ \A r \in past : RootInv(r)
      /\ root.barrier # None /\ reported = None /\ (platform # "win32" => \A r \in past : r.barrier # None)
      /\ pc[p] # "idle"
  BY <1>1, BehindBarrier DEF Barred
<1>3. CASE Changes([root EXCEPT !["current"] = job[p].from]) /\ Goto(p, "rbRestart")
  <2>1. /\ job[p].from \in Versions /\ versions[job[p].from] = "sealed" /\ job[p].from \in confirmed
        /\ job[p].target \in Versions /\ versions[job[p].target] = "sealed"
    BY <1>1, <1>2 DEF JobInv, TargetsInv, Moving, Barred
  <2>2. /\ root'.barrier = root.barrier /\ root'.current = job[p].from
        /\ root' \in past' /\ past' = past \cup {root'}
        /\ (\A r \in past' : RootInv(r)') /\ SessionsUndisturbed' /\ PastSettled'
    BY <1>1, <1>2, <1>3, <2>1, PointerMoved DEF brokerVars, machine
  <2>3. LockInv' /\ pc'[p] = "rbRestart" /\ \A q \in Updaters \ {p} : JobInv(q)'
    BY <1>1, <1>2, <1>3, Goes DEF Steps, LockInv
  <2>4. JobInv(p)'
    BY <1>1, <1>2, <2>1, <2>2, <2>3 DEF JobInv, TargetsInv, PointerInv, BarrierInv, SaysInv,
            DirectoryInv, Moving, Barred, RolledBack, machine
  <2>5. RestType'
    BY <1>1, <1>2, <2>2 DEF RestType, brokerVars, machine
  <2> QED BY <2>2, <2>3, <2>4, <2>5, Together
<1>4. CASE UNCHANGED rootVars /\ Goto(p, "uncertain")
  BY <1>1, <1>4, PointFails DEF Barred
<1> QED BY <1>3, <1>4 DEF RollbackPointer, Point

\* The restart of the version gone back to.
LEMMA RollbackRestartKeeps ==
    ASSUME UpdateInv, NEW p \in Updaters, RollbackRestart(p)
    PROVE  UpdateInv'
<1>1. pc[p] = "rbRestart" /\ UNCHANGED <<rootVars, versions, lock, machine>>
  BY DEF RollbackRestart
<1>2. PICK step \in {"rbHealth", "diagnostic", "uncertain"} : Goto(p, step)
  BY DEF RollbackRestart
<1>3. RestType /\ LockInv /\ JobInv(p) /\ root.barrier # None /\ confirmed \subseteq Good
      /\ reported = None /\ (platform # "win32" => \A r \in past : r.barrier # None)
  BY <1>1, BehindBarrier DEF Barred, RestType
<1>4. broker' \in Good \cup {None} /\ lease' \in Updaters \cup {None} /\ sessions' \in {sessions, 0}
  BY <1>3, BrokersAfter DEF RollbackRestart
<1>5. /\ job' \in [Updaters -> Jobs] /\ job'[p].says = job[p].from
      /\ job'[p].from = job[p].from /\ job'[p].target = job[p].target
  <2>1. ASSUME NEW j \in Jobs
        PROVE  /\ [j EXCEPT !.says = j.from] \in Jobs
               /\ [j EXCEPT !.says = j.from].says = j.from
               /\ [j EXCEPT !.says = j.from].from = j.from
               /\ [j EXCEPT !.says = j.from].target = j.target
    BY DEF Jobs
  <2>2. job' = [job EXCEPT ![p] = [job[p] EXCEPT !.says = job[p].from]] /\ job[p] \in Jobs
    BY <1>3 DEF RollbackRestart, LockInv
  <2> QED BY <1>3, <2>1, <2>2 DEF LockInv
<1>6. /\ (\A r \in past' : RootInv(r)') /\ RestType' /\ LockInv' /\ SessionsUndisturbed' /\ PastSettled'
      /\ pc'[p] = step /\ \A q \in Updaters \ {p} : JobInv(q)'
  BY <1>1, <1>2, <1>3, <1>4, <1>5, StepsBehind DEF Barred, Steps, rootVars, machine
<1>7. JobInv(p)'
  BY <1>1, <1>3, <1>5, <1>6 DEF JobInv, TargetsInv, PointerInv, BarrierInv, SaysInv,
          DirectoryInv, Moving, Barred, RolledBack, rootVars, machine
<1> QED BY <1>6, <1>7, Together

\* Whether the version gone back to answers.
LEMMA RollbackHealthKeeps ==
    ASSUME UpdateInv, NEW p \in Updaters, RollbackHealth(p)
    PROVE  UpdateInv'
<1>1. pc[p] = "rbHealth" /\ UNCHANGED <<rootVars, versions, brokerVars, lock, job, machine>>
  BY DEF RollbackHealth
<1>2. PICK step \in {"rbClear", "diagnostic"} : Goto(p, step)
  BY DEF RollbackHealth
<1>3. RestType /\ LockInv /\ JobInv(p) /\ root.barrier # None /\ confirmed \subseteq Good
      /\ reported = None /\ (platform # "win32" => \A r \in past : r.barrier # None)
  BY <1>1, BehindBarrier DEF Barred, RestType
<1>4. /\ (\A r \in past' : RootInv(r)') /\ RestType' /\ LockInv' /\ SessionsUndisturbed' /\ PastSettled'
      /\ pc'[p] = step /\ \A q \in Updaters \ {p} : JobInv(q)'
  BY <1>1, <1>2, <1>3, StepsBehind DEF Barred, Steps, rootVars, brokerVars, machine, LockInv, RestType
<1>5. JobInv(p)'
  BY <1>1, <1>3, <1>4 DEF JobInv, TargetsInv, PointerInv, BarrierInv, SaysInv,
          DirectoryInv, Moving, Barred, RolledBack, rootVars, machine
<1> QED BY <1>4, <1>5, Together

\* The failure is kept, or the barrier stays; a sync on the way makes the root lasting.
LEMMA DiagnosticKeeps ==
    ASSUME UpdateInv, NEW p \in Updaters, Diagnostic(p)
    PROVE  UpdateInv'
<1>1. pc[p] = "diagnostic" /\ UNCHANGED <<versions, brokerVars, lock, job, machine>>
  BY DEF Diagnostic
<1>2. /\ RestType /\ LockInv /\ SessionsUndisturbed /\ PastSettled /\ JobInv(p)
      /\ \A r \in past : RootInv(r)
      /\ root.barrier # None /\ reported = None /\ (platform # "win32" => \A r \in past : r.barrier # None)
      /\ pc[p] # "idle" /\ root \in past
  BY <1>1, BehindBarrier DEF Barred
<1>3. CASE /\ past' = IF platform = "win32" THEN past ELSE {root}
           /\ Goto(p, "rbClear") /\ UNCHANGED root
  <2>1. past' \subseteq past /\ root' \in past'
    BY <1>2, <1>3
  <2>2. \A r \in past' : RootInv(r)'
    BY <1>1, <1>2, <2>1, RootKept DEF machine
  <2>3. SessionsUndisturbed' /\ PastSettled'
    BY <1>1, <1>2, <1>3, StillBarred DEF RestType, brokerVars
  <2>4. LockInv' /\ pc'[p] = "rbClear" /\ \A q \in Updaters \ {p} : JobInv(q)'
    BY <1>1, <1>2, <1>3, Goes DEF Steps, LockInv
  <2>5. JobInv(p)'
    BY <1>1, <1>2, <1>3, <2>1, <2>4 DEF JobInv, TargetsInv, PointerInv, BarrierInv, SaysInv,
            DirectoryInv, Moving, Barred, RolledBack, machine
  <2>6. RestType'
    BY <1>1, <1>2, <2>1 DEF RestType, brokerVars, machine
  <2> QED BY <2>2, <2>3, <2>4, <2>5, <2>6, Together
<1>4. CASE /\ Persists("diagnostic-persistence-failed") \/ PersistFails("diagnostic-persistence-failed")
           /\ Goto(p, "end")
  <2>1. /\ (\A r \in past' : RootInv(r)') /\ RestType' /\ LockInv' /\ SessionsUndisturbed' /\ PastSettled'
        /\ pc'[p] = "end" /\ \A q \in Updaters \ {p} : JobInv(q)'
        /\ platform # "win32" => \A r \in past' : r.barrier # None
    BY <1>1, <1>4, WritesBehind DEF Barred, Steps, Phases
  <2>2. JobInv(p)'
    BY <1>1, <1>2, <2>1 DEF JobInv, TargetsInv, PointerInv, BarrierInv, SaysInv,
            DirectoryInv, Moving, Barred, RolledBack, machine
  <2> QED BY <2>1, <2>2, Together
<1> QED BY <1>3, <1>4 DEF Diagnostic

\* The barrier of a rollback goes when the version gone back to is current.
LEMMA RollbackUnlinkKeeps ==
    ASSUME UpdateInv, NEW p \in Updaters, RollbackUnlink(p)
    PROVE  UpdateInv'
<1>1. pc[p] = "rbUnlink" /\ UNCHANGED <<versions, brokerVars, lock, machine>> /\ Goto(p, "end")
  BY DEF RollbackUnlink
<1>2. RestType /\ JobInv(p) /\ LockInv /\ reported = None /\ confirmed \subseteq Good
      /\ (platform # "win32" => \A r \in past : r.barrier # None)
  BY <1>1, BehindBarrier DEF Barred, RestType
<1>3. root.current \in confirmed /\ root.current = job[p].from /\ job[p].says = job[p].from
  BY <1>1, <1>2 DEF JobInv, PointerInv, TargetsInv, SaysInv, Moving, Barred, RolledBack
<1>4. CASE /\ Changes([root EXCEPT !.barrier = None])
           /\ job' = [job EXCEPT ![p].required = FALSE]
  <2>1. job' \in [Updaters -> Jobs] /\ job'[p].says = job[p].says
    <3>1. ASSUME NEW j \in Jobs
          PROVE  [j EXCEPT !.required = FALSE] \in Jobs /\ [j EXCEPT !.required = FALSE].says = j.says
      BY DEF Jobs
    <3> QED BY <1>2, <1>4, <3>1 DEF LockInv
  <2>2. /\ (\A r \in past' : RootInv(r)') /\ RestType' /\ LockInv' /\ SessionsUndisturbed' /\ PastSettled'
        /\ pc'[p] = "end" /\ \A q \in Updaters \ {p} : JobInv(q)'
        /\ platform # "win32" => \A r \in past' : r.current = root.current
    BY <1>1, <1>3, <1>4, <2>1, UnlinksBehind
  <2>3. JobInv(p)'
    BY <1>3, <2>1, <2>2, <1>1 DEF JobInv, TargetsInv, PointerInv, BarrierInv, SaysInv,
            DirectoryInv, Moving, Barred, RolledBack, machine
  <2> QED BY <2>2, <2>3, Together
<1>5. CASE UNCHANGED <<rootVars, job>>
  <2>1. /\ (\A r \in past' : RootInv(r)') /\ RestType' /\ LockInv' /\ SessionsUndisturbed' /\ PastSettled'
        /\ pc'[p] = "end" /\ \A q \in Updaters \ {p} : JobInv(q)'
    BY <1>1, <1>2, <1>5, StepsBehind DEF Barred, Steps, rootVars, brokerVars, machine, LockInv, RestType
  <2>2. JobInv(p)'
    BY <1>1, <1>2, <1>5, <2>1 DEF JobInv, TargetsInv, PointerInv, BarrierInv, SaysInv,
            DirectoryInv, Moving, Barred, RolledBack, rootVars, machine
  <2> QED BY <2>1, <2>2, Together
<1> QED BY <1>4, <1>5 DEF RollbackUnlink

\* Evidence in the barrier, which stands either way.
LEMMA UncertainKeeps ==
    ASSUME UpdateInv, NEW p \in Updaters, Uncertain(p)
    PROVE  UpdateInv'
<1>1. /\ pc[p] = "uncertain" /\ UNCHANGED <<versions, brokerVars, lock, job, machine>> /\ Goto(p, "end")
      /\ Persists("unconfirmed") \/ PersistFails("unconfirmed")
  BY DEF Uncertain
<1>2. /\ (\A r \in past' : RootInv(r)') /\ RestType' /\ LockInv' /\ SessionsUndisturbed' /\ PastSettled'
      /\ pc'[p] = "end" /\ \A q \in Updaters \ {p} : JobInv(q)'
      /\ platform # "win32" => \A r \in past' : r.barrier # None
  BY <1>1, WritesBehind DEF Barred, Steps, Phases
<1>3. JobInv(p)'
  BY <1>1, <1>2 DEF JobInv, TargetsInv, PointerInv, BarrierInv, SaysInv,
          DirectoryInv, Moving, Barred, RolledBack, machine
<1> QED BY <1>2, <1>3, Together

\* The report says what is current, or a barrier says that something remains.
LEMMA EndKeeps ==
    ASSUME UpdateInv, NEW p \in Updaters, End(p)
    PROVE  UpdateInv'
<1>1. pc[p] = "end" /\ Release(p) /\ UNCHANGED <<rootVars, versions, broker, sessions, platform, confirmed>>
  BY DEF End
<1>2. /\ RestType /\ LockInv /\ SessionsUndisturbed /\ PastSettled /\ JobInv(p)
      /\ (\A r \in past : RootInv(r)) /\ job[p] \in Jobs
  BY Parts DEF LockInv
<1>3. LockInv' /\ \A q \in Updaters : JobInv(q)'
  BY <1>1, <1>2, Releases
<1>4. reported' = IF job[p].says # None THEN job[p].says ELSE reported
  BY DEF End
<1>5. ASSUME NEW r \in past' PROVE RootInv(r)'
  <2>1. RootInv(r) /\ r \in past
    BY <1>1, <1>2 DEF rootVars
  <2>2. reported' # None /\ platform' # "win32" => r.current = reported' \/ r.barrier # None
    BY <1>1, <1>2, <1>4, <2>1 DEF RootInv, JobInv, SaysInv
  <2> QED BY <1>1, <2>1, <2>2 DEF RootInv
<1>6. lease' \in Updaters \cup {None}
  BY <1>2 DEF End, RestType
<1>7. reported' \in Versions \cup {None}
  BY <1>2, <1>4 DEF RestType, Jobs
<1>8. RestType' /\ SessionsUndisturbed' /\ PastSettled'
  BY <1>1, <1>2, <1>6, <1>7 DEF RestType, SessionsUndisturbed, PastSettled, rootVars
<1> QED BY <1>3, <1>5, <1>8, Together

-----------------------------------------------------------------------------
(* Preparation and pruning.                                                 *)

\* A version without a directory is downloaded beside the others.
LEMMA PrepareKeeps ==
    ASSUME UpdateInv, NEW p \in Updaters, NEW v \in Versions, Prepare(p, v)
    PROVE  UpdateInv'
<1> DEFINE j == [NoJob EXCEPT !.target = v]
<1>1. RestType /\ LockInv /\ SessionsUndisturbed /\ PastSettled
  BY Parts
<1>2. j \in Jobs /\ j.target = v
  BY DEF Jobs, NoJob
<1> HIDE DEF j
<1>3. LockInv' /\ pc'[p] = "staging" /\ job'[p] = j /\ \A q \in Updaters \ {p} : JobInv(q)'
  BY <1>1, <1>2, Begins DEF Prepare, j, Steps
<1>4. UNCHANGED <<rootVars, versions, brokerVars, machine>> /\ versions[v] = "absent"
  BY DEF Prepare
<1>5. JobInv(p)'
  BY <1>2, <1>3, <1>4 DEF JobInv, TargetsInv, PointerInv, BarrierInv, SaysInv,
          DirectoryInv, Moving, Barred, RolledBack
<1>6. \A r \in past' : RootInv(r)'
  BY <1>4, Parts, RootKept DEF rootVars, machine
<1>7. RestType' /\ SessionsUndisturbed' /\ PastSettled'
  BY <1>1, <1>4 DEF RestType, SessionsUndisturbed, PastSettled, rootVars, brokerVars, machine
<1> QED BY <1>3, <1>5, <1>6, <1>7, Together

\* A directory that no root names may change.
LEMMA DirectoryChanged ==
    ASSUME RestType, \A r \in past : RootInv(r), SessionsUndisturbed, PastSettled,
           NEW v \in Versions, NEW d \in {"absent", "unsealed", "sealed"},
           \A r \in past : r.current # v /\ r.previous # v,
           versions' = [versions EXCEPT ![v] = d],
           UNCHANGED <<rootVars, brokerVars, machine>>
    PROVE  /\ (\A r \in past' : RootInv(r)') /\ RestType' /\ SessionsUndisturbed' /\ PastSettled'
           /\ versions'[v] = d
<1>1. /\ versions' \in [Versions -> {"absent", "unsealed", "sealed"}] /\ versions'[v] = d
      /\ \A w \in Versions \ {v} : versions'[w] = versions[w]
  BY DEF RestType
<1>2. ASSUME NEW r \in past' PROVE RootInv(r)'
  <2>1. RootInv(r) /\ r \in RootType /\ r.current # v /\ r.previous # v
    BY <1>2 DEF rootVars, RootInv
  <2>2. /\ versions'[r.current] = versions[r.current]
        /\ r.previous # None => versions'[r.previous] = versions[r.previous]
    BY <1>1, <2>1 DEF RootType
  <2> QED BY <2>1, <2>2 DEF RootInv, machine
<1>3. RestType' /\ SessionsUndisturbed' /\ PastSettled'
  BY <1>1 DEF RestType, SessionsUndisturbed, PastSettled, rootVars, brokerVars, machine
<1> QED BY <1>1, <1>2, <1>3

\* What was absent or is not yet sealed is named by no pointer.
LEMMA PreparedKeeps ==
    ASSUME UpdateInv, NEW p \in Updaters, Prepared(p)
    PROVE  UpdateInv'
<1>1. pc[p] \in {"staging", "sealing"} /\ UNCHANGED <<rootVars, brokerVars, machine>>
  BY DEF Prepared
<1>2. /\ RestType /\ LockInv /\ SessionsUndisturbed /\ PastSettled /\ JobInv(p)
      /\ (\A r \in past : RootInv(r)) /\ job[p] \in Jobs /\ pc[p] # "idle"
  BY <1>1, Parts DEF LockInv
<1>3. job[p].target \in Versions /\ versions[job[p].target] # "sealed"
  BY <1>1, <1>2 DEF JobInv, DirectoryInv
<1>4. \A r \in past : r.current # job[p].target /\ r.previous # job[p].target
  BY <1>2, <1>3, UpdateAssumption DEF RootInv
<1>5. CASE versions' = [versions EXCEPT ![job[p].target] = "sealed"] /\ Release(p)
  <2>1. LockInv' /\ \A q \in Updaters : JobInv(q)'
    BY <1>2, <1>5, Releases
  <2>2. (\A r \in past' : RootInv(r)') /\ RestType' /\ SessionsUndisturbed' /\ PastSettled'
    BY <1>1, <1>2, <1>3, <1>4, <1>5, DirectoryChanged
  <2> QED BY <2>1, <2>2, Together
<1>6. CASE /\ Goto(p, "sealing") /\ UNCHANGED <<lock, job>>
           /\ versions' = [versions EXCEPT ![job[p].target] = "unsealed"]
  <2>1. LockInv' /\ pc'[p] = "sealing" /\ \A q \in Updaters \ {p} : JobInv(q)'
    BY <1>2, <1>6, Goes DEF Steps, LockInv
  <2>2. /\ (\A r \in past' : RootInv(r)') /\ RestType' /\ SessionsUndisturbed' /\ PastSettled'
        /\ versions'[job[p].target] = "unsealed"
    BY <1>1, <1>2, <1>3, <1>4, <1>6, DirectoryChanged
  <2>3. JobInv(p)'
    BY <1>3, <1>6, <2>1, <2>2 DEF JobInv, TargetsInv, PointerInv, BarrierInv, SaysInv,
          DirectoryInv, Moving, Barred, RolledBack
  <2> QED BY <2>1, <2>2, <2>3, Together
<1>7. CASE Release(p) /\ UNCHANGED versions
  <2>1. LockInv' /\ \A q \in Updaters : JobInv(q)'
    BY <1>2, <1>7, Releases
  <2>2. \A r \in past' : RootInv(r)'
    BY <1>1, <1>2, <1>7, RootKept DEF rootVars, machine
  <2>3. RestType' /\ SessionsUndisturbed' /\ PastSettled'
    BY <1>1, <1>2, <1>7 DEF RestType, SessionsUndisturbed, PastSettled, rootVars, brokerVars, machine
  <2> QED BY <2>1, <2>2, <2>3, Together
<1> QED BY <1>5, <1>6, <1>7 DEF Prepared

\* What is removed was chosen under the lock among what no pointer names.
LEMMA PruneKeeps ==
    ASSUME UpdateInv, NEW p \in Updaters, Prune(p)
    PROVE  UpdateInv'
<1> DEFINE j == [NoJob EXCEPT !.doomed = Prunable \ Spare]
<1>1. RestType /\ LockInv /\ SessionsUndisturbed /\ PastSettled
  BY Parts
<1>2. j \in Jobs /\ j.doomed = Prunable \ Spare
  <2>1. Prunable \ Spare \in SUBSET Versions
    BY DEF Prunable
  <2> QED BY <2>1 DEF Jobs, NoJob
<1> HIDE DEF j
<1>3. LockInv' /\ pc'[p] = "pruning" /\ job'[p] = j /\ \A q \in Updaters \ {p} : JobInv(q)'
  BY <1>1, <1>2, Begins DEF Prune, j, Steps
<1>4. UNCHANGED <<rootVars, versions, brokerVars, machine>> /\ platform # "win32" /\ root.barrier = None
  BY DEF Prune
<1>5. root.current \notin Prunable /\ root.previous \notin Prunable
  BY DEF Prunable
<1>6. JobInv(p)'
  BY <1>2, <1>3, <1>4, <1>5 DEF JobInv, TargetsInv, PointerInv, BarrierInv, SaysInv,
          DirectoryInv, Moving, Barred, RolledBack, rootVars, machine
<1>7. \A r \in past' : RootInv(r)'
  BY <1>4, Parts, RootKept DEF rootVars, machine
<1>8. RestType' /\ SessionsUndisturbed' /\ PastSettled'
  BY <1>1, <1>4 DEF RestType, SessionsUndisturbed, PastSettled, rootVars, brokerVars, machine
<1> QED BY <1>3, <1>6, <1>7, <1>8, Together

\* Nor does any root that a power loss may bring back name it.
LEMMA PruneNextKeeps ==
    ASSUME UpdateInv, NEW p \in Updaters, PruneNext(p)
    PROVE  UpdateInv'
<1>1. pc[p] = "pruning" /\ UNCHANGED <<rootVars, brokerVars, machine>>
  BY DEF PruneNext
<1>2. /\ RestType /\ LockInv /\ SessionsUndisturbed /\ PastSettled /\ JobInv(p)
      /\ (\A r \in past : RootInv(r)) /\ job[p] \in Jobs /\ pc[p] # "idle"
  BY <1>1, Parts DEF LockInv
<1>3. /\ platform # "win32" /\ root.barrier = None
      /\ root.current \notin job[p].doomed /\ root.previous \notin job[p].doomed
  BY <1>1, <1>2 DEF JobInv, DirectoryInv
<1>4. \A r \in past : r.current = root.current /\ r.previous = root.previous
  BY <1>2, <1>3 DEF PastSettled
<1>5. PICK v \in job[p].doomed :
        \/ /\ versions' = [versions EXCEPT ![v] = "unsealed"]
           /\ UNCHANGED <<lock, pc, job>>
        \/ /\ versions' = [versions EXCEPT ![v] = "absent"]
           /\ IF job[p].doomed = {v} THEN Release(p)
              ELSE job' = [job EXCEPT ![p].doomed = @ \ {v}] /\ UNCHANGED <<lock, pc>>
  BY DEF PruneNext
<1>6. v \in Versions /\ \A r \in past : r.current # v /\ r.previous # v
  BY <1>2, <1>3, <1>4 DEF Jobs
<1>7. (\A r \in past' : RootInv(r)') /\ RestType' /\ SessionsUndisturbed' /\ PastSettled'
  <2>1. CASE versions' = [versions EXCEPT ![v] = "unsealed"]
    BY <1>1, <1>2, <1>6, <2>1, DirectoryChanged
  <2>2. CASE versions' = [versions EXCEPT ![v] = "absent"]
    BY <1>1, <1>2, <1>6, <2>2, DirectoryChanged
  <2> QED BY <1>5, <2>1, <2>2
<1>8. LockInv' /\ \A q \in Updaters : JobInv(q)'
  <2>1. CASE Release(p)
    BY <1>2, <2>1, Releases
  <2>2. CASE /\ job' = job \/ job' = [job EXCEPT ![p].doomed = @ \ {v}]
             /\ UNCHANGED <<lock, pc>>
    <3>1. job' \in [Updaters -> Jobs] /\ job'[p].doomed \subseteq job[p].doomed
      <4>1. ASSUME NEW j \in Jobs
            PROVE  /\ [j EXCEPT !.doomed = j.doomed \ {v}] \in Jobs
                   /\ [j EXCEPT !.doomed = j.doomed \ {v}].doomed \subseteq j.doomed
        BY DEF Jobs
      <4>2. CASE job' = job
        BY <1>2, <4>2 DEF LockInv
      <4>3. CASE job' = [job EXCEPT ![p].doomed = @ \ {v}]
        <5>1. job' = [job EXCEPT ![p] = [job[p] EXCEPT !.doomed = job[p].doomed \ {v}]]
          BY <4>3
        <5> QED BY <1>2, <4>1, <5>1 DEF LockInv
      <4> QED BY <2>2, <4>2, <4>3
    <3>2. LockInv'
      BY <1>2, <2>2, <3>1 DEF LockInv
    <3>3. \A q \in Updaters \ {p} : pc'[q] = "idle"
      BY <1>2, <2>2, OneWorks
    <3>4. JobInv(p)'
      BY <1>1, <1>3, <2>2, <3>1 DEF JobInv, TargetsInv, PointerInv, BarrierInv, SaysInv,
          DirectoryInv, Moving, Barred, RolledBack, rootVars, machine
    <3> QED BY <3>2, <3>3, <3>4, IdleAfter
  <2> QED BY <1>5, <2>1, <2>2
<1> QED BY <1>7, <1>8, Together

-----------------------------------------------------------------------------
(* The broker, and crashes.                                                 *)

\* What is on the disk stays as it is, and the lease until the barrier stands.
LEMMA BrokerKeeps ==
    ASSUME UpdateInv,
           SessionOpens \/ SessionCloses \/ LeaseExpires \/ BrokerDies \/ BrokerStarts
    PROVE  UpdateInv'
<1>1. /\ RestType /\ LockInv /\ SessionsUndisturbed /\ PastSettled
      /\ (\A r \in past : RootInv(r)) /\ \A p \in Updaters : JobInv(p)
  BY Parts
<1>2. UNCHANGED <<rootVars, versions, lock, pc, job, machine>>
  BY DEF SessionOpens, SessionCloses, LeaseExpires, BrokerDies, BrokerStarts
<1>3. ASSUME NEW p \in Updaters, pc[p] = "persist" PROVE lease' = p /\ sessions' = 0
  <2>1. lease = p /\ sessions = 0 /\ p # None
    BY <1>1, <1>3, UpdateAssumption DEF JobInv, BarrierInv
  <2> QED BY <1>3, <2>1 DEF SessionOpens, SessionCloses, LeaseExpires, BrokerDies, BrokerStarts, LeaseLost
<1>4. ASSUME NEW p \in Updaters PROVE JobInv(p)'
  BY <1>1, <1>2, <1>3 DEF JobInv, TargetsInv, PointerInv, BarrierInv, SaysInv, DirectoryInv, rootVars, machine
<1>5. \A r \in past' : RootInv(r)'
  BY <1>1, <1>2, RootKept DEF rootVars, machine
<1>6. root \in RootType
  BY <1>1 DEF RestType, RootInv
<1>7. broker' \in Good \cup {None} /\ lease' \in Updaters \cup {None} /\ sessions' \in 0..MaxSessions
  BY <1>1, <1>6, UpdateAssumption DEF RestType, SessionOpens, SessionCloses, LeaseExpires, BrokerDies, BrokerStarts
<1>8. RestType' /\ PastSettled'
  BY <1>1, <1>2, <1>7 DEF RestType, PastSettled, rootVars, machine
<1>9. SessionsUndisturbed'
  BY <1>1, <1>2, UpdateAssumption DEF SessionsUndisturbed, RestType, SessionOpens, SessionCloses, LeaseExpires,
          BrokerDies, BrokerStarts, rootVars
<1>10. LockInv'
  BY <1>1, <1>2 DEF LockInv
<1> QED BY <1>4, <1>5, <1>8, <1>9, <1>10, Together

\* An updater that is killed leaves the root as it is.
LEMMA KilledKeeps ==
    ASSUME UpdateInv, NEW p \in Updaters, Killed(p)
    PROVE  UpdateInv'
<1>1. /\ RestType /\ LockInv /\ SessionsUndisturbed /\ PastSettled
      /\ (\A r \in past : RootInv(r))
  BY Parts
<1>2. UNCHANGED <<rootVars, versions, brokerVars, machine>> /\ pc[p] # "idle" /\ lock' \in {None, Stale}
  BY DEF Killed, Orphaned
<1>3. pc' \in [Updaters -> Steps] /\ \A q \in Updaters : pc'[q] = "idle"
  BY <1>1, <1>2, OneWorks DEF LockInv, Killed, Goto, Steps
<1>4. job' \in [Updaters -> Jobs]
  BY <1>1, NoJobTyped DEF LockInv, Killed
<1>5. LockInv'
  BY <1>2, <1>3, <1>4, UpdateAssumption DEF LockInv
<1>6. \A r \in past' : RootInv(r)'
  BY <1>1, <1>2, RootKept DEF rootVars, machine
<1>7. RestType' /\ SessionsUndisturbed' /\ PastSettled'
  BY <1>1, <1>2 DEF RestType, SessionsUndisturbed, PastSettled, rootVars, brokerVars, machine
<1> QED BY <1>3, <1>5, <1>6, <1>7, IdleAfter, Together

\* A power loss brings back one of the roots, and nobody works or has a session.
LEMMA PowerLossKeeps ==
    ASSUME UpdateInv, PowerLoss
    PROVE  UpdateInv'
<1>1. RestType /\ \A r \in past : RootInv(r)
  BY Parts
<1>2. /\ root' \in past /\ past' = {root'} /\ broker' = None /\ lease' = None /\ sessions' = 0
      /\ UNCHANGED <<versions, machine>> /\ lock' \in {None, Stale}
  BY DEF PowerLoss, Orphaned
<1>3. pc' \in [Updaters -> Steps] /\ (\A q \in Updaters : pc'[q] = "idle") /\ job' \in [Updaters -> Jobs]
  BY NoJobTyped DEF PowerLoss, Steps
<1>4. LockInv'
  BY <1>2, <1>3, UpdateAssumption DEF LockInv
<1>5. \A r \in past' : RootInv(r)'
  BY <1>1, <1>2, RootKept DEF machine
<1>6. RestType'
  BY <1>1, <1>2, UpdateAssumption DEF RestType, machine
<1>7. SessionsUndisturbed' /\ PastSettled'
  BY <1>2 DEF SessionsUndisturbed, PastSettled
<1> QED BY <1>3, <1>4, <1>5, <1>6, <1>7, IdleAfter, Together

-----------------------------------------------------------------------------
(* The theorems.                                                            *)

\* The updater starts on a machine that runs the version installed.
LEMMA UpdateStarts == Init => UpdateInv
<1> SUFFICES ASSUME Init PROVE UpdateInv
  OBVIOUS
<1>1. /\ Installed \in Versions /\ root \in RootType /\ past = {root}
      /\ root.current = Installed /\ root.previous = None /\ root.barrier = None
  BY UpdateAssumption DEF Init, RootType
<1>2. /\ versions \in [Versions -> {"absent", "unsealed", "sealed"}] /\ versions[Installed] = "sealed"
      /\ broker \in Good \cup {None} /\ lease = None /\ sessions = 0 /\ sessions \in 0..MaxSessions
      /\ lock = None /\ confirmed = {Installed} /\ confirmed \subseteq Good /\ reported = None
  BY <1>1, UpdateAssumption DEF Init
<1>3. pc \in [Updaters -> Steps] /\ (\A p \in Updaters : pc[p] = "idle") /\ job \in [Updaters -> Jobs]
  BY NoJobTyped DEF Init, Steps
<1>4. TypeOK
  BY <1>1, <1>2, <1>3, UpdateAssumption DEF TypeOK, Roots, RootType, Jobs
<1>5. PointersPrepared /\ WayBack /\ ReportDurable
  BY <1>1, <1>2 DEF PointersPrepared, WayBack, ReportDurable, Roots
<1>6. DoubtCovered /\ PastSettled
  BY <1>1, <1>2 DEF DoubtCovered, BarrierCoversDoubt, SessionsUndisturbed, PastSettled, Roots
<1>7. \A p \in Updaters : JobInv(p)
  BY <1>3 DEF JobInv, TargetsInv, PointerInv, BarrierInv, SaysInv, DirectoryInv, Moving, Barred, RolledBack
<1> QED BY <1>4, <1>5, <1>6, <1>7 DEF UpdateInv, PointersSound

\* A step of an activation.
LEMMA ActivationKeeps ==
    ASSUME UpdateInv, NEW p \in Updaters, ActivationStep(p)
    PROVE  UpdateInv'
BY BeginKeeps, RefusedKeeps, PendingKeeps, PointPreviousKeeps, PointCurrentKeeps, RestartKeeps, HealthKeeps,
   ClearKeeps, UnlinkKeeps, RollbackPendingKeeps, RollbackPointerKeeps, RollbackRestartKeeps,
   RollbackHealthKeeps, DiagnosticKeeps, RollbackUnlinkKeeps, UncertainKeeps, EndKeeps
   DEF ActivationStep

\* The invariant of the updater holds of every behaviour.
THEOREM UpdateInvariant == Spec => []UpdateInv
<1>1. UpdateInv /\ [Next]_vars => UpdateInv'
  <2> SUFFICES ASSUME UpdateInv, [Next]_vars PROVE UpdateInv'
    OBVIOUS
  <2>1. ASSUME NEW p \in Updaters,
               \/ \E v \in Versions : ActivateAdmitted(p, v) \/ Prepare(p, v)
               \/ UpdaterStep(p) \/ Prune(p) \/ Killed(p)
        PROVE  UpdateInv'
    BY <2>1, ActivateKeeps, PrepareKeeps, ActivationKeeps, PreparedKeeps, PruneNextKeeps, PruneKeeps,
       KilledKeeps DEF UpdaterStep
  <2>2. CASE SessionOpens \/ SessionCloses \/ LeaseExpires \/ BrokerDies \/ BrokerStarts
    BY <2>2, BrokerKeeps
  <2>3. CASE PowerLoss
    BY <2>3, PowerLossKeeps
  <2>4. CASE UNCHANGED vars
    <3>1. /\ RestType /\ LockInv /\ SessionsUndisturbed /\ PastSettled
          /\ (\A r \in past : RootInv(r)) /\ \A p \in Updaters : JobInv(p)
      BY Parts
    <3>2. (\A r \in past' : RootInv(r)') /\ RestType' /\ LockInv' /\ SessionsUndisturbed' /\ PastSettled'
      BY <2>4, <3>1 DEF vars, RootInv, RestType, LockInv, SessionsUndisturbed, PastSettled
    <3>3. \A p \in Updaters : JobInv(p)'
      BY <2>4, <3>1 DEF vars, JobInv, TargetsInv, PointerInv, BarrierInv, SaysInv, DirectoryInv
    <3> QED BY <3>2, <3>3, Together
  <2> QED BY <2>1, <2>2, <2>3, <2>4 DEF Next
<1> QED BY UpdateStarts, <1>1, PTL DEF Spec

\* Wherever an updater stops there is something to run and something to go back to, and
\* what it reported stays (activateVersionUnlocked, prepareVersionUnlocked,
\* pruneVersionsUnlocked).
THEOREM PointersAreSound == Spec => []PointersSound
<1>1. UpdateInv => PointersSound
  BY DEF UpdateInv
<1> QED BY UpdateInvariant, <1>1, PTL

-----------------------------------------------------------------------------
(* The broker that runs.                                                    *)

\* Behind a barrier that is about to go the broker is of a version that has answered,
\* or there is none.
Answering(p) == pc[p] \in {"clear", "unlink"} => broker \in confirmed \cup {None}
RunInv == \A p \in Updaters : Answering(p)

\* A step that leaves the broker alone, or ends it, and removes no barrier.
Sheltered ==
    \/ broker' = None
    \/ broker' = broker /\ confirmed \subseteq confirmed' /\ (root'.barrier = None => root.barrier = None)
    \/ root'.barrier # None

\* It brings no broker into doubt.
LEMMA ShelteredStands == ASSUME Sheltered, InDoubt' PROVE InDoubt
BY DEF Sheltered, InDoubt

\* What is written behind a barrier is a barrier.
LEMMA StaysBarred ==
    ASSUME root \in RootType, NEW phase \in Phases, Persists(phase) \/ PersistFails(phase)
    PROVE  root'.barrier = None => root.barrier = None
<1>1. phase # None /\ [root EXCEPT !.barrier = phase].barrier = phase
  BY BarrierSet, UpdateAssumption
<1> QED BY <1>1 DEF Persists, PersistFails, Changes

\* Each step of an activation but the last of a rollback.
LEMMA ActivationSheltered ==
    ASSUME UpdateInv, RunInv, NEW p \in Updaters, ActivationStep(p), pc[p] # "rbUnlink"
    PROVE  Sheltered \/ (broker' = broker /\ broker \in confirmed' \cup {None})
<1>1. root \in RootType /\ LockInv /\ BarrierInv(p) /\ Answering(p)
  BY Parts DEF RootInv, JobInv, RestType, RunInv
<1>2. CASE UpdateBegun(p) \/ UpdateRefused(p) \/ Health(p) \/ RollbackHealth(p) \/ End(p)
  BY <1>2 DEF UpdateBegun, UpdateRefused, Health, RollbackHealth, End, Sheltered, machine, brokerVars, rootVars
<1>3. CASE Pending(p)
  BY <1>1, <1>3, StaysBarred DEF Pending, Sheltered, brokerVars, Phases
<1>4. CASE PointPrevious(p) \/ PointCurrent(p) \/ RollbackPointer(p)
  <2>1. job[p].from \in Versions \cup {None} /\ job[p].target \in Versions \cup {None}
    BY <1>1 DEF LockInv, Jobs
  <2>2. root'.barrier = root.barrier
    BY <1>1, <1>4, <2>1 DEF PointPrevious, PointCurrent, RollbackPointer, Point, Changes, rootVars, RootType
  <2> QED BY <1>4, <2>2 DEF PointPrevious, PointCurrent, RollbackPointer, Point, Sheltered, brokerVars, machine
<1>5. CASE Restart(p) \/ RollbackRestart(p)
  BY <1>1, <1>5 DEF Restart, RollbackRestart, rootVars, BarrierInv, Barred, Sheltered
<1>6. CASE Clear(p)
  BY <1>1, <1>6, StaysBarred DEF Clear, Sheltered, brokerVars, machine, Phases
<1>7. CASE Unlink(p)
  BY <1>1, <1>7 DEF Unlink, Answering, brokerVars, machine
<1>8. CASE RollbackPending(p) \/ RollbackClear(p) \/ Uncertain(p)
  BY <1>1, <1>8, StaysBarred DEF RollbackPending, RollbackClear, Uncertain, Sheltered, brokerVars, machine, Phases
<1>9. CASE Diagnostic(p)
  BY <1>1, <1>9, StaysBarred DEF Diagnostic, Sheltered, brokerVars, machine, Phases
<1>10. CASE RollbackUnlink(p)
  BY <1>10 DEF RollbackUnlink
<1> QED BY <1>2, <1>3, <1>4, <1>5, <1>6, <1>7, <1>8, <1>9, <1>10 DEF ActivationStep

\* No step but the last of a rollback brings the broker that runs into doubt.
LEMMA DoubtStep ==
    ASSUME UpdateInv, RunInv, [Next]_vars, InDoubt', ~InDoubt
    PROVE  \E p \in Updaters : pc[p] = "rbUnlink"
<1> SUFFICES ASSUME \A p \in Updaters : pc[p] # "rbUnlink" PROVE FALSE
  OBVIOUS
<1>1. ASSUME NEW p \in Updaters, ActivationStep(p) PROVE FALSE
  BY <1>1, ActivationSheltered, ShelteredStands DEF InDoubt
<1>2. ASSUME NEW p \in Updaters,
             \/ \E v \in Versions : ActivateAdmitted(p, v) \/ Prepare(p, v)
             \/ Prepared(p) \/ PruneNext(p) \/ Prune(p) \/ Killed(p)
      PROVE  FALSE
  <2>1. UNCHANGED <<rootVars, brokerVars, confirmed>>
    BY <1>2 DEF ActivateAdmitted, Prepare, Prepared, PruneNext, Prune, Killed, machine
  <2> QED BY <2>1 DEF InDoubt, rootVars, brokerVars
<1>3. CASE SessionOpens \/ SessionCloses \/ LeaseExpires \/ BrokerDies \/ PowerLoss \/ UNCHANGED vars
  <2>1. Sheltered
    BY <1>3 DEF SessionOpens, SessionCloses, LeaseExpires, BrokerDies, PowerLoss, Sheltered, machine, rootVars, vars
  <2> QED BY <2>1, ShelteredStands
<1>4. CASE BrokerStarts
  <2>1. root' = root /\ confirmed' = confirmed /\ broker' = root.current
    BY <1>4 DEF BrokerStarts, rootVars, machine
  <2>2. root.barrier = None => root.current \in confirmed
    BY DEF UpdateInv, DoubtCovered, BarrierCoversDoubt, Roots
  <2> QED BY <2>1, <2>2 DEF InDoubt
<1> QED BY <1>1, <1>2, <1>3, <1>4 DEF Next, UpdaterStep

\* What a step of the updater's may need of the broker is there.
LEMMA RunKeeps ==
    ASSUME UpdateInv, RunInv, [Next]_vars
    PROVE  RunInv'
<1> SUFFICES ASSUME NEW q \in Updaters, pc'[q] \in {"clear", "unlink"}
             PROVE  broker' \in confirmed' \cup {None}
  BY DEF RunInv, Answering
<1>1. LockInv /\ Answering(q) /\ PointerInv(q)
  BY Parts DEF RunInv, JobInv
<1>2. \A p \in Updaters : pc[p] # "idle" /\ pc[q] # "idle" => p = q
  BY <1>1 DEF LockInv
<1>3. ASSUME NEW p \in Updaters, ActivationStep(p) PROVE broker' \in confirmed' \cup {None}
  <2>0. pc[p] # "idle"
    BY <1>3 DEF ActivationStep, UpdateBegun, UpdateRefused, Pending, PointPrevious, PointCurrent, Point, Restart,
       Health, Clear, Unlink, RollbackPending, RollbackPointer, RollbackRestart, RollbackHealth, Diagnostic,
       RollbackClear, RollbackUnlink, Uncertain, End
  <2>1. p = q
    BY <1>1, <1>2, <1>3, <2>0 DEF ActivationStep, UpdateBegun, UpdateRefused, Pending, PointPrevious, PointCurrent, Point, Restart,
       Health, Clear, Unlink, RollbackPending, RollbackPointer, RollbackRestart, RollbackHealth, Diagnostic,
       RollbackClear, RollbackUnlink, Uncertain, End, Release, Goto, LockInv
  <2>2. pc[q] \in {"health", "clear"}
    BY <1>1, <1>3, <2>1 DEF ActivationStep, UpdateBegun, UpdateRefused, Pending, PointPrevious, PointCurrent, Point, Restart,
       Health, Clear, Unlink, RollbackPending, RollbackPointer, RollbackRestart, RollbackHealth, Diagnostic,
       RollbackClear, RollbackUnlink, Uncertain, End, Release, Goto, LockInv
  <2>3. Health(p) \/ Clear(p)
    BY <1>3, <2>1, <2>2 DEF ActivationStep, UpdateBegun, UpdateRefused, Pending, PointPrevious, PointCurrent, Point, Restart,
       Health, Clear, Unlink, RollbackPending, RollbackPointer, RollbackRestart, RollbackHealth, Diagnostic,
       RollbackClear, RollbackUnlink, Uncertain, End
  <2>4. CASE Health(p)
    BY <1>1, <2>1, <2>4 DEF Health, brokerVars, Goto, LockInv
  <2>5. CASE Clear(p)
    BY <1>1, <2>1, <2>5 DEF Clear, brokerVars, machine, Answering
  <2> QED BY <2>3, <2>4, <2>5
<1>4. ASSUME NEW p \in Updaters,
             \/ \E v \in Versions : ActivateAdmitted(p, v) \/ Prepare(p, v)
             \/ Prepared(p) \/ PruneNext(p) \/ Prune(p) \/ Killed(p)
      PROVE  broker' \in confirmed' \cup {None}
  <2>1. UNCHANGED <<broker, confirmed>> /\ pc[q] \in {"clear", "unlink"}
    BY <1>1, <1>4 DEF ActivateAdmitted, Prepare, Prepared, PruneNext, Prune, Killed, machine, brokerVars,
       Start, Release, Goto, LockInv
  <2> QED BY <1>1, <2>1 DEF Answering
<1>5. CASE SessionOpens \/ SessionCloses \/ LeaseExpires \/ BrokerDies \/ PowerLoss \/ UNCHANGED vars
  BY <1>1, <1>5 DEF SessionOpens, SessionCloses, LeaseExpires, BrokerDies, PowerLoss, machine, vars, Answering
<1>6. CASE BrokerStarts
  BY <1>1, <1>6 DEF BrokerStarts, machine, PointerInv
<1> QED BY <1>3, <1>4, <1>5, <1>6 DEF Next, UpdaterStep

\* No step leaves doubt about the version that the current pointer names without a barrier, and
\* a broker that has not answered comes to run without one only where a rollback ends whose
\* restart was refused or not answered (activateVersionUnlocked, recover).
THEOREM DoubtIsHeld == Spec => DoubtHeld
<1>1. Init => RunInv
  BY DEF Init, RunInv, Answering
<1>2. UpdateInv /\ RunInv /\ [Next]_vars => RunInv'
  BY RunKeeps
<1>3. UpdateInv /\ UpdateInv' /\ RunInv /\ [Next]_vars =>
          [/\ DoubtCovered'
           /\ InDoubt' /\ ~InDoubt => \E p \in Updaters : pc[p] = "rbUnlink"]_vars
  <2>1. UpdateInv' => DoubtCovered'
    BY DEF UpdateInv
  <2> QED BY <2>1, DoubtStep
<1> QED BY UpdateInvariant, <1>1, <1>2, <1>3, PTL DEF Spec, DoubtHeld
=============================================================================
