-------------------------- MODULE UpdateActivation --------------------------
(* The managed updater: src/src/update.ts with update-lock.ts,              *)
(* update-admission.ts and the restart of managed-lifecycle.ts.             *)
(*                                                                          *)
(* Updater processes prepare versions, activate one and prune the rest,     *)
(* each under the update lock.  An activation moves two pointers in the     *)
(* managed root and restarts the broker behind a recovery file, the         *)
(* barrier, that every broker consults before it admits a session.  A       *)
(* process may be killed between any two of its steps, the machine may      *)
(* lose power, and every write, pointer move and restart may fail.          *)
(*                                                                          *)
(* root is what the file system shows and past what a power loss may bring  *)
(* back: the roots since directory entries were last synced (they are lost  *)
(* from the end, as a journaling file system loses them).                   *)
EXTENDS Naturals, FiniteSets

CONSTANTS
    Updaters,    \* updater processes: the timer's, a person's, ...
    Versions,    \* release versions, ordered like numbers
    Good,        \* the versions whose broker comes up on this machine
    Installed,   \* the version installed first
    Platforms,   \* the platforms looked at, of "linux", "darwin" and "win32"
    SpareLimit,  \* pruneVersions' keep
    MaxSessions, \* bound on open sessions
    None, Stale

\* What a recovery file says.
Phases == {"pending", "rollback-pending", "unconfirmed", "diagnostic-persistence-failed",
           "completion-confirmed"}

ASSUME UpdateAssumption ==
    /\ Versions \subseteq Nat /\ IsFiniteSet(Versions) /\ Good \subseteq Versions /\ Installed \in Good
    /\ Platforms \subseteq {"linux", "darwin", "win32"}
    /\ SpareLimit \in Nat /\ MaxSessions \in Nat
    /\ None \notin Versions \cup Updaters /\ None \notin Phases /\ Stale \notin Updaters \cup {None}

VARIABLES
    platform,  \* of this machine
    root,      \* [current, previous, barrier]: two pointers and the recovery file
    past,      \* the roots a power loss may bring back
    versions,  \* versions[v]: its directory
    broker,    \* the version the running broker was started from, or None
    lease,     \* the updater whose update lease the broker holds, or None
    sessions,  \* how many sessions are open
    lock,      \* who holds the update lock; Stale once its owner died off Linux
    pc,        \* pc[p]: what updater p does next
    job,       \* job[p]: what it works on
    confirmed, \* history: versions whose broker has answered doctor
    reported   \* history: the version the last report said is current, or None

rootVars == <<root, past>>
brokerVars == <<broker, lease, sessions>>
machine == <<platform, confirmed, reported>>
vars == <<platform, root, past, versions, broker, lease, sessions, lock, pc, job, confirmed, reported>>

Steps == {"idle", "begin", "persist", "previous", "current", "restart", "health", "clear", "unlink",
          "rollback", "back", "rbRestart", "rbHealth", "diagnostic", "rbClear", "rbUnlink",
          "uncertain", "end", "staging", "sealing", "pruning"}
NoJob == [target |-> None, from |-> None, required |-> FALSE, token |-> FALSE, says |-> None, doomed |-> {}]

Init ==
    /\ platform \in Platforms
    /\ root = [current |-> Installed, previous |-> None, barrier |-> None] /\ past = {root}
    /\ versions = [v \in Versions |-> IF v = Installed THEN "sealed" ELSE "absent"]
    /\ broker = Installed /\ lease = None /\ sessions = 0 /\ lock = None
    /\ pc = [p \in Updaters |-> "idle"] /\ job = [p \in Updaters |-> NoJob]
    /\ confirmed = {Installed} /\ reported = None

-----------------------------------------------------------------------------
(* The managed root.                                                        *)

\* A change of the root that no directory sync has made lasting yet.
Changes(r) == root' = r /\ past' = past \cup {r}

\* persistRecovery: write a temporary file, rename it onto the barrier, syncRoot.
Persists(phase) ==
    /\ root' = [root EXCEPT !.barrier = phase]
    /\ past' = IF platform = "win32" THEN past \cup {root'} ELSE {root'}

\* It throws before the rename, or after it when the sync fails.
PersistFails(phase) == Changes(root) \/ Changes([root EXCEPT !.barrier = phase])

Goto(p, step) == pc' = [pc EXCEPT ![p] = step]
Start(p, step, j) ==
    /\ pc[p] = "idle" /\ lock = None /\ lock' = p /\ Goto(p, step) /\ job' = [job EXCEPT ![p] = j]
Release(p) == lock' = None /\ Goto(p, "idle") /\ job' = [job EXCEPT ![p] = NoJob]

-----------------------------------------------------------------------------
(* Activation (activateVersionUnlocked).                                    *)

\* No barrier, no open session, a sealed target and a sealed current version.
ActivateAdmitted(p, v) ==
    /\ root.barrier = None /\ (broker # None => sessions = 0)
    /\ versions[v] = "sealed" /\ root.current # v /\ versions[root.current] = "sealed"
    /\ Start(p, "begin", [NoJob EXCEPT !.target = v, !.from = root.current])
    /\ UNCHANGED <<rootVars, versions, brokerVars, machine>>

\* update.begin: the broker is idle and grants its lease.
UpdateBegun(p) ==
    /\ pc[p] = "begin" /\ broker # None /\ lease = None /\ sessions = 0 /\ root.barrier = None
    /\ lease' = p /\ job' = [job EXCEPT ![p].token = TRUE] /\ Goto(p, "persist")
    /\ UNCHANGED <<rootVars, versions, broker, sessions, lock, machine>>

UpdateRefused(p) ==
    /\ pc[p] = "begin" /\ (broker = None \/ lease # None \/ sessions > 0)
    /\ Release(p)
    /\ UNCHANGED <<rootVars, versions, brokerVars, machine>>

\* The barrier is created exclusively; without it nothing has been touched.
Pending(p) ==
    /\ pc[p] = "persist" /\ root.barrier = None
    /\ \/ /\ Persists("pending") /\ Goto(p, "previous")
          /\ job' = [job EXCEPT ![p].required = TRUE] /\ reported' = None
       \/ /\ PersistFails("pending") /\ Goto(p, "end") /\ UNCHANGED <<job, reported>>
    /\ UNCHANGED <<versions, brokerVars, lock, platform, confirmed>>

\* point(): a new link or file renamed onto the old one, or an exception.
Point(p, at, name, v, next) ==
    /\ pc[p] = at
    /\ \/ Changes([root EXCEPT ![name] = v]) /\ Goto(p, next)
       \/ UNCHANGED rootVars /\ Goto(p, "uncertain")
    /\ UNCHANGED <<versions, brokerVars, lock, job, machine>>

\* Mutant: the rollback target is not recorded.
PointPreviousSkipped(p) ==
    /\ pc[p] = "previous" /\ Goto(p, "current")
    /\ UNCHANGED <<rootVars, versions, brokerVars, lock, job, machine>>

PointPrevious(p) == Point(p, "previous", "previous", job[p].from, "current")
PointCurrent(p) == Point(p, "current", "current", job[p].target, "restart")

\* The old broker runs on, or it is gone and its successor is up or not yet.
Replaced == lease' = None /\ sessions' = 0
    /\ broker' \in {None} \cup ({root.current} \cap Good)
Restarted == Replaced
RestartRefused == UNCHANGED brokerVars \/ (Replaced /\ broker' = None)
StopUnconfirmed == UNCHANGED brokerVars \/ Replaced

Restart(p) ==
    /\ pc[p] = "restart"
    /\ \/ Restarted /\ Goto(p, "health")
       \/ RestartRefused /\ Goto(p, "rollback")
       \/ StopUnconfirmed /\ Goto(p, "uncertain")
    /\ UNCHANGED <<rootVars, versions, lock, job, machine>>

\* brokerAnswers: doctor reports exactly the identity that was activated.
Health(p) ==
    /\ pc[p] = "health"
    /\ \/ /\ broker = job[p].target /\ confirmed' = confirmed \cup {broker} /\ Goto(p, "clear")
       \/ Goto(p, "rollback") /\ UNCHANGED confirmed
    /\ UNCHANGED <<rootVars, versions, brokerVars, lock, job, platform, reported>>

\* clearRecovery: persist the completion, then unlink the barrier.
Clear(p) ==
    /\ pc[p] = "clear"
    /\ \/ Persists("completion-confirmed") /\ Goto(p, "unlink")
       \/ PersistFails("completion-confirmed") /\ Goto(p, "uncertain")
    /\ UNCHANGED <<versions, brokerVars, lock, job, machine>>

Unlink(p) ==
    /\ pc[p] = "unlink"
    /\ \/ /\ Changes([root EXCEPT !.barrier = None]) /\ Goto(p, "end")
          /\ job' = [job EXCEPT ![p].required = FALSE, ![p].says = job[p].target]
       \/ UNCHANGED <<rootVars, job>> /\ Goto(p, "uncertain")
    /\ UNCHANGED <<versions, brokerVars, lock, machine>>

-----------------------------------------------------------------------------
(* Rollback.                                                                *)

RollbackPending(p) ==
    /\ pc[p] = "rollback"
    /\ \/ Persists("rollback-pending") /\ Goto(p, "back")
       \/ PersistFails("rollback-pending") /\ Goto(p, "end")
    /\ UNCHANGED <<versions, brokerVars, lock, job, machine>>

RollbackPointer(p) == Point(p, "back", "current", job[p].from, "rbRestart")

\* From here on every report says rolledBack.
RollbackRestart(p) ==
    /\ pc[p] = "rbRestart"
    /\ \/ Restarted /\ Goto(p, "rbHealth")
       \/ RestartRefused /\ Goto(p, "diagnostic")
       \/ StopUnconfirmed /\ Goto(p, "uncertain")
    /\ job' = [job EXCEPT ![p].says = job[p].from]
    /\ UNCHANGED <<rootVars, versions, lock, machine>>

RollbackHealth(p) ==
    /\ pc[p] = "rbHealth"
    /\ \/ broker = job[p].from /\ Goto(p, "rbClear")
       \/ Goto(p, "diagnostic")
    /\ UNCHANGED <<rootVars, versions, brokerVars, lock, job, machine>>

\* The failure is kept in activation-failure.json; when that fails too, the barrier stays.
Diagnostic(p) ==
    /\ pc[p] = "diagnostic"
    /\ \/ /\ past' = IF platform = "win32" THEN past ELSE {root}
          /\ Goto(p, "rbClear") /\ UNCHANGED root
       \/ /\ Persists("diagnostic-persistence-failed") \/ PersistFails("diagnostic-persistence-failed")
          /\ Goto(p, "end")
    /\ UNCHANGED <<versions, brokerVars, lock, job, machine>>

RollbackClear(p) ==
    /\ pc[p] = "rbClear"
    /\ \/ Persists("completion-confirmed") /\ Goto(p, "rbUnlink")
       \/ PersistFails("completion-confirmed") /\ Goto(p, "end")
    /\ UNCHANGED <<versions, brokerVars, lock, job, machine>>

RollbackUnlink(p) ==
    /\ pc[p] = "rbUnlink"
    /\ \/ /\ Changes([root EXCEPT !.barrier = None]) /\ job' = [job EXCEPT ![p].required = FALSE]
       \/ UNCHANGED <<rootVars, job>>
    /\ Goto(p, "end")
    /\ UNCHANGED <<versions, brokerVars, lock, machine>>

\* Mutant: a recovery that is only reported takes the barrier with it.
UncertainCleared(p) ==
    /\ pc[p] = "uncertain" /\ Changes([root EXCEPT !.barrier = None])
    /\ Goto(p, "end")
    /\ UNCHANGED <<versions, brokerVars, lock, job, machine>>

\* uncertain(): leave evidence in the barrier, which stands whether or not that succeeds.
Uncertain(p) ==
    /\ pc[p] = "uncertain"
    /\ Persists("unconfirmed") \/ PersistFails("unconfirmed")
    /\ Goto(p, "end")
    /\ UNCHANGED <<versions, brokerVars, lock, job, machine>>

\* finally: update.end unless recovery is required; then the report.
End(p) ==
    /\ pc[p] = "end"
    /\ lease' = IF job[p].token /\ ~job[p].required /\ lease = p THEN None ELSE lease
    /\ reported' = IF job[p].says # None THEN job[p].says ELSE reported
    /\ Release(p)
    /\ UNCHANGED <<rootVars, versions, broker, sessions, platform, confirmed>>

-----------------------------------------------------------------------------
(* Preparation (prepareVersionUnlocked) and pruning (pruneVersionsUnlocked).*)

\* Only a version that has no directory is downloaded, into a staging directory.
Prepare(p, v) ==
    /\ versions[v] = "absent"
    /\ Start(p, "staging", [NoJob EXCEPT !.target = v])
    /\ UNCHANGED <<rootVars, versions, brokerVars, machine>>

\* Sealed before the rename, or on Windows after it; or refused.
Prepared(p) ==
    /\ \/ /\ pc[p] = "staging" /\ platform # "win32" /\ Release(p)
          /\ versions' = [versions EXCEPT ![job[p].target] = "sealed"]
       \/ /\ pc[p] = "staging" /\ platform = "win32" /\ Goto(p, "sealing") /\ UNCHANGED <<lock, job>>
          /\ versions' = [versions EXCEPT ![job[p].target] = "unsealed"]
       \/ /\ pc[p] = "sealing" /\ Release(p)
          /\ versions' = [versions EXCEPT ![job[p].target] = "sealed"]
       \/ /\ pc[p] \in {"staging", "sealing"} /\ Release(p) /\ UNCHANGED versions
    /\ UNCHANGED <<rootVars, brokerVars, machine>>

\* The newest SpareLimit of the versions no pointer names are kept.
Prunable == {v \in Versions : versions[v] # "absent" /\ v \notin {root.current, root.previous}}
Spare == {v \in Prunable : Cardinality({w \in Prunable : w > v}) < SpareLimit}

Prune(p) ==
    /\ platform # "win32" /\ root.barrier = None /\ versions[root.current] = "sealed"
    /\ Prunable \ Spare # {}
    /\ Start(p, "pruning", [NoJob EXCEPT !.doomed = Prunable \ Spare])
    /\ UNCHANGED <<rootVars, versions, brokerVars, machine>>

\* rm -r is not atomic: a version is first broken, then gone.
PruneNext(p) ==
    /\ pc[p] = "pruning"
    /\ \E v \in job[p].doomed :
        /\ \A w \in job[p].doomed : v <= w
        /\ \/ /\ versions[v] = "sealed" /\ versions' = [versions EXCEPT ![v] = "unsealed"]
              /\ UNCHANGED <<lock, pc, job>>
           \/ /\ versions[v] # "sealed" /\ versions' = [versions EXCEPT ![v] = "absent"]
              /\ IF job[p].doomed = {v} THEN Release(p)
                 ELSE job' = [job EXCEPT ![p].doomed = @ \ {v}] /\ UNCHANGED <<lock, pc>>
    /\ UNCHANGED <<rootVars, brokerVars, machine>>

-----------------------------------------------------------------------------
(* The broker and its sessions.                                             *)

\* requireUpdateAdmission and the update lease, as BrokerAdmission has them.
SessionOpens ==
    /\ broker # None /\ lease = None /\ root.barrier = None /\ sessions < MaxSessions
    /\ sessions' = sessions + 1
    /\ UNCHANGED <<rootVars, versions, broker, lease, lock, pc, job, machine>>

SessionCloses ==
    /\ sessions > 0 /\ sessions' = sessions - 1
    /\ UNCHANGED <<rootVars, versions, broker, lease, lock, pc, job, machine>>

\* The barrier follows the lease at once: assumed written before the lease expires
\* (120 s) and before a broker that dies is started again.
LeaseLost == \A p \in Updaters : lease = p => pc[p] # "persist"

LeaseExpires ==
    /\ lease # None /\ LeaseLost /\ lease' = None
    /\ UNCHANGED <<rootVars, versions, broker, sessions, lock, pc, job, machine>>

BrokerDies ==
    /\ broker # None /\ LeaseLost /\ broker' = None /\ lease' = None /\ sessions' = 0
    /\ UNCHANGED <<rootVars, versions, lock, pc, job, machine>>

\* The service manager starts what the current pointer names.
BrokerStarts ==
    /\ broker = None /\ root.current \in Good /\ versions[root.current] = "sealed"
    /\ broker' = root.current
    /\ UNCHANGED <<rootVars, versions, lease, sessions, lock, pc, job, machine>>

-----------------------------------------------------------------------------
(* Crashes.                                                                 *)

\* flock dies with its process; the lock directory of other platforms stays.
Orphaned == IF platform = "linux" \/ lock = None THEN None ELSE Stale

Killed(p) ==
    /\ pc[p] # "idle" /\ lock' = Orphaned
    /\ Goto(p, "idle") /\ job' = [job EXCEPT ![p] = NoJob]
    /\ UNCHANGED <<rootVars, versions, brokerVars, machine>>

PowerLoss ==
    /\ root' \in past /\ past' = {root'}
    /\ broker' = None /\ lease' = None /\ sessions' = 0 /\ lock' = Orphaned
    /\ pc' = [p \in Updaters |-> "idle"] /\ job' = [p \in Updaters |-> NoJob]
    /\ UNCHANGED <<versions, machine>>

ActivationStep(p) ==
    \/ UpdateBegun(p) \/ UpdateRefused(p) \/ Pending(p)
    \/ PointPrevious(p) \/ PointCurrent(p) \/ Restart(p) \/ Health(p) \/ Clear(p) \/ Unlink(p)
    \/ RollbackPending(p) \/ RollbackPointer(p) \/ RollbackRestart(p) \/ RollbackHealth(p)
    \/ Diagnostic(p) \/ RollbackClear(p) \/ RollbackUnlink(p) \/ Uncertain(p) \/ End(p)

UpdaterStep(p) == ActivationStep(p) \/ Prepared(p) \/ PruneNext(p)

Next ==
    \/ \E p \in Updaters :
        \/ \E v \in Versions : ActivateAdmitted(p, v) \/ Prepare(p, v)
        \/ UpdaterStep(p) \/ Prune(p) \/ Killed(p)
    \/ SessionOpens \/ SessionCloses \/ LeaseExpires \/ BrokerDies \/ BrokerStarts \/ PowerLoss

Spec == Init /\ [][Next]_vars

-----------------------------------------------------------------------------
(* Properties.                                                              *)

\* What a power loss may leave, the present root included.
Roots == past \cup {root}

TypeOK ==
    /\ Roots \subseteq [current : Versions, previous : Versions \cup {None}, barrier : Phases \cup {None}]
    /\ root \in past
    /\ versions \in [Versions -> {"absent", "unsealed", "sealed"}]
    /\ broker \in Good \cup {None} /\ lease \in Updaters \cup {None} /\ sessions \in 0..MaxSessions
    /\ lock \in Updaters \cup {None, Stale}
    /\ pc \in [Updaters -> Steps]
    /\ \A p \in Updaters : pc[p] # "idle" <=> lock = p
    /\ job \in [Updaters -> [target : Versions \cup {None}, from : Versions \cup {None},
                             required : BOOLEAN, token : BOOLEAN, says : Versions \cup {None},
                             doomed : SUBSET Versions]]
    /\ confirmed \subseteq Good /\ reported \in Versions \cup {None}

\* Wherever an updater is killed or the power fails, the current pointer names a
\* version whose broker has answered, or a barrier that does not claim completion
\* keeps every broker from admitting a session (activateVersionUnlocked).
BarrierCoversDoubt ==
    \A r \in Roots : r.barrier \in {None, "completion-confirmed"} => r.current \in confirmed

\* No session is open behind a barrier: an activation, its rollback and its restarts
\* end none, and none begins while the barrier stands.
SessionsUndisturbed == sessions > 0 => root.barrier = None

\* Doubt about the version that the current pointer names, the one that every broker
\* started from now on runs, is always covered by a barrier and costs no session
\* (activateVersionUnlocked, recover).
DoubtCovered == BarrierCoversDoubt /\ SessionsUndisturbed

\* The broker that runs is of a version that has not answered, and admits sessions.
InDoubt == broker \notin confirmed \cup {None} /\ root.barrier = None

\* No step leaves that doubt uncovered.  Doubt about the broker that runs is left uncovered in
\* one way only: by the end of a rollback, which unlinks the barrier whatever its restart did
\* (activateVersionUnlocked).  No activation, lost lease, broker that dies or is started, kill
\* or power loss does it.
DoubtHeld ==
    [][/\ DoubtCovered'
       /\ InDoubt' /\ ~InDoubt => \E p \in Updaters : pc[p] = "rbUnlink"]_vars

\* docs/updates.md:5: recovery state is retained when activation is uncertain.  A rollback
\* whose restart is refused leaves the broker that failed its health check running.
RecoveryRetained == ~InDoubt

\* Both pointers always name complete versions, whatever prepare, prune, a kill or a
\* power loss did meanwhile: there is a version to run and one to go back to.
PointersPrepared ==
    \A r \in Roots : \A v \in {r.current, r.previous} \ {None} : versions[v] = "sealed"

\* At every moment one of the pointers names a version that has worked here.
WayBack == \A r \in Roots : {r.current, r.previous} \cap confirmed # {}

\* Until another activation begins, the version an activation or rollback reported is
\* current, or a barrier says that something remains to be done; where directories
\* are synced (not on Windows) a power loss does not take a report back.
ReportDurable ==
    reported # None /\ platform # "win32" => \A r \in Roots : r.current = reported \/ r.barrier # None

\* Wherever an updater stops there is something to run and something to go back to,
\* and what it reported stays.
PointersSound == TypeOK /\ PointersPrepared /\ WayBack /\ ReportDurable
=============================================================================
