------------------------ MODULE BrokerAdmissionProofs ------------------------
(***************************************************************************)
(* Proofs about BrokerAdmission, for any number of calls, callers,         *)
(* applications, opening identities and updaters, and about OwnerOpening,  *)
(* for any windows, workspaces and whatever the owner does.                *)
(***************************************************************************)
EXTENDS BrokerAdmission, OwnerOpening, FiniteSetTheorems, SequenceTheorems, TLAPS

Labels == {"absent", "new", "admitting", "queued", "native", "made", "undoing", "waiting", "done", "failed"}

\* The types the arguments below need.
PlaceType ==
    /\ pc \in [Reqs -> Labels]
    /\ sess \in [Creates -> {"none", "open", "closing", "stuck", "closed"}]
    /\ updater \in [Updaters -> {"absent", "idle", "asking", "begun", "written", "cleared"}]
    /\ updateLease \in Updaters \cup {None}

\* A granted lease finds nothing in flight and keeps everything out; only its
\* holder writes the recovery file, and the file keeps sessions out after it.
LeaseInv ==
    /\ updateLease # None => Creating = {} /\ Alive = {}
    /\ \A u \in Updaters : updater[u] = "begun" => updateLease = u
    /\ recovery => /\ Alive = {} /\ \A r \in Creates : pc[r] \in Settled
                   /\ \A o \in Opens : pc[o] \notin {"native", "made", "undoing"}

\* The identity of an opening in flight is its own, and is launched once.
LaunchInv ==
    /\ nativeOpens \in [OpenKeys -> Opens \cup {None}]
    /\ launched \in [OpenKeys -> {0, 1}]
    /\ \A k \in OpenKeys : nativeOpens[k] = None => launched[k] = 0
    /\ \A o \in Opens :
          /\ pc[o] \in {"queued", "native"} => nativeOpens[KeyOf[o]] = o
          /\ pc[o] = "queued" => launched[KeyOf[o]] = 0
          /\ pc[o] = "native" => launched[KeyOf[o]] = 1

\* A call has a session only when it is done, and the keys are exact.
KeyInv ==
    /\ \A r \in Creates : sess[r] # "none" => pc[r] = "done"
    /\ KeysExact

\* The sessions that are there and those on their way are fewer than the limit.
LimitInv == Cardinality(Alive \cup Passed) < Limit

\* A shutdown waits for every call that is in flight.
ShutInv ==
    /\ shut # "no" => Creating \subseteq awaited
    /\ shut \in {"stopping", "done"} => Creating = {} /\ \A r \in Creates : sess[r] # "open"

WorkspaceInv ==
    /\ allocations \in [OpenKeys -> Nat]
    /\ DistinctWorkspaces

\* creationTail: the call whose native part runs is its head, so there is only one.
TailInv ==
    /\ tail \in Seq(Reqs)
    /\ \A r \in Reqs : pc[r] = "native" => tail # <<>> /\ Head(tail) = r

\* The types of the rest.
RestType ==
    /\ waits \in [Creates -> Nat] /\ DOMAIN queue = Apps
    /\ orphan \in [Creates -> BOOLEAN] /\ leases \subseteq Profiles
    /\ holder \in [Apps -> Creates \cup {None}]
    /\ allocations \in [OpenKeys -> Workspaces \cup {0}]
    /\ recovery \in BOOLEAN /\ shut \in {"no", "draining", "stopping", "done"}
    /\ awaited \subseteq Reqs
    /\ caller \in [Callers -> {"up", "dead"}] /\ gone \in [Callers -> BOOLEAN]

IInv == PlaceType /\ LeaseInv /\ LaunchInv /\ KeyInv /\ LimitInv /\ ShutInv /\ WorkspaceInv
        /\ TailInv /\ RestType

LEMMA InitHolds == Init => IInv
  <1>. SUFFICES ASSUME Init PROVE IInv
    OBVIOUS
  <1>. USE AdmissionAssumption DEF Reqs
  <1>0. /\ pc \in [Reqs -> {"new", "absent"}]
        /\ updater \in [Updaters -> {"idle", "absent"}]
    BY DEF Init
  <1>1. PlaceType
    BY <1>0 DEF PlaceType, Labels, Init
  <1>2. LeaseInv
    BY <1>0 DEF LeaseInv, Creating, Alive, Settled, Init
  <1>3. LaunchInv
    BY <1>0 DEF LaunchInv, Init
  <1>4. ShutInv
    BY DEF ShutInv, Init
  <1>6. KeyInv
    <2>1. \A r \in Creates : sess[r] = "none" /\ pc[r] \in {"new", "absent"}
      BY <1>0 DEF Init
    <2>2. Claiming = {} /\ Alive = {}
      BY <2>1 DEF Claiming, Alive
    <2>3. leases = {}
      BY DEF Init
    <2>. QED BY <2>1, <2>2, <2>3 DEF KeyInv, KeysExact
  <1>7. LimitInv
    <2>1. Alive \cup Passed = {}
      BY <1>0 DEF Alive, Passed, Init
    <2>2. Cardinality(Alive \cup Passed) = 0
      BY <2>1, FS_EmptySet, Zenon
    <2>3. 0 < Limit
      <3>1. Limit \in Nat \ {0}
        BY AdmissionAssumption
      <3>. QED BY <3>1
    <2>. QED BY <2>2, <2>3 DEF LimitInv
  <1>5. WorkspaceInv
    BY DEF WorkspaceInv, DistinctWorkspaces, Init
  <1>8. TailInv
    <2>1. \A r \in Reqs : pc[r] # "native"
      BY <1>0
    <2>. QED BY <2>1 DEF TailInv, Init
  <1>9. RestType
    BY DEF RestType, Init
  <1>. QED BY <1>1, <1>2, <1>3, <1>4, <1>5, <1>6, <1>7, <1>8, <1>9 DEF IInv

\* The lease and the recovery file keep sessions and native calls out.
LEMMA LeaseStep ==
    ASSUME PlaceType, LeaseInv, [Next]_vars PROVE PlaceType' /\ LeaseInv'
  <1>. USE AdmissionAssumption DEF PlaceType, LeaseInv, Labels, Reqs, Settled, Creating, Alive,
         Goto, createVars, sessVars, openVars, updateVars, shutVars, callerVars
  <1>1. ASSUME NEW a \in Apps, NEW c \in Callers, QueueDrops(a, c)
        PROVE PlaceType' /\ LeaseInv'
    BY <1>1 DEF QueueDrops
  <1>2. ASSUME NEW r \in Creates, Create(r)
        PROVE PlaceType' /\ LeaseInv'
    BY <1>2 DEF Create
  <1>3. ASSUME NEW r \in Creates, CreateAdmitted(r)
        PROVE PlaceType' /\ LeaseInv'
    <2>1. /\ pc[r] = "admitting" /\ r \in Reqs
          /\ \/ pc' = [pc EXCEPT ![r] = "failed"]
             \/ updateLease = None /\ \E label \in {"waiting", "queued"} : pc' = [pc EXCEPT ![r] = label]
          /\ UNCHANGED <<sess, updater, updateLease, recovery>>
      BY <1>3 DEF CreateAdmitted, Attempt, WaitOrGiveUp
    <2>2. PlaceType'
      BY <2>1
    <2>3. LeaseInv'
      BY <2>1
    <2>. QED BY <2>2, <2>3
  <1>4. ASSUME NEW r \in Creates, Retry(r)
        PROVE PlaceType' /\ LeaseInv'
    <2>1. /\ pc[r] = "waiting" /\ r \in Reqs
          /\ \E label \in {"waiting", "queued", "failed"} : pc' = [pc EXCEPT ![r] = label]
          /\ UNCHANGED <<sess, updater, updateLease, recovery>>
      BY <1>4 DEF Retry, Attempt, WaitOrGiveUp
    <2>2. PlaceType'
      BY <2>1
    <2>3. LeaseInv'
      BY <2>1
    <2>. QED BY <2>2, <2>3
  <1>5. ASSUME NEW r \in Creates, NativeStarts(r)
        PROVE PlaceType' /\ LeaseInv'
    <2>1. /\ pc[r] = "queued" /\ r \in Reqs
          /\ \/ pc' = [pc EXCEPT ![r] = "failed"]
             \/ ~recovery /\ pc' = [pc EXCEPT ![r] = "native"]
          /\ UNCHANGED <<sess, updater, updateLease, recovery>>
      BY <1>5 DEF NativeStarts
    <2>2. PlaceType'
      BY <2>1
    <2>3. LeaseInv'
      BY <2>1
    <2>. QED BY <2>2, <2>3
  <1>6. ASSUME NEW r \in Creates, NativeClaims(r)
        PROVE PlaceType' /\ LeaseInv'
    <2>1. /\ pc[r] = "native" /\ r \in Reqs
          /\ pc' = [pc EXCEPT ![r] = "made"]
          /\ UNCHANGED <<sess, updater, updateLease, recovery>>
      BY <1>6 DEF NativeClaims
    <2>2. PlaceType'
      BY <2>1
    <2>3. LeaseInv'
      BY <2>1
    <2>. QED BY <2>2, <2>3
  <1>7. ASSUME NEW r \in Creates, NativeBusy(r)
        PROVE PlaceType' /\ LeaseInv'
    <2>1. /\ pc[r] = "native" /\ r \in Reqs
          /\ \E label \in {"waiting", "failed"} : pc' = [pc EXCEPT ![r] = label]
          /\ UNCHANGED <<sess, updater, updateLease, recovery>>
      BY <1>7 DEF NativeBusy, WaitOrGiveUp
    <2>2. PlaceType'
      BY <2>1
    <2>3. LeaseInv'
      BY <2>1
    <2>. QED BY <2>2, <2>3
  <1>8. ASSUME NEW r \in Creates, NativeFails(r)
        PROVE PlaceType' /\ LeaseInv'
    <2>1. /\ pc[r] = "native" /\ r \in Reqs
          /\ pc' = [pc EXCEPT ![r] = "failed"]
          /\ UNCHANGED <<sess, updater, updateLease, recovery>>
      BY <1>8 DEF NativeFails
    <2>2. PlaceType'
      BY <2>1
    <2>3. LeaseInv'
      BY <2>1
    <2>. QED BY <2>2, <2>3
  <1>9. ASSUME NEW r \in Creates, Register(r)
        PROVE PlaceType' /\ LeaseInv'
    BY <1>9 DEF Register
  <1>10. ASSUME NEW r \in Creates, RegisterFails(r)
        PROVE PlaceType' /\ LeaseInv'
    BY <1>10 DEF RegisterFails
  <1>11. ASSUME NEW r \in Creates, Undone(r)
        PROVE PlaceType' /\ LeaseInv'
    BY <1>11 DEF Undone
  <1>12. ASSUME NEW r \in Creates, StopSession(r)
        PROVE PlaceType' /\ LeaseInv'
    BY <1>12 DEF StopSession
  <1>13. ASSUME NEW r \in Creates, SessionCloses(r)
        PROVE PlaceType' /\ LeaseInv'
    BY <1>13 DEF SessionCloses
  <1>13a. ASSUME NEW r \in Creates, StopFails(r)
        PROVE PlaceType' /\ LeaseInv'
    BY <1>13a DEF StopFails
  <1>14. ASSUME NEW r \in Creates, GraceEnds(r)
        PROVE PlaceType' /\ LeaseInv'
    BY <1>14 DEF GraceEnds, StopSession
  <1>15. ASSUME NEW o \in Opens, Open(o)
        PROVE PlaceType' /\ LeaseInv'
    BY <1>15 DEF Open
  <1>16. ASSUME NEW o \in Opens, OpenAdmitted(o)
        PROVE PlaceType' /\ LeaseInv'
    <2>1. /\ pc[o] = "admitting" /\ o \in Opens /\ o \in Reqs /\ o \notin Creates
          /\ \/ pc' = [pc EXCEPT ![o] = "failed"] \/ pc' = [pc EXCEPT ![o] = "done"]
             \/ updateLease = None /\ pc' = [pc EXCEPT ![o] = "queued"]
          /\ UNCHANGED <<sess, updater, updateLease, recovery>>
      BY <1>16 DEF OpenAdmitted
    <2>2. PlaceType'
      BY <2>1
    <2>3. LeaseInv'
      BY <2>1
    <2>. QED BY <2>2, <2>3
  <1>17. ASSUME NEW o \in Opens, OpenStarts(o)
        PROVE PlaceType' /\ LeaseInv'
    <2>1. /\ pc[o] = "queued" /\ o \in Opens /\ o \in Reqs /\ o \notin Creates
          /\ \/ pc' = [pc EXCEPT ![o] = "failed"]
             \/ ~recovery /\ updateLease = None /\ pc' = [pc EXCEPT ![o] = "native"]
          /\ UNCHANGED <<sess, updater, updateLease, recovery>>
      BY <1>17 DEF OpenStarts
    <2>2. PlaceType'
      BY <2>1
    <2>3. LeaseInv'
      BY <2>1
    <2>. QED BY <2>2, <2>3
  <1>18. ASSUME NEW o \in Opens, OpenAnswered(o)
        PROVE PlaceType' /\ LeaseInv'
    <2>1. /\ pc[o] = "native" /\ o \in Opens /\ o \in Reqs /\ o \notin Creates
          /\ pc' = [pc EXCEPT ![o] = "failed"] \/ pc' = [pc EXCEPT ![o] = "done"]
          /\ UNCHANGED <<sess, updater, updateLease, recovery>>
      BY <1>18 DEF OpenAnswered
    <2>2. PlaceType'
      BY <2>1
    <2>3. LeaseInv'
      BY <2>1
    <2>. QED BY <2>2, <2>3
  <1>19. ASSUME NEW u \in Updaters, UpdateAsks(u)
        PROVE PlaceType' /\ LeaseInv'
    BY <1>19 DEF UpdateAsks
  <1>20. ASSUME NEW u \in Updaters, UpdateBegins(u)
        PROVE PlaceType' /\ LeaseInv'
    BY <1>20 DEF UpdateBegins
  <1>21. ASSUME NEW u \in Updaters, UpdateEnds(u)
        PROVE PlaceType' /\ LeaseInv'
    BY <1>21 DEF UpdateEnds
  <1>22. ASSUME NEW u \in Updaters, RecoveryWritten(u)
        PROVE PlaceType' /\ LeaseInv'
    <2>1. /\ updater[u] = "begun" /\ UNCHANGED <<pc, sess, updateLease>>
          /\ recovery' \in {recovery, TRUE}
          /\ \E place \in {"written", "cleared"} : updater' = [updater EXCEPT ![u] = place]
      BY <1>22 DEF RecoveryWritten
    <2>2. PlaceType'
      BY <2>1
    <2>3. LeaseInv'
      BY <2>1
    <2>. QED BY <2>2, <2>3
  <1>23. ASSUME NEW u \in Updaters, RecoveryCleared(u)
        PROVE PlaceType' /\ LeaseInv'
    BY <1>23 DEF RecoveryCleared
  <1>24. CASE LeaseExpires
    BY <1>24 DEF LeaseExpires
  <1>25. CASE ShutBegins
    BY <1>25 DEF ShutBegins
  <1>26. CASE ShutStops
    <2>1. /\ UNCHANGED <<pc, updater, updateLease, recovery>>
          /\ sess' = [r \in Creates |-> IF sess[r] = "open" THEN "closing" ELSE sess[r]]
      BY <1>26 DEF ShutStops
    <2>2. PlaceType' /\ Alive' = Alive
      BY <2>1
    <2>3. LeaseInv'
      BY <2>1, <2>2
    <2>. QED BY <2>2, <2>3
  <1>27. CASE ShutEnds
    BY <1>27 DEF ShutEnds
  <1>28. ASSUME NEW c \in Callers, CallerDies(c)
        PROVE PlaceType' /\ LeaseInv'
    BY <1>28 DEF CallerDies
  <1>29. ASSUME NEW c \in Callers, CallerGone(c)
        PROVE PlaceType' /\ LeaseInv'
    BY <1>29 DEF CallerGone
  <1>30. ASSUME NEW c \in Callers, CallerReturns(c)
        PROVE PlaceType' /\ LeaseInv'
    BY <1>30 DEF CallerReturns
  <1>31. CASE UNCHANGED vars
    BY <1>31 DEF vars
  <1>. QED BY <1>1, <1>2, <1>13a, <1>3, <1>4, <1>5, <1>6, <1>7, <1>8, <1>9, <1>10, <1>11, <1>12, <1>13, <1>14, <1>15, <1>16, <1>17, <1>18, <1>19, <1>20, <1>21, <1>22, <1>23, <1>24, <1>25, <1>26, <1>27, <1>28, <1>29, <1>30, <1>31 DEF Next

\* The identity of an opening is taken before its launch and stays taken.
LEMMA LaunchStep ==
    ASSUME PlaceType, LaunchInv, [Next]_vars PROVE LaunchInv'
  <1>. USE AdmissionAssumption DEF PlaceType, LaunchInv, Labels, Reqs,
         Goto, createVars, sessVars, openVars, updateVars, shutVars, callerVars
  <1>1. ASSUME NEW a \in Apps, NEW c \in Callers, QueueDrops(a, c) PROVE LaunchInv'
    BY <1>1 DEF QueueDrops
  <1>2. ASSUME NEW r \in Creates, Create(r) PROVE LaunchInv'
    BY <1>2 DEF Create
  <1>3. ASSUME NEW r \in Creates, CreateAdmitted(r) PROVE LaunchInv'
    BY <1>3 DEF CreateAdmitted, Attempt, WaitOrGiveUp
  <1>4. ASSUME NEW r \in Creates, Retry(r) PROVE LaunchInv'
    BY <1>4 DEF Retry, Attempt, WaitOrGiveUp
  <1>5. ASSUME NEW r \in Creates, NativeStarts(r) PROVE LaunchInv'
    BY <1>5 DEF NativeStarts
  <1>6. ASSUME NEW r \in Creates, NativeClaims(r) PROVE LaunchInv'
    BY <1>6 DEF NativeClaims
  <1>7. ASSUME NEW r \in Creates, NativeBusy(r) PROVE LaunchInv'
    BY <1>7 DEF NativeBusy, WaitOrGiveUp
  <1>8. ASSUME NEW r \in Creates, NativeFails(r) PROVE LaunchInv'
    BY <1>8 DEF NativeFails
  <1>9. ASSUME NEW r \in Creates, Register(r) PROVE LaunchInv'
    BY <1>9 DEF Register
  <1>10. ASSUME NEW r \in Creates, RegisterFails(r) PROVE LaunchInv'
    BY <1>10 DEF RegisterFails
  <1>11. ASSUME NEW r \in Creates, Undone(r) PROVE LaunchInv'
    BY <1>11 DEF Undone
  <1>12. ASSUME NEW r \in Creates, StopSession(r) PROVE LaunchInv'
    BY <1>12 DEF StopSession
  <1>13. ASSUME NEW r \in Creates, SessionCloses(r) PROVE LaunchInv'
    BY <1>13 DEF SessionCloses
  <1>13a. ASSUME NEW r \in Creates, StopFails(r) PROVE LaunchInv'
    BY <1>13a DEF StopFails
  <1>14. ASSUME NEW r \in Creates, GraceEnds(r) PROVE LaunchInv'
    BY <1>14 DEF GraceEnds, StopSession
  <1>15. ASSUME NEW o \in Opens, Open(o) PROVE LaunchInv'
    BY <1>15 DEF Open
  <1>16. ASSUME NEW o \in Opens, OpenAdmitted(o) PROVE LaunchInv'
    <2>. DEFINE k == KeyOf[o]
    <2>1. /\ k \in OpenKeys /\ o \in Reqs /\ pc[o] = "admitting" /\ launched' = launched
          /\ \/ pc' \in {[pc EXCEPT ![o] = l] : l \in {"failed", "done"}} /\ nativeOpens' = nativeOpens
             \/ /\ pc' = [pc EXCEPT ![o] = "queued"] /\ nativeOpens[k] = None
                /\ nativeOpens' = [nativeOpens EXCEPT ![k] = o]
      BY <1>16 DEF OpenAdmitted
    <2>2. CASE nativeOpens' = nativeOpens /\ pc' \in {[pc EXCEPT ![o] = l] : l \in {"failed", "done"}}
      BY <2>1, <2>2
    <2>3. CASE /\ pc' = [pc EXCEPT ![o] = "queued"] /\ nativeOpens[k] = None
               /\ nativeOpens' = [nativeOpens EXCEPT ![k] = o]
      <3>1. launched[k] = 0
        BY <2>1, <2>3
      <3>2. \A p \in Opens : pc[p] \in {"queued", "native"} => KeyOf[p] # k
        BY <2>3
      <3>. QED BY <2>1, <2>3, <3>1, <3>2
    <2>. QED BY <2>1, <2>2, <2>3
  <1>17. ASSUME NEW o \in Opens, OpenStarts(o) PROVE LaunchInv'
    <2>. DEFINE k == KeyOf[o]
    <2>1. /\ k \in OpenKeys /\ o \in Reqs /\ pc[o] = "queued" /\ nativeOpens' = nativeOpens
          /\ launched[k] = 0 /\ nativeOpens[k] = o
          /\ \/ pc' = [pc EXCEPT ![o] = "failed"] /\ launched' = launched
             \/ pc' = [pc EXCEPT ![o] = "native"] /\ launched' = [launched EXCEPT ![k] = @ + 1]
      <3>1. /\ pc[o] = "queued" /\ nativeOpens' = nativeOpens
            /\ \/ pc' = [pc EXCEPT ![o] = "failed"] /\ launched' = launched
               \/ pc' = [pc EXCEPT ![o] = "native"] /\ launched' = [launched EXCEPT ![k] = @ + 1]
        <4>. HIDE DEF LaunchInv, PlaceType
        <4>. QED BY <1>17 DEF OpenStarts
      <3>. QED BY <1>17, <3>1
    <2>2. CASE pc' = [pc EXCEPT ![o] = "failed"] /\ launched' = launched
      BY <2>1, <2>2
    <2>3. CASE pc' = [pc EXCEPT ![o] = "native"] /\ launched' = [launched EXCEPT ![k] = @ + 1]
      <3>1. launched' = [launched EXCEPT ![k] = 1]
        BY <2>1, <2>3
      <3>2. \A p \in Opens \ {o} : pc[p] \in {"queued", "native"} => KeyOf[p] # k
        BY <2>1
      <3>. QED BY <2>1, <2>3, <3>1, <3>2
    <2>. QED BY <2>1, <2>2, <2>3
  <1>18. ASSUME NEW o \in Opens, OpenAnswered(o) PROVE LaunchInv'
    <2>. DEFINE k == KeyOf[o]
    <2>1. /\ k \in OpenKeys /\ o \in Reqs /\ pc[o] = "native"
          /\ launched[k] = 1 /\ nativeOpens[k] = o
          /\ \/ /\ pc' \in {[pc EXCEPT ![o] = l] : l \in {"failed", "done"}}
                /\ nativeOpens' = nativeOpens /\ launched' = launched
             \/ /\ pc' = [pc EXCEPT ![o] = "failed"]
                /\ nativeOpens' = [nativeOpens EXCEPT ![k] = None]
                /\ launched' = [launched EXCEPT ![k] = @ - 1]
      BY <1>18 DEF OpenAnswered
    <2>2. CASE nativeOpens' = nativeOpens /\ launched' = launched
      BY <2>1, <2>2
    <2>3. CASE /\ pc' = [pc EXCEPT ![o] = "failed"]
               /\ nativeOpens' = [nativeOpens EXCEPT ![k] = None]
               /\ launched' = [launched EXCEPT ![k] = @ - 1]
      <3>1. launched' = [launched EXCEPT ![k] = 0]
        BY <2>1, <2>3
      <3>2. \A p \in Opens \ {o} : pc[p] \in {"queued", "native"} => KeyOf[p] # k
        BY <2>1
      <3>3. nativeOpens' \in [OpenKeys -> Opens \cup {None}] /\ launched' \in [OpenKeys -> {0, 1}]
        BY <2>1, <2>3, <3>1
      <3>. QED BY <2>1, <2>3, <3>1, <3>2, <3>3
    <2>. QED BY <2>1, <2>2, <2>3
  <1>19. ASSUME NEW u \in Updaters, UpdateAsks(u) PROVE LaunchInv'
    BY <1>19 DEF UpdateAsks
  <1>20. ASSUME NEW u \in Updaters, UpdateBegins(u) PROVE LaunchInv'
    BY <1>20 DEF UpdateBegins
  <1>21. ASSUME NEW u \in Updaters, UpdateEnds(u) PROVE LaunchInv'
    BY <1>21 DEF UpdateEnds
  <1>22. ASSUME NEW u \in Updaters, RecoveryWritten(u) PROVE LaunchInv'
    BY <1>22 DEF RecoveryWritten
  <1>23. ASSUME NEW u \in Updaters, RecoveryCleared(u) PROVE LaunchInv'
    BY <1>23 DEF RecoveryCleared
  <1>24. CASE LeaseExpires
    BY <1>24 DEF LeaseExpires
  <1>25. CASE ShutBegins
    BY <1>25 DEF ShutBegins
  <1>26. CASE ShutStops
    BY <1>26 DEF ShutStops
  <1>27. CASE ShutEnds
    BY <1>27 DEF ShutEnds
  <1>28. ASSUME NEW c \in Callers, CallerDies(c) PROVE LaunchInv'
    BY <1>28 DEF CallerDies
  <1>29. ASSUME NEW c \in Callers, CallerGone(c) PROVE LaunchInv'
    BY <1>29 DEF CallerGone
  <1>30. ASSUME NEW c \in Callers, CallerReturns(c) PROVE LaunchInv'
    BY <1>30 DEF CallerReturns
  <1>31. CASE UNCHANGED vars
    BY <1>31 DEF vars
  <1>. QED BY <1>1, <1>2, <1>13a, <1>3, <1>4, <1>5, <1>6, <1>7, <1>8, <1>9, <1>10, <1>11,
         <1>12, <1>13, <1>14, <1>15, <1>16, <1>17, <1>18, <1>19, <1>20, <1>21, <1>22,
         <1>23, <1>24, <1>25, <1>26, <1>27, <1>28, <1>29, <1>30, <1>31 DEF Next

\* A claim that begins takes a key that is free.
LEMMA KeyTaken ==
    ASSUME PlaceType, KeyInv, NEW r \in Creates, pc[r] \in {"admitting", "waiting"},
           ProfileOf[r] \notin leases, leases' = leases \cup {ProfileOf[r]},
           pc' = [pc EXCEPT ![r] = "queued"], sess' = sess
    PROVE  KeyInv'
  <1>. USE AdmissionAssumption DEF PlaceType, Labels, Reqs
  <1>1. (Claiming \cup Alive)' = (Claiming \cup Alive) \cup {r}
    BY DEF Claiming, Alive
  <1>2. KeysExact'
    BY <1>1 DEF KeyInv, KeysExact
  <1>. QED BY <1>2 DEF KeyInv

\* A claim that ends without a session gives its key back.
LEMMA KeyFreed ==
    ASSUME PlaceType, KeyInv, NEW r \in Creates, pc[r] \in {"queued", "native", "made"},
           NEW l \in {"failed", "waiting", "undoing"}, pc' = [pc EXCEPT ![r] = l],
           leases' = leases \ {ProfileOf[r]}, sess' = sess
    PROVE  KeyInv'
  <1>. USE AdmissionAssumption DEF PlaceType, Labels, Reqs
  <1>1. r \in Claiming /\ (Claiming \cup Alive)' = (Claiming \cup Alive) \ {r}
    BY DEF KeyInv, Claiming, Alive
  <1>2. KeysExact'
    BY <1>1 DEF KeyInv, KeysExact
  <1>. QED BY <1>2 DEF KeyInv

\* A claim takes a free key and gives its own key back.
LEMMA KeyStep ==
    ASSUME PlaceType, KeyInv, [Next]_vars PROVE KeyInv'
  <1>. USE AdmissionAssumption DEF PlaceType, KeyInv, Labels, Reqs, KeysExact, Claiming, Alive,
         Goto, createVars, sessVars, openVars, updateVars, shutVars, callerVars
  <1>1. ASSUME NEW a \in Apps, NEW c \in Callers, QueueDrops(a, c) PROVE KeyInv'
    BY <1>1 DEF QueueDrops
  <1>2. ASSUME NEW r \in Creates, Create(r) PROVE KeyInv'
    BY <1>2 DEF Create
  <1>3. ASSUME NEW r \in Creates, CreateAdmitted(r) PROVE KeyInv'
    <2>. HIDE DEF KeyInv
    <2>1. /\ r \in Creates /\ pc[r] = "admitting" /\ sess' = sess
          /\ \/ pc' \in {[pc EXCEPT ![r] = l] : l \in {"failed", "waiting"}} /\ leases' = leases
             \/ /\ ProfileOf[r] \notin leases /\ leases' = leases \cup {ProfileOf[r]}
                /\ pc' = [pc EXCEPT ![r] = "queued"]
      BY <1>3 DEF CreateAdmitted, Attempt, WaitOrGiveUp
    <2>2. CASE pc' \in {[pc EXCEPT ![r] = l] : l \in {"failed", "waiting"}} /\ leases' = leases
      <3>1. Claiming' = Claiming /\ Alive' = Alive
        BY <2>1, <2>2
      <3>. QED BY <2>1, <2>2, <3>1 DEF KeyInv
    <2>3. CASE /\ ProfileOf[r] \notin leases /\ leases' = leases \cup {ProfileOf[r]}
               /\ pc' = [pc EXCEPT ![r] = "queued"]
      <3>. HIDE DEF KeysExact, Claiming, Alive
      <3>. QED BY <2>1, <2>3, KeyTaken
    <2>. QED BY <2>1, <2>2, <2>3
  <1>4. ASSUME NEW r \in Creates, Retry(r) PROVE KeyInv'
    <2>. HIDE DEF KeyInv
    <2>1. /\ r \in Creates /\ pc[r] = "waiting" /\ sess' = sess
          /\ \/ pc' \in {[pc EXCEPT ![r] = l] : l \in {"failed", "waiting"}} /\ leases' = leases
             \/ /\ ProfileOf[r] \notin leases /\ leases' = leases \cup {ProfileOf[r]}
                /\ pc' = [pc EXCEPT ![r] = "queued"]
      BY <1>4 DEF Retry, Attempt, WaitOrGiveUp
    <2>2. CASE pc' \in {[pc EXCEPT ![r] = l] : l \in {"failed", "waiting"}} /\ leases' = leases
      <3>1. Claiming' = Claiming /\ Alive' = Alive
        BY <2>1, <2>2
      <3>. QED BY <2>1, <2>2, <3>1 DEF KeyInv
    <2>3. CASE /\ ProfileOf[r] \notin leases /\ leases' = leases \cup {ProfileOf[r]}
               /\ pc' = [pc EXCEPT ![r] = "queued"]
      <3>. HIDE DEF KeysExact, Claiming, Alive
      <3>. QED BY <2>1, <2>3, KeyTaken
    <2>. QED BY <2>1, <2>2, <2>3
  <1>5. ASSUME NEW r \in Creates, NativeStarts(r) PROVE KeyInv'
    <2>1. CASE recovery \/ shut # "no"
      BY <1>5, <2>1, KeyFreed DEF NativeStarts
    <2>2. CASE ~(recovery \/ shut # "no")
      <3>1. Claiming' = Claiming /\ Alive' = Alive
        BY <1>5, <2>2 DEF NativeStarts
      <3>. QED BY <1>5, <2>2, <3>1 DEF NativeStarts
    <2>. QED BY <2>1, <2>2
  <1>6. ASSUME NEW r \in Creates, NativeClaims(r) PROVE KeyInv'
    BY <1>6 DEF NativeClaims
  <1>7. ASSUME NEW r \in Creates, NativeBusy(r) PROVE KeyInv'
    BY <1>7, KeyFreed DEF NativeBusy, WaitOrGiveUp
  <1>8. ASSUME NEW r \in Creates, NativeFails(r) PROVE KeyInv'
    BY <1>8, KeyFreed DEF NativeFails
  <1>9. ASSUME NEW r \in Creates, Register(r) PROVE KeyInv'
    BY <1>9 DEF Register
  <1>10. ASSUME NEW r \in Creates, RegisterFails(r) PROVE KeyInv'
    BY <1>10 DEF RegisterFails
  <1>11. ASSUME NEW r \in Creates, Undone(r) PROVE KeyInv'
    BY <1>11 DEF Undone
  <1>12. ASSUME NEW r \in Creates, StopSession(r) PROVE KeyInv'
    BY <1>12 DEF StopSession
  <1>13. ASSUME NEW r \in Creates, SessionCloses(r) PROVE KeyInv'
    BY <1>13 DEF SessionCloses
  <1>13a. ASSUME NEW r \in Creates, StopFails(r) PROVE KeyInv'
    BY <1>13a DEF StopFails
  <1>14. ASSUME NEW r \in Creates, GraceEnds(r) PROVE KeyInv'
    BY <1>14 DEF GraceEnds, StopSession
  <1>15. ASSUME NEW o \in Opens, Open(o) PROVE KeyInv'
    BY <1>15 DEF Open
  <1>16. ASSUME NEW o \in Opens, OpenAdmitted(o) PROVE KeyInv'
    BY <1>16 DEF OpenAdmitted
  <1>17. ASSUME NEW o \in Opens, OpenStarts(o) PROVE KeyInv'
    BY <1>17 DEF OpenStarts
  <1>18. ASSUME NEW o \in Opens, OpenAnswered(o) PROVE KeyInv'
    BY <1>18 DEF OpenAnswered
  <1>19. ASSUME NEW u \in Updaters, UpdateAsks(u) PROVE KeyInv'
    BY <1>19 DEF UpdateAsks
  <1>20. ASSUME NEW u \in Updaters, UpdateBegins(u) PROVE KeyInv'
    BY <1>20 DEF UpdateBegins
  <1>21. ASSUME NEW u \in Updaters, UpdateEnds(u) PROVE KeyInv'
    BY <1>21 DEF UpdateEnds
  <1>22. ASSUME NEW u \in Updaters, RecoveryWritten(u) PROVE KeyInv'
    BY <1>22 DEF RecoveryWritten
  <1>23. ASSUME NEW u \in Updaters, RecoveryCleared(u) PROVE KeyInv'
    BY <1>23 DEF RecoveryCleared
  <1>24. CASE LeaseExpires
    BY <1>24 DEF LeaseExpires
  <1>25. CASE ShutBegins
    BY <1>25 DEF ShutBegins
  <1>26. CASE ShutStops
    <2>1. /\ UNCHANGED <<pc, leases>>
          /\ sess' = [r \in Creates |-> IF sess[r] = "open" THEN "closing" ELSE sess[r]]
      BY <1>26 DEF ShutStops, createVars
    <2>2. Alive' = Alive /\ Claiming' = Claiming
      BY <2>1 DEF Alive, Claiming
    <2>3. \A r \in Creates : sess'[r] # "none" => sess[r] # "none"
      BY <2>1
    <2>. QED BY <2>1, <2>2, <2>3 DEF KeyInv, KeysExact
  <1>27. CASE ShutEnds
    BY <1>27 DEF ShutEnds
  <1>28. ASSUME NEW c \in Callers, CallerDies(c) PROVE KeyInv'
    BY <1>28 DEF CallerDies
  <1>29. ASSUME NEW c \in Callers, CallerGone(c) PROVE KeyInv'
    BY <1>29 DEF CallerGone
  <1>30. ASSUME NEW c \in Callers, CallerReturns(c) PROVE KeyInv'
    BY <1>30 DEF CallerReturns
  <1>31. CASE UNCHANGED vars
    BY <1>31 DEF vars
  <1>. QED BY <1>1, <1>2, <1>13a, <1>3, <1>4, <1>5, <1>6, <1>7, <1>8, <1>9, <1>10, <1>11,
         <1>12, <1>13, <1>14, <1>15, <1>16, <1>17, <1>18, <1>19, <1>20, <1>21, <1>22,
         <1>23, <1>24, <1>25, <1>26, <1>27, <1>28, <1>29, <1>30, <1>31 DEF Next

\* Nothing enters after the shutdown began.
LEMMA ShutStep ==
    ASSUME PlaceType, ShutInv, [Next]_vars PROVE ShutInv'
  <1>. USE AdmissionAssumption DEF PlaceType, ShutInv, Labels, Reqs, Creating, Settled,
         Goto, createVars, sessVars, openVars, updateVars, shutVars, callerVars
  <1>1. ASSUME NEW a \in Apps, NEW c \in Callers, QueueDrops(a, c) PROVE ShutInv'
    BY <1>1 DEF QueueDrops
  <1>2. ASSUME NEW r \in Creates, Create(r) PROVE ShutInv'
    <2>1. UNCHANGED <<shut, awaited, sess>>
      BY <1>2 DEF Create
    <2>2. CASE shut = "no"
      BY <2>1, <2>2
    <2>3. CASE shut # "no"
      <3>1. pc' = [pc EXCEPT ![r] = "failed"]
        BY <1>2, <2>3 DEF Create
      <3>2. Creating' \subseteq Creating
        BY <3>1
      <3>. QED BY <2>1, <3>2
    <2>. QED BY <2>2, <2>3
  <1>. DEFINE Moves(r) == \E label \in Labels : pc' = [pc EXCEPT ![r] = label]
  <1>0. ASSUME NEW r \in Creating, Moves(r), shut' = shut, awaited' = awaited, sess' = sess
        PROVE  ShutInv'
    <2>1. Creating' \subseteq Creating
      BY <1>0
    <2>. QED BY <1>0, <2>1
  <1>3. ASSUME NEW r \in Creates, CreateAdmitted(r) PROVE ShutInv'
    <2>1. r \in Creating
      BY <1>3 DEF CreateAdmitted
    <2>2. Moves(r) /\ shut' = shut /\ awaited' = awaited /\ sess' = sess
      BY <1>3 DEF CreateAdmitted, Attempt, WaitOrGiveUp
    <2>. QED BY <1>0, <2>1, <2>2
  <1>4. ASSUME NEW r \in Creates, Retry(r) PROVE ShutInv'
    <2>1. r \in Creating
      BY <1>4 DEF Retry
    <2>2. Moves(r) /\ shut' = shut /\ awaited' = awaited /\ sess' = sess
      BY <1>4 DEF Retry, Attempt, WaitOrGiveUp
    <2>. QED BY <1>0, <2>1, <2>2
  <1>5. ASSUME NEW r \in Creates, NativeStarts(r) PROVE ShutInv'
    <2>1. r \in Creating
      BY <1>5 DEF NativeStarts
    <2>2. Moves(r) /\ shut' = shut /\ awaited' = awaited /\ sess' = sess
      BY <1>5 DEF NativeStarts
    <2>. QED BY <1>0, <2>1, <2>2
  <1>6. ASSUME NEW r \in Creates, NativeClaims(r) PROVE ShutInv'
    <2>1. r \in Creating
      BY <1>6 DEF NativeClaims
    <2>2. Moves(r) /\ shut' = shut /\ awaited' = awaited /\ sess' = sess
      BY <1>6 DEF NativeClaims
    <2>. QED BY <1>0, <2>1, <2>2
  <1>7. ASSUME NEW r \in Creates, NativeBusy(r) PROVE ShutInv'
    <2>1. r \in Creating
      BY <1>7 DEF NativeBusy
    <2>2. Moves(r) /\ shut' = shut /\ awaited' = awaited /\ sess' = sess
      BY <1>7 DEF NativeBusy, WaitOrGiveUp
    <2>. QED BY <1>0, <2>1, <2>2
  <1>8. ASSUME NEW r \in Creates, NativeFails(r) PROVE ShutInv'
    <2>1. r \in Creating
      BY <1>8 DEF NativeFails
    <2>2. Moves(r) /\ shut' = shut /\ awaited' = awaited /\ sess' = sess
      BY <1>8 DEF NativeFails
    <2>. QED BY <1>0, <2>1, <2>2
  <1>9. ASSUME NEW r \in Creates, Register(r) PROVE ShutInv'
    BY <1>9 DEF Register
  <1>10. ASSUME NEW r \in Creates, RegisterFails(r) PROVE ShutInv'
    <2>1. r \in Creating
      BY <1>10 DEF RegisterFails
    <2>2. Moves(r) /\ shut' = shut /\ awaited' = awaited /\ sess' = sess
      BY <1>10 DEF RegisterFails
    <2>. QED BY <1>0, <2>1, <2>2
  <1>11. ASSUME NEW r \in Creates, Undone(r) PROVE ShutInv'
    <2>1. r \in Creating
      BY <1>11 DEF Undone
    <2>2. Moves(r) /\ shut' = shut /\ awaited' = awaited /\ sess' = sess
      BY <1>11 DEF Undone
    <2>. QED BY <1>0, <2>1, <2>2
  <1>12. ASSUME NEW r \in Creates, StopSession(r) PROVE ShutInv'
    BY <1>12 DEF StopSession
  <1>13. ASSUME NEW r \in Creates, SessionCloses(r) PROVE ShutInv'
    BY <1>13 DEF SessionCloses
  <1>13a. ASSUME NEW r \in Creates, StopFails(r) PROVE ShutInv'
    BY <1>13a DEF StopFails
  <1>14. ASSUME NEW r \in Creates, GraceEnds(r) PROVE ShutInv'
    BY <1>14 DEF GraceEnds, StopSession
  <1>15. ASSUME NEW o \in Opens, Open(o) PROVE ShutInv'
    BY <1>15 DEF Open
  <1>16. ASSUME NEW o \in Opens, OpenAdmitted(o) PROVE ShutInv'
    <2>1. shut' = shut /\ awaited' = awaited /\ sess' = sess
      BY <1>16 DEF OpenAdmitted
    <2>2. CASE shut = "no"
      BY <2>1, <2>2
    <2>3. CASE shut # "no"
      <3>1. pc' = [pc EXCEPT ![o] = "failed"]
        BY <1>16, <2>3 DEF OpenAdmitted
      <3>2. Creating' \subseteq Creating
        BY <3>1
      <3>. QED BY <2>1, <3>2
    <2>. QED BY <2>2, <2>3
  <1>17. ASSUME NEW o \in Opens, OpenStarts(o) PROVE ShutInv'
    BY <1>17, ZenonT(40) DEF OpenStarts
  <1>18. ASSUME NEW o \in Opens, OpenAnswered(o) PROVE ShutInv'
    BY <1>18, ZenonT(40) DEF OpenAnswered
  <1>19. ASSUME NEW u \in Updaters, UpdateAsks(u) PROVE ShutInv'
    BY <1>19 DEF UpdateAsks
  <1>20. ASSUME NEW u \in Updaters, UpdateBegins(u) PROVE ShutInv'
    BY <1>20 DEF UpdateBegins
  <1>21. ASSUME NEW u \in Updaters, UpdateEnds(u) PROVE ShutInv'
    BY <1>21 DEF UpdateEnds
  <1>22. ASSUME NEW u \in Updaters, RecoveryWritten(u) PROVE ShutInv'
    BY <1>22 DEF RecoveryWritten
  <1>23. ASSUME NEW u \in Updaters, RecoveryCleared(u) PROVE ShutInv'
    BY <1>23 DEF RecoveryCleared
  <1>24. CASE LeaseExpires
    BY <1>24 DEF LeaseExpires
  <1>25. CASE ShutBegins
    BY <1>25 DEF ShutBegins
  <1>26. CASE ShutStops
    BY <1>26 DEF ShutStops
  <1>27. CASE ShutEnds
    BY <1>27 DEF ShutEnds
  <1>28. ASSUME NEW c \in Callers, CallerDies(c) PROVE ShutInv'
    BY <1>28 DEF CallerDies
  <1>29. ASSUME NEW c \in Callers, CallerGone(c) PROVE ShutInv'
    BY <1>29 DEF CallerGone
  <1>30. ASSUME NEW c \in Callers, CallerReturns(c) PROVE ShutInv'
    BY <1>30 DEF CallerReturns
  <1>31. CASE UNCHANGED vars
    BY <1>31 DEF vars
  <1>. QED BY <1>1, <1>2, <1>13a, <1>3, <1>4, <1>5, <1>6, <1>7, <1>8, <1>9, <1>10, <1>11,
         <1>12, <1>13, <1>14, <1>15, <1>16, <1>17, <1>18, <1>19, <1>20, <1>21, <1>22,
         <1>23, <1>24, <1>25, <1>26, <1>27, <1>28, <1>29, <1>30, <1>31 DEF Next

\* A workspace is reserved for one identity.
LEMMA WorkspaceStep ==
    ASSUME PlaceType, WorkspaceInv, [Next]_vars PROVE WorkspaceInv'
  <1>. USE AdmissionAssumption DEF PlaceType, WorkspaceInv, Labels, Reqs, DistinctWorkspaces, Reserved,
         Goto, createVars, sessVars, openVars, updateVars, shutVars, callerVars
  <1>1. ASSUME NEW a \in Apps, NEW c \in Callers, QueueDrops(a, c) PROVE WorkspaceInv'
    BY <1>1 DEF QueueDrops
  <1>2. ASSUME NEW r \in Creates, Create(r) PROVE WorkspaceInv'
    BY <1>2 DEF Create
  <1>3. ASSUME NEW r \in Creates, CreateAdmitted(r) PROVE WorkspaceInv'
    BY <1>3 DEF CreateAdmitted, Attempt, WaitOrGiveUp
  <1>4. ASSUME NEW r \in Creates, Retry(r) PROVE WorkspaceInv'
    BY <1>4 DEF Retry, Attempt, WaitOrGiveUp
  <1>5. ASSUME NEW r \in Creates, NativeStarts(r) PROVE WorkspaceInv'
    BY <1>5 DEF NativeStarts
  <1>6. ASSUME NEW r \in Creates, NativeClaims(r) PROVE WorkspaceInv'
    BY <1>6 DEF NativeClaims
  <1>7. ASSUME NEW r \in Creates, NativeBusy(r) PROVE WorkspaceInv'
    BY <1>7 DEF NativeBusy, WaitOrGiveUp
  <1>8. ASSUME NEW r \in Creates, NativeFails(r) PROVE WorkspaceInv'
    BY <1>8 DEF NativeFails
  <1>9. ASSUME NEW r \in Creates, Register(r) PROVE WorkspaceInv'
    BY <1>9 DEF Register
  <1>10. ASSUME NEW r \in Creates, RegisterFails(r) PROVE WorkspaceInv'
    BY <1>10 DEF RegisterFails
  <1>11. ASSUME NEW r \in Creates, Undone(r) PROVE WorkspaceInv'
    BY <1>11 DEF Undone
  <1>12. ASSUME NEW r \in Creates, StopSession(r) PROVE WorkspaceInv'
    BY <1>12 DEF StopSession
  <1>13. ASSUME NEW r \in Creates, SessionCloses(r) PROVE WorkspaceInv'
    BY <1>13 DEF SessionCloses
  <1>13a. ASSUME NEW r \in Creates, StopFails(r) PROVE WorkspaceInv'
    BY <1>13a DEF StopFails
  <1>14. ASSUME NEW r \in Creates, GraceEnds(r) PROVE WorkspaceInv'
    BY <1>14 DEF GraceEnds, StopSession
  <1>15. ASSUME NEW o \in Opens, Open(o) PROVE WorkspaceInv'
    BY <1>15 DEF Open
  <1>16. ASSUME NEW o \in Opens, OpenAdmitted(o) PROVE WorkspaceInv'
    BY <1>16 DEF OpenAdmitted
  <1>17. ASSUME NEW o \in Opens, OpenStarts(o) PROVE WorkspaceInv'
    <2>. DEFINE k == KeyOf[o]
    <2>1. k \in OpenKeys /\ Reserved(k) = {allocations[j] : j \in OpenKeys \ {k}} \ {0}
      BY <1>17
    <2>2. CASE allocations' = allocations
      BY <2>2
    <2>3. ASSUME NEW w \in Nat \ {0}, allocations' = [allocations EXCEPT ![k] = w],
                 w \notin Reserved(k) \/ w = allocations[k]
          PROVE  WorkspaceInv'
      <3>1. \A j \in OpenKeys \ {k} : allocations[j] # w
        BY <2>1, <2>3
      <3>. QED BY <2>1, <2>3, <3>1
    <2>4. \/ allocations' = allocations
          \/ \E w \in Nat \ {0} : /\ allocations' = [allocations EXCEPT ![k] = w]
                                  /\ w \notin Reserved(k) \/ w = allocations[k]
      <3>1. Workspaces \subseteq Nat \ {0} /\ Wants[o] \in Workspaces \cup {0}
        BY <1>17, AdmissionAssumption
      <3>2. allocations[k] \in Nat
        BY <2>1
      <3>. DEFINE choice == IF Wants[o] # 0 THEN {Wants[o]} \ Reserved(k)
                            ELSE IF allocations[k] # 0 THEN {allocations[k]}
                            ELSE Workspaces \ Reserved(k)
      <3>. HIDE DEF PlaceType, WorkspaceInv, DistinctWorkspaces, Reserved, Reqs
      <3>3. \/ allocations' = allocations
            \/ \E w \in choice : allocations' = [allocations EXCEPT ![k] = w]
        BY <1>17 DEF OpenStarts
      <3>4. \A w \in choice : w \in Nat \ {0} /\ (w \notin Reserved(k) \/ w = allocations[k])
        BY <3>1, <3>2
      <3>. HIDE DEF choice, k
      <3>. QED BY <3>3, <3>4
    <2>5. CASE allocations' # allocations
      <3>1. PICK w \in Nat \ {0} : /\ allocations' = [allocations EXCEPT ![k] = w]
                                   /\ w \notin Reserved(k) \/ w = allocations[k]
        <4>. HIDE DEF WorkspaceInv, PlaceType, Reserved, k
        <4>. QED BY <2>4, <2>5, Zenon
      <3>. HIDE DEF WorkspaceInv, Reserved, k
      <3>. QED BY <2>3, <3>1
    <2>. HIDE DEF WorkspaceInv, PlaceType
    <2>. QED BY <2>2, <2>5
  <1>18. ASSUME NEW o \in Opens, OpenAnswered(o) PROVE WorkspaceInv'
    BY <1>18 DEF OpenAnswered
  <1>19. ASSUME NEW u \in Updaters, UpdateAsks(u) PROVE WorkspaceInv'
    BY <1>19 DEF UpdateAsks
  <1>20. ASSUME NEW u \in Updaters, UpdateBegins(u) PROVE WorkspaceInv'
    BY <1>20 DEF UpdateBegins
  <1>21. ASSUME NEW u \in Updaters, UpdateEnds(u) PROVE WorkspaceInv'
    BY <1>21 DEF UpdateEnds
  <1>22. ASSUME NEW u \in Updaters, RecoveryWritten(u) PROVE WorkspaceInv'
    BY <1>22 DEF RecoveryWritten
  <1>23. ASSUME NEW u \in Updaters, RecoveryCleared(u) PROVE WorkspaceInv'
    BY <1>23 DEF RecoveryCleared
  <1>24. CASE LeaseExpires
    BY <1>24 DEF LeaseExpires
  <1>25. CASE ShutBegins
    BY <1>25 DEF ShutBegins
  <1>26. CASE ShutStops
    BY <1>26 DEF ShutStops
  <1>27. CASE ShutEnds
    BY <1>27 DEF ShutEnds
  <1>28. ASSUME NEW c \in Callers, CallerDies(c) PROVE WorkspaceInv'
    BY <1>28 DEF CallerDies
  <1>29. ASSUME NEW c \in Callers, CallerGone(c) PROVE WorkspaceInv'
    BY <1>29 DEF CallerGone
  <1>30. ASSUME NEW c \in Callers, CallerReturns(c) PROVE WorkspaceInv'
    BY <1>30 DEF CallerReturns
  <1>31. CASE UNCHANGED vars
    BY <1>31 DEF vars
  <1>. QED BY <1>1, <1>2, <1>13a, <1>3, <1>4, <1>5, <1>6, <1>7, <1>8, <1>9, <1>10, <1>11,
         <1>12, <1>13, <1>14, <1>15, <1>16, <1>17, <1>18, <1>19, <1>20, <1>21, <1>22,
         <1>23, <1>24, <1>25, <1>26, <1>27, <1>28, <1>29, <1>30, <1>31 DEF Next

\* Only the admission of a create adds a session to those that count.
LEMMA Counted ==
    ASSUME PlaceType, [Next]_vars
    PROVE  \/ (Alive \cup Passed)' \subseteq Alive \cup Passed
           \/ \E r \in Creates : CreateAdmitted(r)
  <1>. USE AdmissionAssumption DEF PlaceType, Labels, Reqs, Alive, Passed,
         Goto, createVars, sessVars, openVars, updateVars, shutVars, callerVars
  <1>. DEFINE Kept == (Alive \cup Passed)' \subseteq Alive \cup Passed
  <1>1. ASSUME NEW a \in Apps, NEW c \in Callers, QueueDrops(a, c) PROVE Kept
    BY <1>1 DEF QueueDrops
  <1>2. ASSUME NEW r \in Creates, Create(r) PROVE Kept
    BY <1>2 DEF Create
  <1>3. ASSUME NEW r \in Creates, Retry(r) PROVE Kept
    BY <1>3 DEF Retry, Attempt, WaitOrGiveUp
  <1>4. ASSUME NEW r \in Creates, NativeStarts(r) PROVE Kept
    BY <1>4 DEF NativeStarts
  <1>5. ASSUME NEW r \in Creates, NativeClaims(r) PROVE Kept
    BY <1>5 DEF NativeClaims
  <1>6. ASSUME NEW r \in Creates, NativeBusy(r) PROVE Kept
    BY <1>6 DEF NativeBusy, WaitOrGiveUp
  <1>7. ASSUME NEW r \in Creates, NativeFails(r) PROVE Kept
    BY <1>7 DEF NativeFails
  <1>8. ASSUME NEW r \in Creates, Register(r) PROVE Kept
    BY <1>8 DEF Register
  <1>9. ASSUME NEW r \in Creates, RegisterFails(r) PROVE Kept
    BY <1>9 DEF RegisterFails
  <1>10. ASSUME NEW r \in Creates, Undone(r) PROVE Kept
    BY <1>10 DEF Undone
  <1>11. ASSUME NEW r \in Creates, StopSession(r) PROVE Kept
    BY <1>11 DEF StopSession
  <1>12. ASSUME NEW r \in Creates, SessionCloses(r) PROVE Kept
    BY <1>12 DEF SessionCloses
  <1>13a. ASSUME NEW r \in Creates, StopFails(r) PROVE Kept
    BY <1>13a DEF StopFails
  <1>13. ASSUME NEW r \in Creates, GraceEnds(r) PROVE Kept
    BY <1>13 DEF GraceEnds, StopSession
  <1>14. ASSUME NEW o \in Opens, Open(o) PROVE Kept
    BY <1>14 DEF Open
  <1>15. ASSUME NEW o \in Opens, OpenAdmitted(o) PROVE Kept
    BY <1>15 DEF OpenAdmitted
  <1>16. ASSUME NEW o \in Opens, OpenStarts(o) PROVE Kept
    BY <1>16 DEF OpenStarts
  <1>17. ASSUME NEW o \in Opens, OpenAnswered(o) PROVE Kept
    BY <1>17 DEF OpenAnswered
  <1>18. ASSUME NEW u \in Updaters, UpdateAsks(u) PROVE Kept
    BY <1>18 DEF UpdateAsks
  <1>19. ASSUME NEW u \in Updaters, UpdateBegins(u) PROVE Kept
    BY <1>19 DEF UpdateBegins
  <1>20. ASSUME NEW u \in Updaters, UpdateEnds(u) PROVE Kept
    BY <1>20 DEF UpdateEnds
  <1>21. ASSUME NEW u \in Updaters, RecoveryWritten(u) PROVE Kept
    BY <1>21 DEF RecoveryWritten
  <1>22. ASSUME NEW u \in Updaters, RecoveryCleared(u) PROVE Kept
    BY <1>22 DEF RecoveryCleared
  <1>23. ASSUME LeaseExpires PROVE Kept
    BY <1>23 DEF LeaseExpires
  <1>24. ASSUME ShutBegins PROVE Kept
    BY <1>24 DEF ShutBegins
  <1>25. ASSUME ShutStops PROVE Kept
    BY <1>25 DEF ShutStops
  <1>26. ASSUME ShutEnds PROVE Kept
    BY <1>26 DEF ShutEnds
  <1>27. ASSUME NEW c \in Callers, CallerDies(c) PROVE Kept
    BY <1>27 DEF CallerDies
  <1>28. ASSUME NEW c \in Callers, CallerGone(c) PROVE Kept
    BY <1>28 DEF CallerGone
  <1>29. ASSUME NEW c \in Callers, CallerReturns(c) PROVE Kept
    BY <1>29 DEF CallerReturns
  <1>30. ASSUME UNCHANGED vars PROVE Kept
    BY <1>30 DEF vars
  <1>. HIDE DEF Kept
  <1>. QED BY <1>1, <1>2, <1>13a, <1>3, <1>4, <1>5, <1>6, <1>7, <1>8, <1>9, <1>10,
         <1>11, <1>12, <1>13, <1>14, <1>15, <1>16, <1>17, <1>18, <1>19, <1>20,
         <1>21, <1>22, <1>23, <1>24, <1>25, <1>26, <1>27, <1>28, <1>29, <1>30 DEF Next, Kept

\* The check before the first attempt counts every call in flight.
LEMMA LimitStep ==
    ASSUME PlaceType, LimitInv, [Next]_vars PROVE LimitInv'
  <1>. USE AdmissionAssumption
  <1>1. /\ IsFiniteSet(Alive) /\ IsFiniteSet(Creating) /\ IsFiniteSet(Alive \cup Passed)
        /\ Cardinality(Alive) \in Nat /\ Cardinality(Creating) \in Nat
        /\ IsFiniteSet(Alive \cup Creating)
        /\ Cardinality(Alive \cup Creating) <= Cardinality(Alive) + Cardinality(Creating)
        /\ Cardinality(Alive \cup Passed) \in Nat
    <2>1. IsFiniteSet(Reqs)
      BY FS_Union DEF Reqs
    <2>2. /\ Alive \in SUBSET Reqs /\ Creating \in SUBSET Reqs /\ Passed \in SUBSET Reqs
          /\ Alive \cup Passed \in SUBSET Reqs /\ Alive \cap Creating \in SUBSET Reqs
      BY DEF Alive, Creating, Passed, Reqs
    <2>3. /\ IsFiniteSet(Alive) /\ IsFiniteSet(Creating) /\ IsFiniteSet(Alive \cup Passed)
          /\ IsFiniteSet(Alive \cap Creating)
      BY <2>1, <2>2, FS_Subset
    <2>4. /\ Cardinality(Alive) \in Nat /\ Cardinality(Creating) \in Nat
          /\ Cardinality(Alive \cup Passed) \in Nat /\ Cardinality(Alive \cap Creating) \in Nat
      BY <2>3, FS_CardinalityType
    <2>5. /\ IsFiniteSet(Alive \cup Creating)
          /\ Cardinality(Alive \cup Creating)
               = Cardinality(Alive) + Cardinality(Creating) - Cardinality(Alive \cap Creating)
      BY <2>3, FS_Union
    <2>. QED BY <2>3, <2>4, <2>5
  <1>2. CASE (Alive \cup Passed)' \subseteq Alive \cup Passed
    <2>1. /\ Cardinality((Alive \cup Passed)') <= Cardinality(Alive \cup Passed)
          /\ Cardinality((Alive \cup Passed)') \in Nat
      BY <1>1, <1>2, FS_Subset, FS_CardinalityType
    <2>. QED BY <1>1, <2>1 DEF LimitInv
  <1>3. ASSUME NEW r \in Creates, CreateAdmitted(r),
               ~((Alive \cup Passed)' \subseteq Alive \cup Passed)
        PROVE  LimitInv'
    <2>1. Cardinality(Alive) + Cardinality(Creating) < Limit
      <3>1. CASE updateLease # None \/ Cardinality(Alive) + Cardinality(Creating) >= Limit
        <4>1. pc' = [pc EXCEPT ![r] = "failed"] /\ sess' = sess
          BY <1>3, <3>1 DEF CreateAdmitted, Goto, sessVars
        <4>. QED BY <1>3, <4>1 DEF Alive, Passed, PlaceType, Reqs
      <3>. QED BY <3>1, <1>1
    <2>2. (Alive \cup Passed)' \subseteq Alive \cup Creating
      <3>1. /\ sess' = sess /\ r \in Creating
            /\ \E l \in Labels : pc' = [pc EXCEPT ![r] = l]
        BY <1>3 DEF CreateAdmitted, Attempt, WaitOrGiveUp, Goto, sessVars, Labels, Creating, Reqs, Settled
      <3>. QED BY <3>1 DEF Alive, Passed, Creating, PlaceType, Labels, Settled, Reqs
    <2>3. /\ Cardinality((Alive \cup Passed)') <= Cardinality(Alive \cup Creating)
          /\ Cardinality((Alive \cup Passed)') \in Nat
          /\ Cardinality(Alive \cup Creating) \in Nat
      BY <1>1, <2>2, FS_Subset, FS_CardinalityType
    <2>. QED BY <1>1, <2>1, <2>3 DEF LimitInv
  <1>. QED BY <1>2, <1>3, Counted

\* What is put last becomes the head of an empty sequence only.
LEMMA AppendedLast ==
    ASSUME NEW S, NEW s \in Seq(S), NEW e \in S
    PROVE  /\ Append(s, e) \in Seq(S) /\ Append(s, e) # <<>>
           /\ s # <<>> => Head(Append(s, e)) = Head(s)
  <1>1. Append(s, e) \in Seq(S) /\ Len(Append(s, e)) = Len(s) + 1 /\ Len(s) \in Nat
    OBVIOUS
  <1>2. Len(<<>>) = 0
    OBVIOUS
  <1>3. Append(s, e) # <<>>
    BY <1>1, <1>2
  <1>4. s # <<>> => Head(Append(s, e)) = Head(s)
    OBVIOUS
  <1>. QED BY <1>1, <1>3, <1>4

\* One native part at a time: a call is at the head of creationTail while it is native.
LEMMA TailStep ==
    ASSUME PlaceType, TailInv, [Next]_vars PROVE TailInv'
  <1>. USE AdmissionAssumption DEF PlaceType, TailInv, Labels, Goto,
         createVars, sessVars, openVars, updateVars, shutVars, callerVars
  <1>. DEFINE Moves(r) == \E label \in Labels \ {"native"} : pc' = [pc EXCEPT ![r] = label]
  <1>1. ASSUME NEW r \in Reqs, Moves(r), tail' = tail PROVE TailInv'
    BY <1>1
  <1>2. ASSUME NEW r \in Reqs, Moves(r), tail # <<>>, Head(tail) = r, tail' = Tail(tail)
        PROVE  TailInv'
    <2>1. \A q \in Reqs : pc'[q] # "native"
      BY <1>2
    <2>2. Tail(tail) \in Seq(Reqs)
      BY <1>2
    <2>. QED BY <1>2, <2>1, <2>2
  <1>3. ASSUME NEW r \in Reqs, Moves(r), tail' = Append(tail, r) PROVE TailInv'
    <2>1. /\ Append(tail, r) \in Seq(Reqs) /\ Append(tail, r) # <<>>
          /\ tail # <<>> => Head(Append(tail, r)) = Head(tail)
      BY AppendedLast
    <2>3. \A q \in Reqs : pc'[q] = "native" => pc[q] = "native"
      BY <1>3
    <2>. QED BY <1>3, <2>1, <2>3
  <1>4. ASSUME NEW r \in Reqs, pc' = [pc EXCEPT ![r] = "native"], tail # <<>>, Head(tail) = r,
               tail' = tail
        PROVE  TailInv'
    BY <1>4
  <1>5. ASSUME UNCHANGED <<pc, tail>> PROVE TailInv'
    BY <1>5
  <1>. USE DEF Reqs
  <1>6. ASSUME NEW a \in Apps, NEW c \in Callers, QueueDrops(a, c) PROVE TailInv'
    BY <1>6, <1>5 DEF QueueDrops
  <1>7. ASSUME NEW r \in Creates, Create(r) PROVE TailInv'
    <2>1. Moves(r) /\ tail' = tail
      BY <1>7 DEF Create
    <2>. QED BY <1>1, <2>1
  <1>8. ASSUME NEW r \in Creates, CreateAdmitted(r) PROVE TailInv'
    <2>1. Moves(r) /\ (tail' = tail \/ tail' = Append(tail, r))
      BY <1>8 DEF CreateAdmitted, Attempt, WaitOrGiveUp
    <2>. QED BY <1>1, <1>3, <2>1
  <1>9. ASSUME NEW r \in Creates, Retry(r) PROVE TailInv'
    <2>1. Moves(r) /\ (tail' = tail \/ tail' = Append(tail, r))
      BY <1>9 DEF Retry, Attempt, WaitOrGiveUp
    <2>. QED BY <1>1, <1>3, <2>1
  <1>10. ASSUME NEW r \in Creates, NativeStarts(r) PROVE TailInv'
    <2>1. tail # <<>> /\ Head(tail) = r
      BY <1>10 DEF NativeStarts
    <2>2. \/ Moves(r) /\ tail' = Tail(tail)
          \/ pc' = [pc EXCEPT ![r] = "native"] /\ tail' = tail
      BY <1>10 DEF NativeStarts
    <2>. QED BY <1>2, <1>4, <2>1, <2>2
  <1>11. ASSUME NEW r \in Creates, NativeClaims(r) PROVE TailInv'
    <2>1. tail # <<>> /\ Head(tail) = r
      BY <1>11 DEF NativeClaims
    <2>2. Moves(r) /\ tail' = Tail(tail)
      BY <1>11 DEF NativeClaims
    <2>. QED BY <1>2, <2>1, <2>2
  <1>12. ASSUME NEW r \in Creates, NativeBusy(r) PROVE TailInv'
    <2>1. tail # <<>> /\ Head(tail) = r
      BY <1>12 DEF NativeBusy
    <2>2. Moves(r) /\ tail' = Tail(tail)
      BY <1>12 DEF NativeBusy, WaitOrGiveUp
    <2>. QED BY <1>2, <2>1, <2>2
  <1>13. ASSUME NEW r \in Creates, NativeFails(r) PROVE TailInv'
    <2>1. tail # <<>> /\ Head(tail) = r
      BY <1>13 DEF NativeFails
    <2>2. Moves(r) /\ tail' = Tail(tail)
      BY <1>13 DEF NativeFails
    <2>. QED BY <1>2, <2>1, <2>2
  <1>14. ASSUME NEW r \in Creates, Register(r) PROVE TailInv'
    <2>1. Moves(r) /\ tail' = tail
      BY <1>14 DEF Register
    <2>. QED BY <1>1, <2>1
  <1>15. ASSUME NEW r \in Creates, RegisterFails(r) PROVE TailInv'
    <2>1. Moves(r) /\ tail' = tail
      BY <1>15 DEF RegisterFails
    <2>. QED BY <1>1, <2>1
  <1>16. ASSUME NEW r \in Creates, Undone(r) PROVE TailInv'
    <2>1. Moves(r) /\ tail' = tail
      BY <1>16 DEF Undone
    <2>. QED BY <1>1, <2>1
  <1>17. ASSUME NEW r \in Creates, StopSession(r) PROVE TailInv'
    BY <1>17, <1>5 DEF StopSession
  <1>18. ASSUME NEW r \in Creates, SessionCloses(r) PROVE TailInv'
    BY <1>18, <1>5 DEF SessionCloses
  <1>19. ASSUME NEW r \in Creates, StopFails(r) PROVE TailInv'
    BY <1>19, <1>5 DEF StopFails
  <1>20. ASSUME NEW r \in Creates, GraceEnds(r) PROVE TailInv'
    BY <1>20, <1>5 DEF GraceEnds, StopSession
  <1>21. ASSUME NEW o \in Opens, Open(o) PROVE TailInv'
    <2>1. Moves(o) /\ tail' = tail
      BY <1>21 DEF Open
    <2>. QED BY <1>1, <2>1
  <1>22. ASSUME NEW o \in Opens, OpenAdmitted(o) PROVE TailInv'
    <2>1. Moves(o) /\ (tail' = tail \/ tail' = Append(tail, o))
      BY <1>22 DEF OpenAdmitted
    <2>. QED BY <1>1, <1>3, <2>1
  <1>23. ASSUME NEW o \in Opens, OpenStarts(o) PROVE TailInv'
    <2>1. tail # <<>> /\ Head(tail) = o
      BY <1>23 DEF OpenStarts
    <2>2. \/ Moves(o) /\ tail' = Tail(tail)
          \/ pc' = [pc EXCEPT ![o] = "native"] /\ tail' = tail
      BY <1>23 DEF OpenStarts
    <2>. QED BY <1>2, <1>4, <2>1, <2>2
  <1>24. ASSUME NEW o \in Opens, OpenAnswered(o) PROVE TailInv'
    <2>1. tail # <<>> /\ Head(tail) = o
      BY <1>24 DEF OpenAnswered
    <2>2. Moves(o) /\ tail' = Tail(tail)
      BY <1>24 DEF OpenAnswered
    <2>. QED BY <1>2, <2>1, <2>2
  <1>25. ASSUME NEW u \in Updaters, UpdateAsks(u) PROVE TailInv'
    BY <1>25, <1>5 DEF UpdateAsks
  <1>26. ASSUME NEW u \in Updaters, UpdateBegins(u) PROVE TailInv'
    BY <1>26, <1>5 DEF UpdateBegins
  <1>27. ASSUME NEW u \in Updaters, UpdateEnds(u) PROVE TailInv'
    BY <1>27, <1>5 DEF UpdateEnds
  <1>28. ASSUME NEW u \in Updaters, RecoveryWritten(u) PROVE TailInv'
    BY <1>28, <1>5 DEF RecoveryWritten
  <1>29. ASSUME NEW u \in Updaters, RecoveryCleared(u) PROVE TailInv'
    BY <1>29, <1>5 DEF RecoveryCleared
  <1>30. CASE LeaseExpires
    BY <1>30, <1>5 DEF LeaseExpires
  <1>31. CASE ShutBegins
    BY <1>31, <1>5 DEF ShutBegins
  <1>32. CASE ShutStops
    BY <1>32, <1>5 DEF ShutStops
  <1>33. CASE ShutEnds
    BY <1>33, <1>5 DEF ShutEnds
  <1>34. ASSUME NEW c \in Callers, CallerDies(c) PROVE TailInv'
    BY <1>34, <1>5 DEF CallerDies
  <1>35. ASSUME NEW c \in Callers, CallerGone(c) PROVE TailInv'
    BY <1>35, <1>5 DEF CallerGone
  <1>36. ASSUME NEW c \in Callers, CallerReturns(c) PROVE TailInv'
    BY <1>36, <1>5 DEF CallerReturns
  <1>37. CASE UNCHANGED vars
    BY <1>37, <1>5 DEF vars
  <1>. QED BY <1>6, <1>7, <1>8, <1>9, <1>10, <1>11, <1>12, <1>13, <1>14, <1>15, <1>16,
         <1>17, <1>18, <1>19, <1>20, <1>21, <1>22, <1>23, <1>24, <1>25, <1>26, <1>27,
         <1>28, <1>29, <1>30, <1>31, <1>32, <1>33, <1>34, <1>35, <1>36, <1>37 DEF Next

\* The variables the invariants above leave out keep their types.
LEMMA RestStep ==
    ASSUME PlaceType, RestType, [Next]_vars PROVE RestType'
  <1>. USE AdmissionAssumption DEF PlaceType, RestType, Reqs, Goto, Enter, Leave,
         createVars, sessVars, openVars, updateVars, shutVars, callerVars
  <1>0. \A r \in Creates : ProfileOf[r] \in Profiles /\ AppOf[r] \in Apps
    OBVIOUS
  <1>1. ASSUME NEW a \in Apps, NEW c \in Callers, QueueDrops(a, c) PROVE RestType'
    BY <1>1 DEF QueueDrops
  <1>2. ASSUME NEW r \in Creates, Create(r) PROVE RestType'
    BY <1>2, <1>0 DEF Create
  <1>3. ASSUME NEW r \in Creates, CreateAdmitted(r) PROVE RestType'
    BY <1>3, <1>0 DEF CreateAdmitted, Attempt, WaitOrGiveUp
  <1>4. ASSUME NEW r \in Creates, Retry(r) PROVE RestType'
    BY <1>4, <1>0 DEF Retry, Attempt, WaitOrGiveUp
  <1>5. ASSUME NEW r \in Creates, NativeStarts(r) PROVE RestType'
    BY <1>5, <1>0 DEF NativeStarts
  <1>6. ASSUME NEW r \in Creates, NativeClaims(r) PROVE RestType'
    BY <1>6, <1>0 DEF NativeClaims
  <1>7. ASSUME NEW r \in Creates, NativeBusy(r) PROVE RestType'
    <2>1. DOMAIN queue' = Apps
      BY <1>7 DEF NativeBusy, WaitOrGiveUp
    <2>4. \/ waits' = waits
          \/ waits[r] > 0 /\ waits' = [waits EXCEPT ![r] = @ - 1]
      BY <1>7 DEF NativeBusy, WaitOrGiveUp
    <2>5. waits' \in [Creates -> Nat]
      BY <2>4
    <2>2. leases' \subseteq Profiles
      BY <1>7 DEF NativeBusy
    <2>3. UNCHANGED <<orphan, holder, allocations, recovery, shut, awaited, caller, gone>>
      BY <1>7 DEF NativeBusy
    <2>. QED BY <2>1, <2>2, <2>3, <2>5
  <1>8. ASSUME NEW r \in Creates, NativeFails(r) PROVE RestType'
    BY <1>8, <1>0 DEF NativeFails
  <1>9. ASSUME NEW r \in Creates, Register(r) PROVE RestType'
    BY <1>9, <1>0 DEF Register
  <1>10. ASSUME NEW r \in Creates, RegisterFails(r) PROVE RestType'
    BY <1>10, <1>0 DEF RegisterFails
  <1>11. ASSUME NEW r \in Creates, Undone(r) PROVE RestType'
    BY <1>11, <1>0 DEF Undone
  <1>12. ASSUME NEW r \in Creates, StopSession(r) PROVE RestType'
    BY <1>12, <1>0 DEF StopSession
  <1>13. ASSUME NEW r \in Creates, SessionCloses(r) PROVE RestType'
    BY <1>13, <1>0 DEF SessionCloses
  <1>14. ASSUME NEW r \in Creates, StopFails(r) PROVE RestType'
    BY <1>14, <1>0 DEF StopFails
  <1>15. ASSUME NEW r \in Creates, GraceEnds(r) PROVE RestType'
    BY <1>15, <1>0 DEF GraceEnds, StopSession
  <1>16. ASSUME NEW o \in Opens, Open(o) PROVE RestType'
    BY <1>16 DEF Open
  <1>17. ASSUME NEW o \in Opens, OpenAdmitted(o) PROVE RestType'
    BY <1>17 DEF OpenAdmitted
  <1>18. ASSUME NEW o \in Opens, OpenStarts(o) PROVE RestType'
    <2>1. KeyOf[o] \in OpenKeys /\ Wants[o] \in Workspaces \cup {0}
      OBVIOUS
    <2>2. \/ allocations' = allocations
          \/ \E w \in Workspaces : allocations' = [allocations EXCEPT ![KeyOf[o]] = w]
      BY <1>18, <2>1 DEF OpenStarts
    <2>3. UNCHANGED <<waits, queue, orphan, leases, holder, recovery, shut, awaited, caller, gone>>
      BY <1>18 DEF OpenStarts
    <2>. QED BY <2>1, <2>2, <2>3
  <1>19. ASSUME NEW o \in Opens, OpenAnswered(o) PROVE RestType'
    BY <1>19 DEF OpenAnswered
  <1>20. ASSUME NEW u \in Updaters, UpdateAsks(u) PROVE RestType'
    BY <1>20 DEF UpdateAsks
  <1>21. ASSUME NEW u \in Updaters, UpdateBegins(u) PROVE RestType'
    BY <1>21 DEF UpdateBegins
  <1>22. ASSUME NEW u \in Updaters, UpdateEnds(u) PROVE RestType'
    BY <1>22 DEF UpdateEnds
  <1>23. ASSUME NEW u \in Updaters, RecoveryWritten(u) PROVE RestType'
    BY <1>23 DEF RecoveryWritten
  <1>24. ASSUME NEW u \in Updaters, RecoveryCleared(u) PROVE RestType'
    BY <1>24 DEF RecoveryCleared
  <1>25. CASE LeaseExpires
    BY <1>25 DEF LeaseExpires
  <1>26. CASE ShutBegins
    BY <1>26 DEF ShutBegins, Creating
  <1>27. CASE ShutStops
    BY <1>27 DEF ShutStops
  <1>28. CASE ShutEnds
    BY <1>28 DEF ShutEnds
  <1>29. ASSUME NEW c \in Callers, CallerDies(c) PROVE RestType'
    BY <1>29 DEF CallerDies
  <1>30. ASSUME NEW c \in Callers, CallerGone(c) PROVE RestType'
    BY <1>30 DEF CallerGone
  <1>31. ASSUME NEW c \in Callers, CallerReturns(c) PROVE RestType'
    BY <1>31 DEF CallerReturns
  <1>32. CASE UNCHANGED vars
    BY <1>32 DEF vars
  <1>. QED BY <1>1, <1>2, <1>3, <1>4, <1>5, <1>6, <1>7, <1>8, <1>9, <1>10, <1>11, <1>12,
         <1>13, <1>14, <1>15, <1>16, <1>17, <1>18, <1>19, <1>20, <1>21, <1>22, <1>23,
         <1>24, <1>25, <1>26, <1>27, <1>28, <1>29, <1>30, <1>31, <1>32 DEF Next

-----------------------------------------------------------------------------
\* The inductive invariant: types, the update lease, the lease keys, the opening
\* identities, the shutdown and the workspaces, for every instance.
THEOREM InductiveInvariant == Spec => []IInv
  <1>1. IInv /\ [Next]_vars => IInv'
    BY LeaseStep, LaunchStep, KeyStep, LimitStep, ShutStep, WorkspaceStep, TailStep,
       RestStep DEF IInv
  <1>. QED BY InitHolds, <1>1, PTL DEF Spec

\* Every variable of the broker keeps its type (session.ts, Sessions).
THEOREM TypeCorrect == Spec => []TypeOK
  <1>1. IInv => TypeOK
    BY DEF IInv, PlaceType, Labels, LaunchInv, TailInv, RestType, TypeOK
  <1>. QED BY InductiveInvariant, <1>1, PTL

\* Nothing runs and nothing starts under an update (beginUpdate, requireUpdateAdmission).
THEOREM UpdateAlone == Spec => []UpdateUndisturbed
  <1>1. IInv => UpdateUndisturbed
    BY DEF IInv, PlaceType, LeaseInv, UpdateUndisturbed, Creating, Reqs, Settled, Labels
  <1>. QED BY InductiveInvariant, <1>1, PTL

\* The broker's lease keys are those of its claims and sessions (Sessions.leases).
THEOREM KeysKept == Spec => []KeysExact
  <1>1. IInv => KeysExact
    BY DEF IInv, KeyInv
  <1>. QED BY InductiveInvariant, <1>1, PTL

\* The session limit is never passed (createOwned).
THEOREM LimitKept == Spec => []LimitHeld
  <1>1. IInv => LimitHeld
    <2>. SUFFICES ASSUME IInv PROVE LimitHeld
      OBVIOUS
    <2>1. Alive \cap Passed = {}
      BY DEF IInv, KeyInv, Alive, Passed
    <2>2. IsFiniteSet(Alive) /\ IsFiniteSet(Passed)
      <3>1. Alive \in SUBSET Creates /\ Passed \in SUBSET Creates
        BY DEF Alive, Passed
      <3>. QED BY <3>1, FS_Subset, AdmissionAssumption
    <2>3. /\ Cardinality(Alive \cup Passed)
               = Cardinality(Alive) + Cardinality(Passed) - Cardinality({})
          /\ Cardinality({}) = 0
          /\ Cardinality(Alive) \in Nat /\ Cardinality(Passed) \in Nat
      BY <2>1, <2>2, FS_Union, FS_EmptySet, FS_CardinalityType
    <2>. QED BY <2>3 DEF IInv, LimitInv, LimitHeld
  <1>. QED BY InductiveInvariant, <1>1, PTL

\* Limit and keys together (createOwned).
THEOREM AdmissionKept == Spec => []AdmissionExact
  BY TypeCorrect, KeysKept, LimitKept, PTL DEF AdmissionExact

\* An opening identity launches at most once (Sessions.nativeOpens).
THEOREM LaunchedOnce == Spec => []OneLaunch
  <1>1. IInv => OneLaunch
    BY DEF IInv, LaunchInv, OneLaunch
  <1>. QED BY InductiveInvariant, <1>1, PTL

\* No workspace serves two opening identities (nativeAllocations).
THEOREM WorkspacesApart == Spec => []DistinctWorkspaces
  <1>1. IInv => DistinctWorkspaces
    BY DEF IInv, WorkspaceInv
  <1>. QED BY InductiveInvariant, <1>1, PTL

\* Identities of openings do not interfere (native.open).
THEOREM OpeningsKeptApart == Spec => []OpeningsApart
  BY LaunchedOnce, WorkspacesApart, PTL DEF OpeningsApart

\* A shutdown leaves nothing behind that starts (Sessions.close).
THEOREM ShutdownLeavesNothing == Spec => []ShutdownClean
  <1>1. IInv => ShutdownClean
    BY DEF IInv, ShutInv, ShutdownClean
  <1>. QED BY InductiveInvariant, <1>1, PTL

\* Whatever is checked before an await still holds when it is used: no call slips in
\* under an update or behind a shutdown (requireUpdateAdmission, Sessions.close).
THEOREM NoneSlipsIn == Spec => []NothingSlipsIn
  BY UpdateAlone, ShutdownLeavesNothing, PTL DEF NothingSlipsIn

-----------------------------------------------------------------------------
(* OwnerOpening.  The desk goes on on its own: what is known of a window      *)
(* stays, a command that is late takes effect once, and the worker knows what  *)
(* it has moved.  OpeningInv is inductive.                                     *)

\* What is known of a window stays: it was seen, it shows the token, its process.
Grows(d, e) == \A w \in Wins :
    /\ d.wins[w].seen => e.wins[w].seen /\ e.wins[w].proc \in {d.wins[w].proc, Nil}
    /\ d.wins[w].token => e.wins[w].token

\* The window is of this launch, or gone.
Owned(d, w) == w \in Wins /\ d.wins[w].seen /\ (d.wins[w].token \/ d.wins[w].proc \in Launched \cup {Nil})

\* A command of the set K takes effect at most once: n times it has, and the rest is late.
Launching == {"eval", "exec"}
Never(n, late, K) == n = 0 /\ \A i \in DOMAIN late : late[i].cmd \notin K
Once(n, late, K) ==
    /\ n <= 1
    /\ \A i, j \in DOMAIN late : late[i].cmd \in K /\ late[j].cmd \in K => i = j
    /\ n = 1 => Never(0, late, K)

Unlaunched(d) == Never(d.starts, d.late, Launching)
Unshown(d) == Never(d.shows, d.late, {"present"})
Unplaced(d) == Never(0, d.late, {"place"})

WindowsSound(d) ==
    /\ \A w \in Wins : d.wins[w].proc # Nil => d.wins[w].seen
    /\ d.wins[OldWin].seen
    /\ d.ticket.win # Nil => d.wins[d.ticket.win].token
    /\ \A h \in d.hits : h.ours /\ ~h.focused /\ h.win # OldWin
LateSound(d) ==
    \A i \in DOMAIN d.late : d.late[i].cmd = "place" =>
        d.late[i].win # OldWin /\ Owned(d, d.late[i].win) /\ d.wins[d.late[i].win].moved = 0
OnceSound(d) ==
    /\ Once(d.starts, d.late, Launching) /\ Once(d.shows, d.late, {"present"}) /\ Once(0, d.late, {"place"})
    /\ \A w \in Wins : d.wins[w].moved <= 1
DeskSound(d) == d \in Desk /\ WindowsSound(d) /\ LateSound(d) /\ OnceSound(d)

\* What is asked for waits in the queue or is the worker's, once.
Waits(what) == \E i \in DOMAIN creations : creations[i] = what
FlowInv ==
    /\ \A i, j \in DOMAIN creations : creations[i] = creations[j] => i = j
    /\ job.kind # Nil => ~Waits(job.kind)
    /\ opening.code = "running" <=> job.kind = "open" \/ Waits("open")
    /\ showing.run = "running" <=> job.kind = "present" \/ Waits("present")
    /\ showing.run # "none" => showing.sel \in Selections

Early    == {"ready", "admit", "register", "inspect", "guard", "eval"}
Placing  == {"watch", "tokens", "clients", "destination", "place", "settle"}
\* How far the worker is.
StepInv ==
    /\ job.kind = "open" => job.step \in OpenSteps
    /\ job.kind = "present" => job.step \in ShowSteps
    /\ job.kind # "open" => job.result = Nil
    /\ job.kind = "open" /\ job.step \in Early => ~job.attempted
    /\ job.kind = "open" /\ job.step \in Placing \cup {"guard2", "exec"} => job.attempted
    /\ job.result = "refused" => ~job.attempted /\ job.step \in {"forget", "answer"}
    /\ job.step \in {"forget", "answer"} => job.result # Nil
    /\ job.kind = Nil => job.step = "idle"

\* The opening has not come to its launch.
Before1 ==
    \/ opening.code = Nil
    \/ opening.code = "running" /\ job.kind # "open"
    \/ job.kind = "open" /\ (~job.attempted \/ job.step \in {"guard2", "exec"})
LaunchedInv == Before1 \/ opening.code = "refused" => Unlaunched(desk)
ShowInv == showing.run \in {"none", "free", "running"} => Unshown(desk)

TicketInv == ~left.spoiled =>
    /\ desk.late = <<>>
    /\ desk.ticket.on => job.kind = "open" /\ job.ticket /\ job.step \notin {"ready", "admit", "register", "answer"}

\* What has been moved is known to the worker while it may move more.
PlaceInv ==
    /\ Before1 => Unplaced(desk) /\ \A w \in Wins : desk.wins[w].moved = 0
    /\ job.kind = "open" /\ job.step \in Placing =>
          /\ Unplaced(desk) /\ \A w \in Wins : desk.wins[w].moved # 0 => w \in job.placed
          /\ job.step \in {"destination", "place"} =>
                job.win # OldWin /\ Owned(desk, job.win) /\ job.win \notin job.placed
    /\ \A w \in job.tokens : desk.wins[w].token
    /\ job.kind = "open" /\ job.step \in Placing \cup {"guard", "eval", "guard2", "exec"} =>
          OldWin \in job.base \/ desk.wins[OldWin].proc = Nil

\* The window w is new beside those of base, and of this launch.
New(w, base, before, result) ==
    /\ w \notin base /\ Owned(desk, w)
    /\ result = "forwarded" => desk.wins[w].token /\ before # {}
OpenedInv ==
    /\ opening.code \in {"opened", "forwarded"} => New(opening.win, opening.base, opening.before, opening.code)
    /\ job.kind = "open" /\ job.step \in {"settle", "forget", "answer"} /\ job.result \in {"opened", "forwarded"} =>
          New(job.win, job.base, job.before, job.result)
    /\ job.step = "settle" => job.result \in {"opened", "forwarded"}

OpeningInv == /\ OpeningTypeOK /\ DeskSound(desk) /\ FlowInv /\ StepInv /\ LaunchedInv /\ ShowInv
              /\ TicketInv /\ PlaceInv /\ OpenedInv

-----------------------------------------------------------------------------
(* Facts about numbers and the commands.                                     *)

\* What holds of 0 and of the successor of each number it holds of holds of every number.
LEMMA NumberInduction ==
    ASSUME NEW T, 0 \in T, \A n \in Nat : n \in T => n + 1 \in T
    PROVE  \A n \in Nat : n \in T
<1> SUFFICES ASSUME NEW n \in Nat, n \notin T PROVE FALSE OBVIOUS
<1> DEFINE A == T \cap (0 .. n)
           B == A \ {0}
           f == [x \in A |-> x + 1]
<1>1. IsFiniteSet(A)
  <2>1. IsFiniteSet(0 .. n) BY FS_Interval
  <2> QED BY <2>1, FS_Subset
<1>2. B \in SUBSET A /\ B # A OBVIOUS
<1>3. f \in Injection(A, B) BY DEF Injection, IsInjective
<1> HIDE DEF A, B, f
<1>4. /\ IsFiniteSet(B) /\ Cardinality(B) <= Cardinality(A)
      /\ Cardinality(A) # Cardinality(B)
    BY <1>1, <1>2, FS_Subset
<1>5. Cardinality(A) <= Cardinality(B) BY <1>3, <1>4, FS_Injection
<1> QED BY <1>1, <1>4, <1>5, FS_CardinalityType

\* What one served command may do to the desk.
AppliedTo(d, c, e) ==
    /\ e \in Desk /\ e.late = d.late /\ Grows(d, e) /\ e.bus = d.bus
    /\ e.starts = d.starts \/ (c.cmd \in Launching /\ e.starts = d.starts + 1)
    /\ e.shows = d.shows \/ (c.cmd = "present" /\ e.shows = d.shows + 1)
    /\ \A w \in Wins :
          /\ \/ e.wins[w].moved = d.wins[w].moved
             \/ c.cmd = "place" /\ c.win = w /\ e.wins[w].moved = d.wins[w].moved + 1
          /\ e.wins[w].seen = d.wins[w].seen /\ e.wins[w].proc = d.wins[w].proc
          /\ e.wins[w].token = d.wins[w].token
    /\ \A h \in e.hits : h \in d.hits \/ (c.cmd = "place" /\ h.win = c.win /\ ~h.focused /\ h.ours = Ours(d, c.win)
                                            /\ d.wins[c.win].proc # Nil)
    /\ e.ticket \in {d.ticket, [NoTicket EXCEPT !.on = TRUE], NoTicket}
    /\ c.cmd \notin {"register", "forget"} => e.ticket = d.ticket
    /\ c.cmd = "forget" => ~e.ticket.on

\* The kinds of commands there are.
LEMMA CommandSays ==
    ASSUME NEW c \in Command
    PROVE  /\ c.cmd \in {"register", "forget", "eval", "exec", "place", "present"}
           /\ c.cmd = "place" => c.win \in Wins
           /\ c.cmd = "present" => c.sel \in Selections
  BY DEF Command

\* A command that is refused does nothing.
LEMMA AppliedSame ==
    ASSUME NEW d \in Desk, NEW c \in Command, c.cmd # "forget"
    PROVE  AppliedTo(d, c, d)
  BY DEF AppliedTo, Grows, Desk, Window

\* Each command that is served does what AppliedTo says, and no more.
LEMMA AppliedStep ==
    ASSUME NEW d \in Desk, NEW c \in Command
    PROVE  AppliedTo(d, c, Applied(d, c))
<1> USE CommandSays
<1>1. CASE Reply(d, c) # "ok"
  <2>1. c.cmd # "forget" BY <1>1 DEF Reply
  <2> QED BY <1>1, <2>1, AppliedSame DEF Applied
<1>2. CASE Reply(d, c) = "ok" /\ c.cmd = "register"
  <2>1. Applied(d, c) = [d EXCEPT !.ticket = [NoTicket EXCEPT !.on = TRUE]] BY <1>2 DEF Applied
  <2>2. [NoTicket EXCEPT !.on = TRUE] \in Ticket BY DEF NoTicket, Ticket
  <2>3. PICK t \in Ticket : t = [NoTicket EXCEPT !.on = TRUE] BY <2>2
  <2>4. PICK e : e = [d EXCEPT !.ticket = t] OBVIOUS
  <2>5. e \in Desk BY <2>4 DEF Desk
  <2>6. AppliedTo(d, c, e) BY <1>2, <2>3, <2>4, <2>5 DEF AppliedTo, Grows, Desk, Window
  <2> QED BY <2>1, <2>3, <2>4, <2>6
<1>3. CASE Reply(d, c) = "ok" /\ c.cmd = "forget"
  <2>1. Applied(d, c) = [d EXCEPT !.ticket = NoTicket] BY <1>3 DEF Applied
  <2>2. NoTicket \in Ticket /\ ~NoTicket.on BY DEF NoTicket, Ticket
  <2>3. PICK t \in Ticket : t = NoTicket BY <2>2
  <2>4. PICK e : e = [d EXCEPT !.ticket = t] OBVIOUS
  <2>5. e \in Desk BY <2>4 DEF Desk
  <2>6. AppliedTo(d, c, e) BY <1>3, <2>2, <2>3, <2>4, <2>5 DEF AppliedTo, Grows, Desk, Window
  <2> QED BY <2>1, <2>3, <2>4, <2>6
<1>4. CASE Reply(d, c) = "ok" /\ c.cmd \in {"eval", "exec"}
  <2>1. Applied(d, c) = [d EXCEPT !.helper = "started", !.starts = @ + 1] BY <1>4 DEF Applied
  <2>3. PICK n \in Nat : n = d.starts + 1 BY DEF Desk
  <2>4. PICK e : e = [d EXCEPT !.helper = "started", !.starts = n] OBVIOUS
  <2>5. e \in Desk BY <2>4 DEF Desk
  <2>6. AppliedTo(d, c, e) BY <1>4, <2>3, <2>4, <2>5 DEF AppliedTo, Grows, Desk, Window, Launching
  <2> QED BY <2>1, <2>3, <2>4, <2>6
<1>5. CASE Reply(d, c) = "ok" /\ c.cmd = "place"
  <2>1. PICK w \in Wins : w = c.win BY <1>5
  <2>2. PICK v : v = Moved(d, w) OBVIOUS
  <2>3. PICK h : h = Hits(d, w) OBVIOUS
  <2>4. d.wins[w] \in Window BY DEF Desk
  <2>5. /\ v \in Window /\ v.moved = d.wins[w].moved + 1 /\ v.seen = d.wins[w].seen
        /\ v.proc = d.wins[w].proc /\ v.token = d.wins[w].token
    <3>1. Target \in Nat BY OpeningAssumption
    <3>2. PICK n \in Nat : n = d.wins[w].moved + 1 BY <2>4 DEF Window
    <3>3. v = [d.wins[w] EXCEPT !.ws = Target, !.moved = n] BY <2>2, <3>2 DEF Moved
    <3> QED BY <2>4, <3>1, <3>2, <3>3 DEF Window
  <2>6. h \in Hit /\ h.win = w /\ h.focused = (d.focus = w) /\ h.ours = Ours(d, w)
    <3>1. (d.focus = w) \in BOOLEAN /\ Ours(d, w) \in BOOLEAN BY <2>4 DEF Ours, Window
    <3> QED BY <2>3, <3>1 DEF Hits, Hit
  <2>7. d.focus # w /\ d.wins[w].proc # Nil BY <1>5, <2>1 DEF Reply, Placeable, Mapped
  <2>8. PICK e : e = [d EXCEPT !.wins = [d.wins EXCEPT ![w] = v], !.hits = d.hits \cup {h}] OBVIOUS
  <2>9. e = Applied(d, c) BY <1>5, <2>1, <2>2, <2>3, <2>8 DEF Applied
  <2>10. e \in Desk BY <2>8, <2>5, <2>6 DEF Desk
  <2>11. e.wins = [d.wins EXCEPT ![w] = v] /\ e.hits = d.hits \cup {h} /\ e.late = d.late /\ e.bus = d.bus
         /\ e.starts = d.starts /\ e.shows = d.shows /\ e.ticket = d.ticket
    BY <2>8 DEF Desk
  <2>12. d.wins \in [Wins -> Window] BY DEF Desk
  <2>13. ~h.focused BY <2>6, <2>7
  <2>14. Grows(d, e) BY <2>5, <2>11, <2>12 DEF Grows
  <2>15. \A x \in Wins :
            /\ \/ e.wins[x].moved = d.wins[x].moved
               \/ c.win = x /\ e.wins[x].moved = d.wins[x].moved + 1
            /\ e.wins[x].seen = d.wins[x].seen /\ e.wins[x].proc = d.wins[x].proc
            /\ e.wins[x].token = d.wins[x].token
    BY <2>1, <2>5, <2>11, <2>12
  <2>16. AppliedTo(d, c, e)
    BY <1>5, <2>1, <2>6, <2>7, <2>10, <2>11, <2>13, <2>14, <2>15 DEF AppliedTo
  <2> QED BY <2>9, <2>16
<1>6. CASE Reply(d, c) = "ok" /\ c.cmd = "present"
  <2>1. CASE d.side = c.sel
    <3>1. Applied(d, c) = d BY <1>6, <2>1 DEF Applied
    <3> QED BY <1>6, <3>1, AppliedSame
  <2>2. CASE d.side # c.sel
    <3>1. Applied(d, c) = [d EXCEPT !.side = c.sel, !.shows = @ + 1] BY <1>6, <2>2 DEF Applied
    <3>2. PICK s \in Nat : s = c.sel BY <1>6, OpeningAssumption
    <3>3. PICK n \in Nat : n = d.shows + 1 BY DEF Desk
    <3>4. PICK e : e = [d EXCEPT !.side = s, !.shows = n] OBVIOUS
    <3>5. e \in Desk BY <3>4 DEF Desk
    <3>6. AppliedTo(d, c, e) BY <1>6, <3>3, <3>4, <3>5 DEF AppliedTo, Grows, Desk, Window
    <3> QED BY <3>1, <3>2, <3>3, <3>4, <3>6
  <2> QED BY <2>1, <2>2
<1> QED BY <1>1, <1>2, <1>3, <1>4, <1>5, <1>6

\* A command leaves the windows sound when it places, if anything, a window of the launch.
LEMMA AppliedWindows ==
    ASSUME NEW d \in Desk, NEW c \in Command, NEW e, AppliedTo(d, c, e), WindowsSound(d),
           c.cmd = "place" => c.win # OldWin /\ Owned(d, c.win)
    PROVE  WindowsSound(e)
<1>1. \A w \in Wins : d.wins[w] \in Window /\ e.wins[w] \in Window BY DEF AppliedTo, Desk
<1>2. \A w \in Wins : e.wins[w].proc # Nil => e.wins[w].seen BY DEF AppliedTo, WindowsSound
<1>3. e.wins[OldWin].seen BY OpeningAssumption DEF AppliedTo, WindowsSound
<1>4. e.ticket.win # Nil => e.wins[e.ticket.win].token
  <2>1. CASE e.ticket = d.ticket
    <3>1. d.ticket.win \in Wins \cup {Nil} BY DEF Desk, Ticket
    <3> QED BY <2>1, <3>1 DEF AppliedTo, WindowsSound, Grows
  <2>2. CASE e.ticket # d.ticket
    <3>1. e.ticket.win = Nil BY <2>2 DEF AppliedTo, NoTicket
    <3> QED BY <3>1
  <2> QED BY <2>1, <2>2
<1>5. ASSUME NEW h \in e.hits PROVE h.ours /\ ~h.focused /\ h.win # OldWin
  <2>1. CASE h \in d.hits BY <2>1 DEF WindowsSound
  <2>2. CASE c.cmd = "place" /\ h.win = c.win /\ ~h.focused /\ h.ours = Ours(d, c.win)
             /\ d.wins[c.win].proc # Nil
    <3>1. Ours(d, c.win) BY <2>2 DEF Ours, Owned
    <3> QED BY <2>2, <3>1
  <2> QED BY <1>5, <2>1, <2>2 DEF AppliedTo
<1> QED BY <1>2, <1>3, <1>4, <1>5 DEF WindowsSound

\* What is the launch's stays so.
LEMMA OwnedStays ==
    ASSUME NEW d, NEW e, NEW w, Grows(d, e), Owned(d, w)
    PROVE  Owned(e, w)
  BY DEF Grows, Owned

\* What stays over two steps stays over both.
LEMMA GrowsOn ==
    ASSUME NEW d, NEW e, NEW g, Grows(d, e), Grows(e, g)
    PROVE  Grows(d, g)
  BY DEF Grows

\* The function that Served recurs through, up to n.
Serving(f, d, n) == f = [i \in 0 .. n |->
    IF i = 0 THEN [d EXCEPT !.late = <<>>] ELSE Applied(f[i - 1], d.late[i])]

\* There is such a function, and Served is its last value.
LEMMA ServedBy ==
    ASSUME NEW d, Len(d.late) \in Nat
    PROVE  \E f : Serving(f, d, Len(d.late)) /\ Served(d) = f[Len(d.late)]
<1> DEFINE f == CHOOSE f : Serving(f, d, Len(d.late))
           T == {n \in Nat : \E g : Serving(g, d, n)}
<1>1. \A n \in Nat : n \in T
  <2>1. 0 \in T
    <3>1. Serving([i \in 0 .. 0 |-> [d EXCEPT !.late = <<>>]], d, 0) BY DEF Serving
    <3> QED BY <3>1
  <2>2. ASSUME NEW n \in Nat, n \in T PROVE n + 1 \in T
    <3>1. PICK g : Serving(g, d, n) BY <2>2
    <3> DEFINE h == [i \in 0 .. n + 1 |-> IF i = n + 1 THEN Applied(g[n], d.late[i]) ELSE g[i]]
               k == [i \in 0 .. n + 1 |->
                       IF i = 0 THEN [d EXCEPT !.late = <<>>] ELSE Applied(h[i - 1], d.late[i])]
    <3>2. \A i \in 0 .. n : h[i] = g[i] OBVIOUS
    <3>3. \A i \in 0 .. n + 1 : h[i] = k[i]
      <4> TAKE i \in 0 .. n + 1
      <4>1. CASE i = n + 1 BY <4>1, <3>2
      <4>2. CASE i # n + 1
        <5>1. i \in 0 .. n /\ (i # 0 => i - 1 \in 0 .. n) BY <4>2
        <5>2. g[i] = IF i = 0 THEN [d EXCEPT !.late = <<>>] ELSE Applied(g[i - 1], d.late[i])
            BY <3>1, <5>1 DEF Serving
        <5>3. h[i] = g[i] /\ (i # 0 => h[i - 1] = g[i - 1]) BY <3>2, <5>1
        <5> HIDE DEF h
        <5> QED BY <5>2, <5>3
      <4> QED BY <4>1, <4>2
    <3>4. h = k BY <3>3
    <3>5. Serving(h, d, n + 1)
      <4> HIDE DEF h
      <4> QED BY <3>4 DEF Serving
    <3> QED BY <3>5
  <2> HIDE DEF T
  <2> QED BY <2>1, <2>2, NumberInduction
<1>2. \E g : Serving(g, d, Len(d.late)) BY <1>1
<1>3. Serving(f, d, Len(d.late)) BY <1>2, Zenon
<1>4. Served(d) = f[Len(d.late)] BY DEF Served, Serving
<1> HIDE DEF f
<1> QED BY <1>3, <1>4

\* m is n, or one more for a reason.
Adds(n, m, reason) == m = n \/ (reason /\ m = n + 1)

\* The desk after the first n of the late commands.
ServedSo(d, e, n) ==
    /\ e \in Desk /\ e.late = <<>> /\ Grows(d, e) /\ WindowsSound(e)
    /\ Adds(d.starts, e.starts, \E j \in 1 .. n : d.late[j].cmd \in Launching)
    /\ Adds(d.shows, e.shows, \E j \in 1 .. n : d.late[j].cmd = "present")
    /\ \A w \in Wins : Adds(d.wins[w].moved, e.wins[w].moved,
                            \E j \in 1 .. n : d.late[j].cmd = "place" /\ d.late[j].win = w)

\* Serving one more of the commands that are late adds its own effect.
LEMMA ServedNext ==
    ASSUME NEW d, DeskSound(d), NEW n \in Nat, n + 1 <= Len(d.late),
           NEW e, ServedSo(d, e, n)
    PROVE  ServedSo(d, Applied(e, d.late[n + 1]), n + 1)
<1>1. d \in Desk /\ e \in Desk /\ d.late \in Seq(Command) BY DEF DeskSound, ServedSo, Desk
<1>2. n + 1 \in DOMAIN d.late /\ d.late[n + 1] \in Command BY <1>1
<1>3. PICK c \in Command : c = d.late[n + 1] BY <1>2
<1>4. PICK g : g = Applied(e, c) OBVIOUS
<1>5. AppliedTo(e, c, g) BY <1>1, <1>4, AppliedStep
<1>6. c.cmd = "place" => c.win # OldWin /\ Owned(e, c.win)
    BY <1>2, <1>3, OwnedStays DEF DeskSound, LateSound, ServedSo
<1>7. WindowsSound(g) BY <1>1, <1>5, <1>6, AppliedWindows DEF ServedSo
<1>8. Grows(d, g) BY <1>5, GrowsOn DEF ServedSo, AppliedTo
<1>9. /\ n + 1 \in 1 .. n + 1 /\ 1 .. n \subseteq 1 .. n + 1 /\ \A j \in 1 .. n : j # n + 1 /\ j \in DOMAIN d.late
  <2>1. Len(d.late) \in Nat /\ DOMAIN d.late = 1 .. Len(d.late) BY <1>1
  <2> QED BY <2>1
<1>10. Adds(d.starts, g.starts, \E j \in 1 .. n + 1 : d.late[j].cmd \in Launching)
  <2>1. CASE g.starts = e.starts BY <1>9, <2>1 DEF ServedSo, Adds
  <2>2. CASE c.cmd \in Launching /\ g.starts = e.starts + 1
    <3>1. ~\E j \in 1 .. n : d.late[j].cmd \in Launching
        BY <1>2, <1>3, <1>9, <2>2 DEF DeskSound, OnceSound, Once
    <3>2. e.starts = d.starts BY <3>1 DEF ServedSo, Adds
    <3> QED BY <1>3, <1>9, <2>2, <3>2 DEF Adds
  <2> QED BY <1>5, <2>1, <2>2 DEF AppliedTo
<1>11. Adds(d.shows, g.shows, \E j \in 1 .. n + 1 : d.late[j].cmd = "present")
  <2>1. CASE g.shows = e.shows BY <1>9, <2>1 DEF ServedSo, Adds
  <2>2. CASE c.cmd = "present" /\ g.shows = e.shows + 1
    <3>1. ~\E j \in 1 .. n : d.late[j].cmd = "present"
        BY <1>2, <1>3, <1>9, <2>2 DEF DeskSound, OnceSound, Once
    <3>2. e.shows = d.shows BY <3>1 DEF ServedSo, Adds
    <3> QED BY <1>3, <1>9, <2>2, <3>2 DEF Adds
  <2> QED BY <1>5, <2>1, <2>2 DEF AppliedTo
<1>12. ASSUME NEW w \in Wins
       PROVE  Adds(d.wins[w].moved, g.wins[w].moved,
                   \E j \in 1 .. n + 1 : d.late[j].cmd = "place" /\ d.late[j].win = w)
  <2>1. CASE g.wins[w].moved = e.wins[w].moved BY <1>9, <2>1 DEF ServedSo, Adds
  <2>2. CASE c.cmd = "place" /\ c.win = w /\ g.wins[w].moved = e.wins[w].moved + 1
    <3>1. ~\E j \in 1 .. n : d.late[j].cmd = "place"
        BY <1>2, <1>3, <1>9, <2>2 DEF DeskSound, OnceSound, Once
    <3>2. e.wins[w].moved = d.wins[w].moved BY <3>1 DEF ServedSo, Adds
    <3> QED BY <1>3, <1>9, <2>2, <3>2 DEF Adds
  <2> QED BY <1>5, <2>1, <2>2 DEF AppliedTo
<1>13. g \in Desk /\ g.late = <<>> BY <1>5 DEF AppliedTo, ServedSo
<1>14. ServedSo(d, g, n + 1) BY <1>7, <1>8, <1>10, <1>11, <1>12, <1>13 DEF ServedSo
<1> QED BY <1>3, <1>4, <1>14

\* After all of them each has taken effect once, and none is late.
LEMMA ServedAll ==
    ASSUME NEW d, DeskSound(d)
    PROVE  ServedSo(d, Served(d), Len(d.late))
<1>1. Len(d.late) \in Nat BY DEF DeskSound, Desk
<1>2. PICK f : Serving(f, d, Len(d.late)) /\ Served(d) = f[Len(d.late)] BY <1>1, ServedBy
<1> DEFINE T == {n \in Nat : n <= Len(d.late) => ServedSo(d, f[n], n)}
<1>3. \A n \in Nat : n \in T
  <2>1. 0 \in T
    <3>1. f[0] = [d EXCEPT !.late = <<>>] BY <1>1, <1>2 DEF Serving
    <3>2. <<>> \in Seq(Command) OBVIOUS
    <3>3. d \in Desk BY DEF DeskSound
    <3>4. PICK e : e = [d EXCEPT !.late = <<>>] OBVIOUS
    <3>5. e \in Desk BY <3>2, <3>3, <3>4 DEF Desk
    <3>6. /\ e.late = <<>> /\ e.wins = d.wins /\ e.hits = d.hits /\ e.ticket = d.ticket
          /\ e.starts = d.starts /\ e.shows = d.shows
        BY <3>3, <3>4 DEF Desk
    <3>7. Grows(d, e) /\ WindowsSound(e) BY <3>6 DEF Grows, WindowsSound, DeskSound
    <3>8. ServedSo(d, e, 0) BY <3>5, <3>6, <3>7 DEF ServedSo, Adds
    <3> QED BY <3>1, <3>4, <3>8
  <2>2. ASSUME NEW n \in Nat, n \in T PROVE n + 1 \in T
    <3> SUFFICES ASSUME n + 1 <= Len(d.late) PROVE ServedSo(d, f[n + 1], n + 1) OBVIOUS
    <3>1. n \in 0 .. Len(d.late) /\ n + 1 \in 0 .. Len(d.late) /\ n + 1 # 0 BY <1>1
    <3>2. ServedSo(d, f[n], n) BY <2>2, <1>1
    <3>3. f[n + 1] = Applied(f[n], d.late[n + 1])
      <4>1. (n + 1) - 1 = n OBVIOUS
      <4> QED BY <3>1, <4>1, <1>2 DEF Serving
    <3> QED BY <3>2, <3>3, ServedNext
  <2> HIDE DEF T
  <2> QED BY <2>1, <2>2, NumberInduction
<1> QED BY <1>1, <1>2, <1>3

\* The desk goes on without a new command taking effect or being late.
Calm(d, e) ==
    /\ DeskSound(e) /\ Grows(d, e)
    /\ Unlaunched(d) => Unlaunched(e)
    /\ Unshown(d) => Unshown(e)
Still(d, e) == Unplaced(d) => Unplaced(e) /\ \A w \in Wins : e.wins[w].moved = d.wins[w].moved
Passive(d, e) == Calm(d, e) /\ Still(d, e)

\* Nothing late: what has not happened will not.
LEMMA NoneLate ==
    ASSUME NEW d, d.late = <<>>
    PROVE  /\ \A K : Never(d.starts, d.late, K) <=> d.starts = 0
           /\ \A K : Never(d.shows, d.late, K) <=> d.shows = 0
           /\ Unplaced(d) /\ LateSound(d)
  BY DEF Never, Unplaced, LateSound

\* Serving what is late is such a step.
LEMMA ServedSound ==
    ASSUME NEW d, DeskSound(d)
    PROVE  Passive(d, Served(d)) /\ Served(d).late = <<>>
<1>1. PICK e : e = Served(d) OBVIOUS
<1>2. ServedSo(d, e, Len(d.late)) BY <1>1, ServedAll
<1>3. d \in Desk /\ e \in Desk /\ d.late \in Seq(Command) /\ e.late = <<>> BY <1>2 DEF DeskSound, ServedSo, Desk
<1>4. DOMAIN d.late = 1 .. Len(d.late) /\ DOMAIN e.late = {} BY <1>3
<1>5. Unplaced(e) /\ LateSound(e) BY <1>3, NoneLate
<1>6. d.starts \in Nat /\ e.starts \in Nat /\ d.shows \in Nat /\ e.shows \in Nat BY <1>3 DEF Desk
<1>7. e.starts <= 1 /\ (Unlaunched(d) => Unlaunched(e))
  <2>1. CASE d.starts = 1 \/ Unlaunched(d)
    <3>1. ~\E j \in 1 .. Len(d.late) : d.late[j].cmd \in Launching
        BY <1>4, <2>1 DEF DeskSound, OnceSound, Once, Never, Unlaunched
    <3>2. e.starts = d.starts BY <1>2, <3>1 DEF ServedSo, Adds
    <3> QED BY <1>4, <2>1, <3>2 DEF Never, Unlaunched
  <2>2. CASE d.starts # 1 /\ ~Unlaunched(d)
    <3>1. d.starts = 0 BY <1>6, <2>2 DEF DeskSound, OnceSound, Once
    <3> QED BY <1>2, <2>2, <3>1 DEF ServedSo, Adds
  <2> QED BY <2>1, <2>2
<1>8. e.shows <= 1 /\ (Unshown(d) => Unshown(e))
  <2>1. CASE d.shows = 1 \/ Unshown(d)
    <3>1. ~\E j \in 1 .. Len(d.late) : d.late[j].cmd = "present"
        BY <1>4, <2>1 DEF DeskSound, OnceSound, Once, Never, Unshown
    <3>2. e.shows = d.shows BY <1>2, <3>1 DEF ServedSo, Adds
    <3> QED BY <1>4, <2>1, <3>2 DEF Never, Unshown
  <2>2. CASE d.shows # 1 /\ ~Unshown(d)
    <3>1. d.shows = 0 BY <1>6, <2>2 DEF DeskSound, OnceSound, Once
    <3> QED BY <1>2, <2>2, <3>1 DEF ServedSo, Adds
  <2> QED BY <2>1, <2>2
<1>9. \A w \in Wins : e.wins[w].moved <= 1
  <2> TAKE w \in Wins
  <2>1. d.wins[w].moved \in Nat /\ d.wins[w].moved <= 1 BY <1>3 DEF Desk, Window, DeskSound, OnceSound
  <2>2. CASE \E j \in 1 .. Len(d.late) : d.late[j].cmd = "place" /\ d.late[j].win = w
    <3>1. d.wins[w].moved = 0 BY <1>4, <2>2 DEF DeskSound, LateSound
    <3> QED BY <1>2, <3>1 DEF ServedSo, Adds
  <2>3. CASE ~\E j \in 1 .. Len(d.late) : d.late[j].cmd = "place" /\ d.late[j].win = w
    <3>1. e.wins[w].moved = d.wins[w].moved BY <1>2, <2>3 DEF ServedSo, Adds
    <3> QED BY <2>1, <3>1
  <2> QED BY <2>2, <2>3
<1>10. Still(d, e)
  <2> SUFFICES ASSUME Unplaced(d), NEW w \in Wins PROVE e.wins[w].moved = d.wins[w].moved
      BY <1>5 DEF Still
  <2>1. ~\E j \in 1 .. Len(d.late) : d.late[j].cmd = "place" /\ d.late[j].win = w
      BY <1>4 DEF Unplaced, Never
  <2> QED BY <1>2, <2>1 DEF ServedSo, Adds
<1>11. OnceSound(e) BY <1>4, <1>7, <1>8, <1>9 DEF OnceSound, Once, Never
<1>12. DeskSound(e) BY <1>2, <1>3, <1>5, <1>11 DEF DeskSound, ServedSo
<1>13. Calm(d, e) BY <1>2, <1>7, <1>8, <1>12 DEF Calm, ServedSo
<1> QED BY <1>1, <1>3, <1>10, <1>13 DEF Passive

\* A worker may ask for c now.
MayAsk(d, c) ==
    /\ c \in Command
    /\ c.cmd \in Launching => Unlaunched(d)
    /\ c.cmd = "present" => Unshown(d)
    /\ c.cmd = "place" => /\ c.win # OldWin /\ Owned(d, c.win)
                          /\ d.wins[c.win].moved = 0 /\ Unplaced(d)

\* Whether it is served or left to be, the desk is sound after it.
AskedFor(d, c, e) ==
    /\ DeskSound(e) /\ Grows(d, e)
    /\ c.cmd \notin Launching /\ Unlaunched(d) => Unlaunched(e)
    /\ c.cmd # "present" /\ Unshown(d) => Unshown(e)
    /\ c.cmd # "place" => Still(d, e)

\* A command that is asked for and answered now.
LEMMA AnsweredSound ==
    ASSUME NEW d, NEW c, NEW e, DeskSound(d), MayAsk(d, c), e = Applied(Served(d), c)
    PROVE  /\ AskedFor(d, c, e) /\ e.late = <<>>
           /\ Unplaced(d) => \A w \in Wins : \/ e.wins[w].moved = d.wins[w].moved
                                             \/ c.cmd = "place" /\ c.win = w
<1>1. PICK s : s = Served(d) OBVIOUS
<1>2. Passive(d, s) /\ s.late = <<>> /\ s \in Desk BY <1>1, ServedSound DEF Passive, Calm, DeskSound
<1>3. c \in Command BY DEF MayAsk
<1>4. AppliedTo(s, c, e) BY <1>1, <1>2, <1>3, AppliedStep
<1>5. e \in Desk /\ e.late = <<>> BY <1>2, <1>4 DEF AppliedTo
<1>6. c.cmd = "place" => c.win # OldWin /\ Owned(s, c.win)
    BY <1>2, OwnedStays DEF MayAsk, Passive, Calm
<1>7. WindowsSound(s) /\ OnceSound(s) BY <1>2 DEF Passive, Calm, DeskSound
<1>8. WindowsSound(e) BY <1>2, <1>3, <1>4, <1>6, <1>7, AppliedWindows
<1>9. Grows(d, e) BY <1>2, <1>4, GrowsOn DEF Passive, Calm, AppliedTo
<1>10. DOMAIN e.late = {} /\ DOMAIN s.late = {} BY <1>2, <1>5
<1>11. Unplaced(e) /\ LateSound(e) BY <1>5, NoneLate
<1>12. s.starts \in Nat /\ e.starts \in Nat /\ s.shows \in Nat /\ e.shows \in Nat BY <1>2, <1>5 DEF Desk
<1>13. e.starts <= 1 /\ (c.cmd \notin Launching /\ Unlaunched(d) => Unlaunched(e))
  <2>1. CASE c.cmd \in Launching
    <3>1. s.starts = 0 BY <1>2, <2>1 DEF MayAsk, Passive, Calm, Unlaunched, Never
    <3> QED BY <1>4, <2>1, <3>1 DEF AppliedTo
  <2>2. CASE c.cmd \notin Launching
    <3>1. e.starts = s.starts BY <1>4, <2>2 DEF AppliedTo
    <3> QED BY <1>2, <1>5, <1>7, <3>1 DEF Passive, Calm, OnceSound, Once, Unlaunched
  <2> QED BY <2>1, <2>2
<1>14. e.shows <= 1 /\ (c.cmd # "present" /\ Unshown(d) => Unshown(e))
  <2>1. CASE c.cmd = "present"
    <3>1. s.shows = 0 BY <1>2, <2>1 DEF MayAsk, Passive, Calm, Unshown, Never
    <3> QED BY <1>4, <2>1, <3>1 DEF AppliedTo
  <2>2. CASE c.cmd # "present"
    <3>1. e.shows = s.shows BY <1>4, <2>2 DEF AppliedTo
    <3> QED BY <1>2, <1>5, <1>7, <3>1 DEF Passive, Calm, OnceSound, Once, Unshown
  <2> QED BY <2>1, <2>2
<1>15. Unplaced(d) => \A w \in Wins : \/ e.wins[w].moved = d.wins[w].moved
                                      \/ c.cmd = "place" /\ c.win = w
    BY <1>2, <1>4 DEF Passive, Still, AppliedTo
<1>16. \A w \in Wins : e.wins[w].moved <= 1
  <2> TAKE w \in Wins
  <2>1. CASE e.wins[w].moved = s.wins[w].moved BY <1>7, <2>1 DEF OnceSound
  <2>2. CASE c.cmd = "place" /\ c.win = w /\ e.wins[w].moved = s.wins[w].moved + 1
    <3>1. s.wins[w].moved = 0 BY <1>2, <2>2 DEF MayAsk, Passive, Still
    <3> QED BY <2>2, <3>1
  <2> QED BY <1>4, <2>1, <2>2 DEF AppliedTo
<1>17. OnceSound(e) BY <1>10, <1>13, <1>14, <1>16 DEF OnceSound, Once, Never
<1>18. DeskSound(e) BY <1>5, <1>8, <1>11, <1>17 DEF DeskSound
<1>19. c.cmd # "place" => Still(d, e) BY <1>11, <1>15 DEF Still
<1> QED BY <1>5, <1>9, <1>13, <1>14, <1>15, <1>18, <1>19 DEF AskedFor

\* A command that is asked for and given up: it is late.
LEMMA GivenUpSound ==
    ASSUME NEW d, NEW c, NEW e, DeskSound(d), MayAsk(d, c), e = [d EXCEPT !.late = Append(@, c)]
    PROVE  AskedFor(d, c, e)
<1>1. d \in Desk /\ c \in Command /\ d.late \in Seq(Command) BY DEF DeskSound, MayAsk, Desk
<1>2. PICK s \in Seq(Command) : s = Append(d.late, c)
  <2>1. Append(d.late, c) \in Seq(Command) BY <1>1, AppendProperties
  <2> QED BY <2>1
<1>3. /\ Len(d.late) \in Nat /\ Len(s) = Len(d.late) + 1 /\ DOMAIN d.late = 1 .. Len(d.late)
      /\ DOMAIN s = 1 .. Len(d.late) + 1 /\ s[Len(d.late) + 1] = c
      /\ \A i \in 1 .. Len(d.late) : s[i] = d.late[i]
    BY <1>1, <1>2
<1>4. \A i \in DOMAIN s : (i \in DOMAIN d.late /\ s[i] = d.late[i]) \/ (i = Len(d.late) + 1 /\ s[i] = c)
    BY <1>3
<1>5. e = [d EXCEPT !.late = s] BY <1>2
<1>6. e \in Desk BY <1>1, <1>5 DEF Desk
<1>7. /\ e.late = s /\ e.wins = d.wins /\ e.hits = d.hits /\ e.ticket = d.ticket
      /\ e.starts = d.starts /\ e.shows = d.shows
    BY <1>1, <1>5 DEF Desk
<1>8. Grows(d, e) /\ WindowsSound(e) BY <1>7 DEF Grows, WindowsSound, DeskSound
<1>9. LateSound(e)
  <2> SUFFICES ASSUME NEW i \in DOMAIN s, s[i].cmd = "place"
               PROVE  s[i].win # OldWin /\ Owned(d, s[i].win) /\ d.wins[s[i].win].moved = 0
      BY <1>7 DEF LateSound, Owned
  <2>1. CASE i \in DOMAIN d.late /\ s[i] = d.late[i] BY <2>1 DEF DeskSound, LateSound
  <2>2. CASE s[i] = c BY <2>2 DEF MayAsk
  <2> QED BY <1>4, <2>1, <2>2
<1>10. ASSUME NEW K, NEW n, Once(n, d.late, K), c.cmd \in K => Never(n, d.late, K)
       PROVE  Once(n, s, K)
  <2>1. \A i, j \in DOMAIN s : s[i].cmd \in K /\ s[j].cmd \in K => i = j
      BY <1>4, <1>10 DEF Once, Never
  <2>2. n = 1 => Never(0, s, K) BY <1>4, <1>10 DEF Once, Never
  <2> QED BY <1>10, <2>1, <2>2 DEF Once
<1>11. \A K, n : c.cmd \notin K /\ Never(n, d.late, K) => Never(n, s, K) BY <1>4 DEF Never
<1>12. OnceSound(e)
  <2>1. Once(e.starts, e.late, Launching) BY <1>7, <1>10 DEF MayAsk, DeskSound, OnceSound, Unlaunched
  <2>2. Once(e.shows, e.late, {"present"}) BY <1>7, <1>10 DEF MayAsk, DeskSound, OnceSound, Unshown
  <2>3. Once(0, e.late, {"place"}) BY <1>7, <1>10 DEF MayAsk, DeskSound, OnceSound, Unplaced
  <2> QED BY <1>7, <2>1, <2>2, <2>3 DEF DeskSound, OnceSound
<1>13. DeskSound(e) BY <1>6, <1>8, <1>9, <1>12 DEF DeskSound
<1>14. c.cmd \notin Launching /\ Unlaunched(d) => Unlaunched(e) BY <1>7, <1>11 DEF Unlaunched
<1>15. c.cmd # "present" /\ Unshown(d) => Unshown(e) BY <1>7, <1>11 DEF Unshown
<1>16. c.cmd # "place" => Still(d, e) BY <1>7, <1>11 DEF Unplaced, Still
<1> QED BY <1>8, <1>13, <1>14, <1>15, <1>16 DEF AskedFor

-----------------------------------------------------------------------------
(* Steps of the owner and the compositor.                                    *)

\* What the owner and the applications do is no command.
DeskOnly(d, e) ==
    /\ e \in Desk /\ e.late = d.late /\ e.starts = d.starts /\ e.shows = d.shows /\ e.hits = d.hits
    /\ Grows(d, e) /\ WindowsSound(e) /\ (e.ticket.on => d.ticket.on)
    /\ \A w \in Wins : e.wins[w].moved = d.wins[w].moved

\* No token is left but what was left before.
TicketQuiet == ~left'.spoiled =>
    ~left.spoiled /\ desk'.late = <<>> /\ (desk'.ticket.on => desk.ticket.on)
LeftTyped == left' \in [may : [Spending -> Nat], spoiled : BOOLEAN]

\* What the owner and the applications do brings no command.
LEMMA DeskOnlyPassive ==
    ASSUME NEW d, NEW e, DeskSound(d), DeskOnly(d, e)
    PROVE  Passive(d, e)
<1>1. LateSound(e)
  <2> SUFFICES ASSUME NEW i \in DOMAIN d.late, d.late[i].cmd = "place"
               PROVE  d.late[i].win # OldWin /\ Owned(e, d.late[i].win) /\ e.wins[d.late[i].win].moved = 0
      BY DEF LateSound, DeskOnly
  <2>1. d.late[i].win # OldWin /\ Owned(d, d.late[i].win) /\ d.wins[d.late[i].win].moved = 0
      BY DEF DeskSound, LateSound
  <2>2. Owned(e, d.late[i].win) BY <2>1, OwnedStays DEF DeskOnly
  <2> QED BY <2>1, <2>2 DEF Owned, DeskOnly
<1>2. OnceSound(e) BY DEF DeskSound, OnceSound, DeskOnly
<1>3. DeskSound(e) BY <1>1, <1>2 DEF DeskSound, DeskOnly
<1>4. Calm(d, e) BY <1>3 DEF Calm, DeskOnly, Unlaunched, Unshown
<1>5. Still(d, e) BY DEF Still, DeskOnly, Unplaced
<1> QED BY <1>4, <1>5 DEF Passive

\* What a behaviour spends, and that a loss is remembered.
LEMMA SpendsLeft ==
    ASSUME OpeningTypeOK, NEW what \in Spending, Spends(what)
    PROVE  LeftTyped /\ (left.spoiled => left'.spoiled) /\ (what \in {"losses", "kills"} => left'.spoiled)
<1>1. PICK n \in Nat : n = left.may[what] - 1 BY DEF OpeningTypeOK, Spends
<1>2. left' = [may |-> [left.may EXCEPT ![what] = n], spoiled |-> left.spoiled \/ what \in {"losses", "kills"}]
    BY <1>1 DEF Spends
<1> QED BY <1>2 DEF OpeningTypeOK, LeftTyped

\* The worker does not move.
LEMMA DeskKeeps ==
    ASSUME OpeningInv, Passive(desk, desk'), TicketQuiet, LeftTyped, UNCHANGED <<opening, showing, creations, job>>
    PROVE  OpeningInv'
<1>1. OpeningTypeOK' BY DEF OpeningInv, OpeningTypeOK, LeftTyped, Passive, Calm, DeskSound
<1>2. DeskSound(desk)' BY DEF Passive, Calm
<1>3. FlowInv' /\ StepInv' BY DEF OpeningInv, FlowInv, StepInv, Waits
<1>4. LaunchedInv' /\ ShowInv' BY DEF OpeningInv, LaunchedInv, ShowInv, Before1, Passive, Calm
<1>5. TicketInv' BY DEF OpeningInv, TicketInv, TicketQuiet
<1>6. PlaceInv'
  <2>1. Before1' => Unplaced(desk') /\ \A w \in Wins : desk'.wins[w].moved = 0
      BY DEF OpeningInv, PlaceInv, Before1, Passive, Still
  <2>2. ASSUME job.kind = "open" /\ job.step \in Placing
        PROVE  /\ Unplaced(desk') /\ \A w \in Wins : desk'.wins[w].moved # 0 => w \in job.placed
               /\ job.step \in {"destination", "place"} =>
                     job.win # OldWin /\ Owned(desk', job.win) /\ job.win \notin job.placed
      BY <2>2, OwnedStays DEF OpeningInv, PlaceInv, Passive, Still, Calm
  <2>3. \A w \in job.tokens : desk'.wins[w].token
      BY DEF OpeningInv, PlaceInv, OpeningTypeOK, Job, Passive, Calm, Grows
  <2>4. desk.wins[OldWin].proc = Nil => desk'.wins[OldWin].proc = Nil
      BY OpeningAssumption DEF OpeningInv, DeskSound, WindowsSound, Passive, Calm, Grows
  <2> QED BY <2>1, <2>2, <2>3, <2>4 DEF OpeningInv, PlaceInv
<1>7. OpenedInv'
  <2>1. \A w, base, before, result : New(w, base, before, result) => New(w, base, before, result)'
      BY OwnedStays DEF New, Passive, Calm, Grows, Owned
  <2> QED BY <2>1 DEF OpeningInv, OpenedInv
<1> QED BY <1>1, <1>2, <1>3, <1>4, <1>5, <1>6, <1>7 DEF OpeningInv

\* A step of the owner or of an application keeps the invariant.
LEMMA DoesKeeps ==
    ASSUME OpeningInv, NEW what \in Spending, NEW d, Does(what, d), DeskOnly(desk, d)
    PROVE  OpeningInv'
<1>1. desk' = d BY DEF Does
<1>2. Passive(desk, desk') BY <1>1, DeskOnlyPassive DEF OpeningInv
<1>3. LeftTyped /\ (left.spoiled => left'.spoiled) BY SpendsLeft DEF OpeningInv, Does
<1>4. TicketQuiet BY <1>1, <1>3 DEF TicketQuiet, DeskOnly, OpeningInv, TicketInv
<1> QED BY <1>2, <1>3, <1>4, DeskKeeps DEF Does

\* LateServed: a command whose asker has given up.
LEMMA LateServedKeeps == OpeningInv /\ LateServed => OpeningInv'
<1> SUFFICES ASSUME OpeningInv, LateServed PROVE OpeningInv' OBVIOUS
<1>1. Passive(desk, desk') BY ServedSound DEF OpeningInv, LateServed
<1>2. left.spoiled BY DEF OpeningInv, TicketInv, LateServed
<1>3. TicketQuiet /\ LeftTyped BY <1>2 DEF TicketQuiet, LeftTyped, LateServed, OpeningInv, OpeningTypeOK
<1> QED BY <1>1, <1>3, DeskKeeps DEF LateServed

\* The desk with fewer or other processes and the same windows.
LEMMA SameWindows ==
    ASSUME NEW d, NEW e, DeskSound(d), e \in Desk, e.late = d.late, e.starts = d.starts,
           e.shows = d.shows, e.hits = d.hits, e.wins = d.wins, e.ticket = d.ticket
    PROVE  DeskOnly(d, e)
  BY DEF DeskOnly, DeskSound, Grows, WindowsSound

\* HelperRuns: the launch helper starts the application, or its specification has expired.
LEMMA HelperRunsKeeps == OpeningInv /\ HelperRuns => OpeningInv'
<1> SUFFICES ASSUME OpeningInv, HelperRuns PROVE OpeningInv' OBVIOUS
<1>1. desk \in Desk /\ DeskSound(desk) BY DEF OpeningInv, OpeningTypeOK
<1>2. DeskOnly(desk, desk')
  <2>1. PICK a \in SUBSET Procs : a = desk.alive \cup {"root"} BY <1>1 DEF Desk, Procs, Launched
  <2>2. PICK e, f : e = [desk EXCEPT !.helper = "ran", !.alive = a] /\ f = [desk EXCEPT !.helper = "expired"]
      OBVIOUS
  <2>3. desk' = e \/ desk' = f BY <2>1, <2>2 DEF HelperRuns
  <2>4. e \in Desk /\ f \in Desk BY <1>1, <2>2 DEF Desk
  <2>5. DeskOnly(desk, e)
    <3>1. /\ e.late = desk.late /\ e.starts = desk.starts /\ e.shows = desk.shows
          /\ e.hits = desk.hits /\ e.wins = desk.wins /\ e.ticket = desk.ticket
          BY <1>1, <2>2 DEF Desk
    <3> QED BY <1>1, <2>4, <3>1, SameWindows
  <2>6. DeskOnly(desk, f)
    <3>1. /\ f.late = desk.late /\ f.starts = desk.starts /\ f.shows = desk.shows
          /\ f.hits = desk.hits /\ f.wins = desk.wins /\ f.ticket = desk.ticket
          BY <1>1, <2>2 DEF Desk
    <3> QED BY <1>1, <2>4, <3>1, SameWindows
  <2> QED BY <2>3, <2>5, <2>6
<1>3. Passive(desk, desk') BY <1>1, <1>2, DeskOnlyPassive
<1>4. LeftTyped BY DEF LeftTyped, HelperRuns, OpeningInv, OpeningTypeOK
<1>5. TicketQuiet BY <1>2 DEF TicketQuiet, HelperRuns, OpeningInv, TicketInv, DeskOnly
<1> QED BY <1>3, <1>4, <1>5, DeskKeeps DEF HelperRuns

\* TicketExpires: the token is known no more.
LEMMA TicketExpiresKeeps == OpeningInv /\ TicketExpires => OpeningInv'
<1> SUFFICES ASSUME OpeningInv, TicketExpires PROVE OpeningInv' OBVIOUS
<1>1. desk \in Desk /\ DeskSound(desk) BY DEF OpeningInv, OpeningTypeOK
<1>2. NoTicket \in Ticket /\ ~NoTicket.on /\ NoTicket.win = Nil BY DEF NoTicket, Ticket
<1>3. PICK e : e = [desk EXCEPT !.ticket = NoTicket] OBVIOUS
<1>4. /\ e \in Desk /\ e.late = desk.late /\ e.starts = desk.starts /\ e.shows = desk.shows
      /\ e.hits = desk.hits /\ e.wins = desk.wins /\ e.ticket = NoTicket
    BY <1>1, <1>2, <1>3 DEF Desk
<1>5. DeskOnly(desk, e) BY <1>1, <1>2, <1>4 DEF DeskOnly, DeskSound, Grows, WindowsSound
<1>6. desk' = e BY <1>3 DEF TicketExpires
<1>7. Passive(desk, desk') BY <1>1, <1>5, <1>6, DeskOnlyPassive
<1>8. LeftTyped BY DEF LeftTyped, TicketExpires, OpeningInv, OpeningTypeOK
<1>9. TicketQuiet BY <1>5, <1>6 DEF TicketQuiet, TicketExpires, OpeningInv, TicketInv, DeskOnly
<1> QED BY <1>7, <1>8, <1>9, DeskKeeps DEF TicketExpires

\* One window changes, in a way that keeps what is known of it.
LEMMA WindowChanges ==
    ASSUME NEW d, DeskSound(d), NEW w \in Wins, NEW v \in Window, NEW t \in Ticket, NEW e \in Desk,
           e.late = d.late, e.starts = d.starts, e.shows = d.shows, e.hits = d.hits,
           e.wins = [d.wins EXCEPT ![w] = v], e.ticket = t, t.on = d.ticket.on,
           t.win \in {d.ticket.win} \/ (t.win = w /\ v.token),
           v.moved = d.wins[w].moved, v.proc # Nil => v.seen, d.wins[w].token => v.token,
           d.wins[w].seen => v.seen /\ v.proc \in {d.wins[w].proc, Nil}
    PROVE  DeskOnly(d, e)
<1>1. d.wins \in [Wins -> Window] /\ d.ticket \in Ticket BY DEF DeskSound, Desk
<1>2. \A x \in Wins : e.wins[x] = IF x = w THEN v ELSE d.wins[x] BY <1>1
<1>3. Grows(d, e) BY <1>2 DEF Grows
<1>4. \A x \in Wins : e.wins[x].moved = d.wins[x].moved BY <1>2
<1>5. WindowsSound(e)
  <2>1. \A x \in Wins : e.wins[x].proc # Nil => e.wins[x].seen BY <1>2 DEF DeskSound, WindowsSound
  <2>2. e.wins[OldWin].seen BY <1>3, OpeningAssumption DEF Grows, DeskSound, WindowsSound
  <2>3. t.win # Nil => e.wins[t.win].token
    <3>1. CASE t.win = w /\ v.token BY <1>2, <3>1
    <3>2. CASE t.win = d.ticket.win
      <4>1. d.ticket.win \in Wins \cup {Nil} BY <1>1 DEF Ticket
      <4> QED BY <1>3, <3>2, <4>1 DEF Grows, DeskSound, WindowsSound
    <3> QED BY <3>1, <3>2
  <2> QED BY <2>1, <2>2, <2>3 DEF DeskSound, WindowsSound
<1> QED BY <1>3, <1>4, <1>5 DEF DeskOnly

\* The steps of the applications and of the owner, each on its part of the desk.
LEMMA OwnerKeeps ==
    ASSUME OpeningInv, ChildStarts \/ RootExits \/ Maps \/ Activates \/ Closes \/ Focuses \/ OwnerShows \/ OwnerCrosses
    PROVE  OpeningInv'
<1> DEFINE d == desk
<1>1. d \in Desk /\ DeskSound(d) BY DEF OpeningInv, OpeningTypeOK
<1>2. {"forks", "exits", "maps", "tokens", "closes", "focuses", "shows", "crossings"} \subseteq Spending
    BY DEF Spending
<1>3. CASE ChildStarts
  <2>1. PICK a \in SUBSET Procs : a = d.alive \cup {"child"} BY <1>1 DEF Desk, Procs, Launched
  <2>2. PICK e : e = [d EXCEPT !.alive = a] OBVIOUS
  <2>3. e \in Desk BY <1>1, <2>2 DEF Desk
  <2>4. DeskOnly(d, e)
    <3>1. /\ e.late = d.late /\ e.starts = d.starts /\ e.shows = d.shows
          /\ e.hits = d.hits /\ e.wins = d.wins /\ e.ticket = d.ticket
          BY <1>1, <2>2 DEF Desk
    <3> QED BY <1>1, <2>3, <3>1, SameWindows
  <2>5. Does("forks", e) BY <1>3, <2>1, <2>2 DEF ChildStarts
  <2> QED BY <1>2, <2>4, <2>5, DoesKeeps
<1>4. CASE RootExits
  <2>1. PICK a \in SUBSET Procs : a = d.alive \ {"root"} BY <1>1 DEF Desk
  <2>2. PICK u : u = [w \in Wins |-> IF d.wins[w].proc = "root" THEN [d.wins[w] EXCEPT !.proc = Nil] ELSE d.wins[w]]
      OBVIOUS
  <2>3. PICK f \in Wins \cup {Nil} : f = IF d.focus # Nil /\ d.wins[d.focus].proc = "root" THEN Nil ELSE d.focus
      BY <1>1 DEF Desk
  <2>4. PICK e : e = [d EXCEPT !.alive = a, !.wins = u, !.focus = f] OBVIOUS
  <2>5. \A w \in Wins : /\ u[w] \in Window /\ u[w].moved = d.wins[w].moved /\ u[w].seen = d.wins[w].seen
                        /\ u[w].token = d.wins[w].token /\ u[w].proc \in {d.wins[w].proc, Nil}
    <3> TAKE w \in Wins
    <3>1. d.wins[w] \in Window BY <1>1 DEF Desk
    <3>2. CASE d.wins[w].proc = "root"
      <4>1. u[w] = [d.wins[w] EXCEPT !.proc = Nil] BY <2>2, <3>2
      <4> QED BY <3>1, <4>1 DEF Window
    <3>3. CASE d.wins[w].proc # "root"
      <4>1. u[w] = d.wins[w] BY <2>2, <3>3
      <4> QED BY <3>1, <4>1
    <3> QED BY <3>2, <3>3
  <2>6. u \in [Wins -> Window] BY <2>2, <2>5
  <2>7. e \in Desk BY <1>1, <2>4, <2>6 DEF Desk
  <2>8. /\ e.late = d.late /\ e.starts = d.starts /\ e.shows = d.shows /\ e.hits = d.hits
        /\ e.wins = u /\ e.ticket = d.ticket
      BY <1>1, <2>4 DEF Desk
  <2>9. Grows(d, e) BY <2>5, <2>8 DEF Grows
  <2>10. WindowsSound(e)
    <3>1. d.ticket.win \in Wins \cup {Nil} BY <1>1 DEF Desk, Ticket
    <3> QED BY <1>1, <2>5, <2>8, <3>1, OpeningAssumption DEF DeskSound, WindowsSound
  <2>11. DeskOnly(d, e) BY <2>5, <2>7, <2>8, <2>9, <2>10 DEF DeskOnly
  <2>12. Does("exits", e) BY <1>4, <2>1, <2>2, <2>3, <2>4 DEF RootExits
  <2> QED BY <1>2, <2>11, <2>12, DoesKeeps
<1>5. CASE Maps
  <2>1. PICK w \in Wins \ {OldWin}, p \in d.alive :
            ~d.wins[w].seen /\ Does("maps", [d EXCEPT !.wins[w] = Mapping(w, p)])
      BY <1>5 DEF Maps
  <2>2. p \in Procs /\ d.wins[w] \in Window /\ d.front \in Nat /\ d.ticket \in Ticket BY <1>1, <2>1 DEF Desk
  <2>3. PICK n \in Nat : n = IF p \in Launched THEN Target ELSE d.front BY <2>2, OpeningAssumption
  <2>4. PICK v : v = [d.wins[w] EXCEPT !.seen = TRUE, !.proc = p, !.ws = n] OBVIOUS
  <2>5. v \in Window /\ v.moved = d.wins[w].moved /\ v.seen /\ v.token = d.wins[w].token
      BY <2>2, <2>4 DEF Window
  <2>6. PICK e : e = [d EXCEPT !.wins = [d.wins EXCEPT ![w] = v]] OBVIOUS
  <2>7. e \in Desk BY <1>1, <2>5, <2>6 DEF Desk
  <2>8. /\ e.late = d.late /\ e.starts = d.starts /\ e.shows = d.shows /\ e.hits = d.hits
        /\ e.wins = [d.wins EXCEPT ![w] = v] /\ e.ticket = d.ticket
      BY <1>1, <2>6 DEF Desk
  <2>9. DeskOnly(d, e) BY <1>1, <2>1, <2>2, <2>5, <2>7, <2>8, WindowChanges
  <2>10. v = Mapping(w, p) BY <2>3, <2>4 DEF Mapping
  <2>11. Does("maps", e) BY <2>1, <2>6, <2>10
  <2> QED BY <1>2, <2>9, <2>11, DoesKeeps
<1>6. CASE Activates
  <2>1. PICK w \in Mapped(d) : Does("tokens", [d EXCEPT !.wins[w].token = TRUE, !.ticket = Noted(d.ticket, w)])
      BY <1>6 DEF Activates
  <2>2. w \in Wins /\ d.wins[w] \in Window /\ d.ticket \in Ticket /\ d.wins[w].proc # Nil
      BY <1>1, <2>1 DEF Desk, Mapped
  <2>3. PICK v : v = [d.wins[w] EXCEPT !.token = TRUE] OBVIOUS
  <2>4. /\ v \in Window /\ v.moved = d.wins[w].moved /\ v.seen = d.wins[w].seen /\ v.token
        /\ v.proc = d.wins[w].proc
      BY <2>2, <2>3 DEF Window
  <2>5. PICK t : t = Noted(d.ticket, w) OBVIOUS
  <2>6. t \in Ticket /\ t.on = d.ticket.on /\ (t.win = d.ticket.win \/ t.win = w)
      BY <2>2, <2>5 DEF Noted, Ticket
  <2>7. PICK e : e = [d EXCEPT !.wins = [d.wins EXCEPT ![w] = v], !.ticket = t] OBVIOUS
  <2>8. e \in Desk BY <1>1, <2>4, <2>6, <2>7 DEF Desk
  <2>9. /\ e.late = d.late /\ e.starts = d.starts /\ e.shows = d.shows /\ e.hits = d.hits
        /\ e.wins = [d.wins EXCEPT ![w] = v] /\ e.ticket = t
      BY <1>1, <2>7 DEF Desk
  <2>10. d.wins[w].seen BY <1>1, <2>2 DEF DeskSound, WindowsSound
  <2>11. DeskOnly(d, e) BY <1>1, <2>2, <2>4, <2>6, <2>8, <2>9, <2>10, WindowChanges
  <2>12. Does("tokens", e) BY <2>1, <2>3, <2>5, <2>7
  <2> QED BY <1>2, <2>11, <2>12, DoesKeeps
<1>7. CASE Closes
  <2>1. PICK w \in Mapped(d) :
            Does("closes", [d EXCEPT !.wins[w].proc = Nil, !.focus = IF @ = w THEN Nil ELSE @])
      BY <1>7 DEF Closes
  <2>2. w \in Wins /\ d.wins[w] \in Window /\ d.ticket \in Ticket BY <1>1, <2>1 DEF Desk, Mapped
  <2>3. PICK v : v = [d.wins[w] EXCEPT !.proc = Nil] OBVIOUS
  <2>4. /\ v \in Window /\ v.moved = d.wins[w].moved /\ v.seen = d.wins[w].seen
        /\ v.token = d.wins[w].token /\ v.proc = Nil
      BY <2>2, <2>3 DEF Window
  <2>5. PICK f \in Wins \cup {Nil} : f = IF d.focus = w THEN Nil ELSE d.focus BY <1>1 DEF Desk
  <2>6. PICK e : e = [d EXCEPT !.wins = [d.wins EXCEPT ![w] = v], !.focus = f] OBVIOUS
  <2>7. e \in Desk BY <1>1, <2>4, <2>6 DEF Desk
  <2>8. /\ e.late = d.late /\ e.starts = d.starts /\ e.shows = d.shows /\ e.hits = d.hits
        /\ e.wins = [d.wins EXCEPT ![w] = v] /\ e.ticket = d.ticket
      BY <1>1, <2>6 DEF Desk
  <2>9. DeskOnly(d, e) BY <1>1, <2>2, <2>4, <2>7, <2>8, WindowChanges
  <2>10. Does("closes", e) BY <2>1, <2>3, <2>5, <2>6
  <2> QED BY <1>2, <2>9, <2>10, DoesKeeps
<1>8. CASE Focuses
  <2>1. PICK w \in Mapped(d) : Does("focuses", [d EXCEPT !.focus = w]) BY <1>8 DEF Focuses
  <2>2. PICK e : e = [d EXCEPT !.focus = w] OBVIOUS
  <2>3. e \in Desk BY <1>1, <2>2 DEF Desk, Mapped
  <2>4. DeskOnly(d, e)
    <3>1. /\ e.late = d.late /\ e.starts = d.starts /\ e.shows = d.shows
          /\ e.hits = d.hits /\ e.wins = d.wins /\ e.ticket = d.ticket
          BY <1>1, <2>2 DEF Desk
    <3> QED BY <1>1, <2>3, <3>1, SameWindows
  <2> QED BY <1>2, <2>1, <2>2, <2>4, DoesKeeps
<1>9. CASE OwnerShows
  <2>1. PICK s \in Selections \cup {Target} : Does("shows", [d EXCEPT !.front = s]) BY <1>9 DEF OwnerShows
  <2>2. s \in Nat BY OpeningAssumption
  <2>3. PICK e : e = [d EXCEPT !.front = s] OBVIOUS
  <2>4. e \in Desk BY <1>1, <2>2, <2>3 DEF Desk
  <2>5. DeskOnly(d, e)
    <3>1. /\ e.late = d.late /\ e.starts = d.starts /\ e.shows = d.shows
          /\ e.hits = d.hits /\ e.wins = d.wins /\ e.ticket = d.ticket
          BY <1>1, <2>3 DEF Desk
    <3> QED BY <1>1, <2>4, <3>1, SameWindows
  <2> QED BY <1>2, <2>1, <2>3, <2>5, DoesKeeps
<1>10. CASE OwnerCrosses
  <2>1. PICK m \in {"front", "side"} : m = IF d.focusMon = "side" THEN "front" ELSE "side" OBVIOUS
  <2>2. PICK e : e = [d EXCEPT !.focusMon = m] OBVIOUS
  <2>3. e \in Desk BY <1>1, <2>2 DEF Desk
  <2>4. DeskOnly(d, e)
    <3>1. /\ e.late = d.late /\ e.starts = d.starts /\ e.shows = d.shows
          /\ e.hits = d.hits /\ e.wins = d.wins /\ e.ticket = d.ticket
          BY <1>1, <2>2 DEF Desk
    <3> QED BY <1>1, <2>3, <3>1, SameWindows
  <2>5. Does("crossings", e) BY <1>10, <2>1, <2>2 DEF OwnerCrosses
  <2> QED BY <1>2, <2>4, <2>5, DoesKeeps
<1> QED BY <1>3, <1>4, <1>5, <1>6, <1>7, <1>8, <1>9, <1>10

-----------------------------------------------------------------------------
(* Steps of the broker.                                                      *)

\* A queue with one more at its end.
LEMMA WaitsMore ==
    ASSUME NEW q \in Seq(Kinds), NEW x \in Kinds, NEW r, r = Append(q, x)
    PROVE  /\ r \in Seq(Kinds)
           /\ \A i \in DOMAIN r : (i \in DOMAIN q /\ r[i] = q[i]) \/ (i = Len(q) + 1 /\ r[i] = x)
           /\ \A i \in DOMAIN q : i \in DOMAIN r /\ r[i] = q[i]
           /\ Len(q) + 1 \in DOMAIN r /\ r[Len(q) + 1] = x
<1>1. r \in Seq(Kinds) BY AppendProperties
<1>2. /\ Len(q) \in Nat /\ Len(r) = Len(q) + 1 /\ DOMAIN q = 1 .. Len(q)
      /\ DOMAIN r = 1 .. Len(q) + 1 /\ r[Len(q) + 1] = x
      /\ \A i \in 1 .. Len(q) : r[i] = q[i]
    OBVIOUS
<1> QED BY <1>1, <1>2

\* A queue without its first.
LEMMA WaitsLess ==
    ASSUME NEW q \in Seq(Kinds), q # <<>>
    PROVE  /\ Tail(q) \in Seq(Kinds) /\ Head(q) = q[1] /\ 1 \in DOMAIN q
           /\ q[1] \in Kinds
           /\ \A i \in DOMAIN Tail(q) : i + 1 \in DOMAIN q /\ Tail(q)[i] = q[i + 1] /\ i + 1 # 1 /\ i \in Nat
           /\ \A i \in DOMAIN q : i # 1 => i - 1 \in DOMAIN Tail(q) /\ Tail(q)[i - 1] = q[i]
<1>1. /\ Tail(q) \in Seq(Kinds) /\ Len(Tail(q)) = Len(q) - 1 /\ Len(q) \in Nat \ {0}
      /\ Head(q) = q[1] /\ DOMAIN q = 1 .. Len(q) /\ DOMAIN Tail(q) = 1 .. Len(q) - 1
      /\ \A i \in 1 .. Len(q) - 1 : Tail(q)[i] = q[i + 1]
    OBVIOUS
<1>2. 1 \in 1 .. Len(q) BY <1>1
<1>3. q[1] \in Kinds BY <1>1, <1>2
<1>4. \A i \in 1 .. Len(q) - 1 : i + 1 \in 1 .. Len(q) /\ i + 1 # 1 /\ i \in Nat BY <1>1
<1>5. \A i \in 1 .. Len(q) : i # 1 => i - 1 \in 1 .. Len(q) - 1 /\ (i - 1) + 1 = i BY <1>1
<1>6. \A i \in 1 .. Len(q) : i # 1 => Tail(q)[i - 1] = q[i] BY <1>1, <1>5
<1> QED BY <1>1, <1>2, <1>3, <1>4, <1>5, <1>6

\* The desk and the worker stay.
LEMMA SameDesk ==
    ASSUME OpeningInv, UNCHANGED <<desk, job>>, LeftTyped, left.spoiled => left'.spoiled
    PROVE  /\ DeskSound(desk)' /\ StepInv' /\ TicketInv'
           /\ (Before1' => Before1) => PlaceInv'
           /\ Unlaunched(desk') = Unlaunched(desk) /\ Unshown(desk') = Unshown(desk)
           /\ \A w, base, before, result : New(w, base, before, result) = New(w, base, before, result)'
<1>1. StepInv' BY DEF OpeningInv, StepInv
<1>2. TicketInv' BY DEF OpeningInv, TicketInv
<1>3. (Before1' => Before1) => PlaceInv' BY DEF OpeningInv, PlaceInv
<1>4. \A w, base, before, result : New(w, base, before, result) = New(w, base, before, result)' BY DEF New, Owned
<1>5. DeskSound(desk)' BY DEF OpeningInv
<1>6. Unlaunched(desk') = Unlaunched(desk) /\ Unshown(desk') = Unshown(desk) OBVIOUS
<1> QED BY <1>1, <1>2, <1>3, <1>4, <1>5, <1>6

\* NativeOpen: a first request waits, a repeated one is answered with what is kept.
LEMMA NativeOpenKeeps == OpeningInv /\ NativeOpen => OpeningInv'
<1> SUFFICES ASSUME OpeningInv, NativeOpen PROVE OpeningInv' OBVIOUS
<1>1. UNCHANGED <<desk, job, showing>> /\ Spends("calls") BY DEF NativeOpen, Ask
<1>2. LeftTyped /\ (left.spoiled => left'.spoiled) BY <1>1, SpendsLeft DEF OpeningInv, Spending
<1>3. CASE opening.code # Nil
  <2>1. UNCHANGED <<opening, creations>> BY <1>3 DEF NativeOpen, Ask
  <2>2. Before1' = Before1 BY <1>1, <2>1 DEF Before1
  <2> QED BY <1>1, <1>2, <2>1, <2>2, SameDesk
          DEF OpeningInv, OpeningTypeOK, LeftTyped, FlowInv, Waits, LaunchedInv, ShowInv, OpenedInv
<1>4. CASE opening.code = Nil
  <2>1. creations' = Append(creations, "open") BY <1>4 DEF NativeOpen, Ask
  <2>2. opening' = [opening EXCEPT !.code = "running"] BY <1>4 DEF NativeOpen
  <2>3. PICK q \in Seq(Kinds) : q = creations BY DEF OpeningInv, OpeningTypeOK
  <2>4. PICK o \in Opening : o = opening BY DEF OpeningInv, OpeningTypeOK
  <2>5. opening' \in Opening /\ opening'.code = "running" BY <2>2, <2>4 DEF Opening
  <2>6. Nil # "running" /\ Nil # "refused" BY OpeningAssumption DEF Results
  <2>7. ~Waits("open") /\ job.kind # "open" BY <1>4, <2>6 DEF OpeningInv, FlowInv
  <2>8. \A x : Waits(x)' <=> Waits(x) \/ x = "open" BY <2>1, <2>3, WaitsMore DEF Waits
  <2>9. \A i, j \in DOMAIN creations' : creations'[i] = creations'[j] => i = j
      BY <2>1, <2>3, <2>7, WaitsMore DEF OpeningInv, FlowInv, Waits
  <2>10. FlowInv' BY <1>1, <2>5, <2>7, <2>8, <2>9 DEF OpeningInv, FlowInv
  <2>11. Before1 BY <1>4 DEF Before1
  <2>12. LaunchedInv' BY <1>1, <2>11 DEF OpeningInv, LaunchedInv
  <2>13. creations' \in Seq(Kinds) BY <2>1, <2>3, WaitsMore DEF Kinds
  <2>14. OpeningTypeOK' BY <1>1, <1>2, <2>5, <2>13 DEF OpeningInv, OpeningTypeOK, LeftTyped
  <2>15. OpenedInv' BY <1>1, <1>2, <2>5, SameDesk DEF OpeningInv, OpenedInv
  <2> QED BY <1>1, <1>2, <2>10, <2>11, <2>12, <2>14, <2>15, SameDesk DEF OpeningInv, ShowInv
<1> QED BY <1>3, <1>4

\* Present: the same for a presentation, which may be retried when it is free.
LEMMA PresentKeeps ==
    ASSUME OpeningInv, NEW s \in Selections, Present(s)
    PROVE  OpeningInv'
<1>1. UNCHANGED <<desk, job, opening>> /\ Spends("calls") BY DEF Present, Ask
<1>2. LeftTyped /\ (left.spoiled => left'.spoiled) BY <1>1, SpendsLeft DEF OpeningInv, Spending
<1>3. Before1' = Before1 BY <1>1 DEF Before1
<1>4. CASE ~(showing.sel = Nil \/ (showing.sel = s /\ showing.run = "free"))
  <2>1. UNCHANGED <<showing, creations>> BY <1>4 DEF Present, Ask
  <2> QED BY <1>1, <1>2, <1>3, <2>1, SameDesk
          DEF OpeningInv, OpeningTypeOK, LeftTyped, FlowInv, Waits, LaunchedInv, ShowInv, OpenedInv
<1>5. CASE showing.sel = Nil \/ (showing.sel = s /\ showing.run = "free")
  <2>1. creations' = Append(creations, "present") BY <1>5 DEF Present, Ask
  <2>2. showing' = [sel |-> s, run |-> "running"] BY <1>5 DEF Present
  <2>3. PICK q \in Seq(Kinds) : q = creations BY DEF OpeningInv, OpeningTypeOK
  <2>4. showing' \in Showing /\ showing'.run = "running" /\ showing'.sel = s BY <2>2 DEF Showing
  <2>5. Nil \notin Selections BY OpeningAssumption
  <2>6. showing.run \in {"none", "free"} BY <1>5, <2>5 DEF OpeningInv, FlowInv
  <2>7. ~Waits("present") /\ job.kind # "present" BY <2>6 DEF OpeningInv, FlowInv
  <2>8. \A x : Waits(x)' <=> Waits(x) \/ x = "present" BY <2>1, <2>3, WaitsMore DEF Waits
  <2>9. \A i, j \in DOMAIN creations' : creations'[i] = creations'[j] => i = j
      BY <2>1, <2>3, <2>7, WaitsMore DEF OpeningInv, FlowInv, Waits
  <2>10. FlowInv' BY <1>1, <2>4, <2>7, <2>8, <2>9 DEF OpeningInv, FlowInv
  <2>11. ShowInv' BY <1>1, <2>6 DEF OpeningInv, ShowInv
  <2>12. creations' \in Seq(Kinds) BY <2>1, <2>3, WaitsMore DEF Kinds
  <2>13. OpeningTypeOK' BY <1>1, <1>2, <2>4, <2>12 DEF OpeningInv, OpeningTypeOK, LeftTyped
  <2>14. OpenedInv' BY <1>1, <1>2, SameDesk DEF OpeningInv, OpenedInv
  <2> QED BY <1>1, <1>2, <1>3, <2>10, <2>11, <2>13, <2>14, SameDesk DEF OpeningInv, LaunchedInv
<1> QED BY <1>4, <1>5

\* No worker runs.
LEMMA EmptyJob == NoJob \in Job
<1>1. NoJob \in [kind : Kinds \cup {Nil}, step : OpenSteps \cup ShowSteps \cup {"idle"},
            attempted : BOOLEAN, ticket : BOOLEAN, base : SUBSET Wins, before : SUBSET Procs,
            focus : Wins \cup {Nil}, tokens : SUBSET Wins, placed : SUBSET Wins,
            win : Wins \cup {Nil}, result : Results \cup {Nil}] BY DEF NoJob
<1> QED BY <1>1 DEF Job

\* Starts: the first that waits has its worker.
LEMMA StartsKeeps == OpeningInv /\ Starts => OpeningInv'
<1> SUFFICES ASSUME OpeningInv, Starts PROVE OpeningInv' OBVIOUS
<1>1. UNCHANGED <<desk, opening, showing, left>> BY DEF Starts
<1>2. PICK q \in Seq(Kinds) : q = creations /\ q # <<>> BY DEF OpeningInv, OpeningTypeOK, Starts
<1>3. PICK h \in Kinds : h = Head(q) /\ h = q[1] BY <1>2, WaitsLess
<1>4. creations' = Tail(q) BY <1>2 DEF Starts
<1>5. NoJob \in Job BY EmptyJob
<1>6. PICK n \in Job : n = NoJob BY <1>5
<1>7. job' = [n EXCEPT !.kind = h, !.step = "ready"] BY <1>2, <1>3, <1>6 DEF Starts
<1>8. /\ job' \in Job /\ job'.kind = h /\ job'.step = "ready" /\ ~job'.attempted
      /\ job'.tokens = {} /\ job'.result = Nil
  <2>1. "ready" \in OpenSteps BY DEF OpenSteps
  <2>2. n.attempted = FALSE /\ n.tokens = {} /\ n.result = Nil BY <1>6 DEF NoJob
  <2> QED BY <1>7, <2>1, <2>2 DEF Job
<1>9. Nil # "open" /\ Nil # "present" /\ Nil # "refused" /\ Nil \notin {"opened", "forwarded"}
    BY OpeningAssumption DEF Kinds, Results
<1>10. job.kind = Nil BY DEF Starts
<1>11. Waits(h) BY <1>2, <1>3, WaitsLess DEF Waits
<1>12. \A x : Waits(x)' <=> Waits(x) /\ x # h
  <2> TAKE x
  <2>1. ASSUME Waits(x)' PROVE Waits(x) /\ x # h
    <3>1. PICK i \in DOMAIN Tail(q) : Tail(q)[i] = x BY <1>4, <2>1 DEF Waits
    <3>2. i + 1 \in DOMAIN q /\ q[i + 1] = x /\ i + 1 # 1 BY <1>2, <3>1, WaitsLess
    <3> QED BY <1>2, <1>3, <3>2, WaitsLess DEF OpeningInv, FlowInv, Waits
  <2>2. ASSUME Waits(x), x # h PROVE Waits(x)'
    <3>1. PICK i \in DOMAIN q : q[i] = x /\ i # 1 BY <1>2, <1>3, <2>2 DEF Waits
    <3> QED BY <1>2, <1>4, <3>1, WaitsLess DEF Waits
  <2> QED BY <2>1, <2>2
<1>13. \A i, j \in DOMAIN creations' : creations'[i] = creations'[j] => i = j
  <2> SUFFICES ASSUME NEW i \in DOMAIN Tail(q), NEW j \in DOMAIN Tail(q), Tail(q)[i] = Tail(q)[j] PROVE i = j
      BY <1>4
  <2>1. /\ i + 1 \in DOMAIN q /\ q[i + 1] = Tail(q)[i] /\ j + 1 \in DOMAIN q /\ q[j + 1] = Tail(q)[j]
        /\ i \in Nat /\ j \in Nat
      BY <1>2, WaitsLess
  <2>2. i + 1 = j + 1 BY <1>2, <2>1 DEF OpeningInv, FlowInv
  <2> QED BY <2>1, <2>2
<1>14. FlowInv' BY <1>1, <1>8, <1>9, <1>10, <1>11, <1>12, <1>13 DEF OpeningInv, FlowInv
<1>15. StepInv' BY <1>8, <1>9 DEF Kinds, StepInv, OpenSteps, ShowSteps, Placing, Early
<1>16. Before1' => Before1
  <2>1. CASE h = "open"
    <3>1. opening.code = "running" BY <1>11, <2>1 DEF OpeningInv, FlowInv
    <3> QED BY <1>9, <1>10, <3>1 DEF Before1
  <2>2. CASE h = "present" BY <1>1, <1>8, <1>9, <1>10, <2>2 DEF Before1
  <2> QED BY <2>1, <2>2 DEF Kinds
<1>17. LaunchedInv' BY <1>1, <1>16 DEF OpeningInv, LaunchedInv
<1>18. ShowInv' BY <1>1 DEF OpeningInv, ShowInv
<1>19. TicketInv' BY <1>1, <1>9, <1>10 DEF OpeningInv, TicketInv
<1>20. PlaceInv' BY <1>1, <1>8, <1>16 DEF OpeningInv, PlaceInv, Placing
<1>21. OpenedInv'
  <2>1. \A w, base, before, result : New(w, base, before, result) = New(w, base, before, result)'
      BY <1>1 DEF New, Owned
  <2> QED BY <1>1, <1>8, <2>1 DEF OpeningInv, OpenedInv
<1>22. creations' \in Seq(Kinds) BY <1>2, <1>4, WaitsLess
<1>23. OpeningTypeOK' BY <1>1, <1>8, <1>22 DEF OpeningInv, OpeningTypeOK
<1>24. DeskSound(desk)' BY <1>1 DEF OpeningInv
<1> QED BY <1>14, <1>15, <1>17, <1>18, <1>19, <1>20, <1>21, <1>23, <1>24 DEF OpeningInv

\* The worker is gone, with what is kept of it.
LEMMA EndsKeeps ==
    ASSUME OpeningInv, job.kind # Nil, NEW code, NEW win \in Wins \cup {Nil}, Ends(code, win),
           DeskSound(desk)', Grows(desk, desk'), Still(desk, desk'), LeftTyped,
           Unlaunched(desk) => Unlaunched(desk'),
           ~left'.spoiled => desk'.late = <<>> /\ ~desk'.ticket.on,
           job.kind = "open" =>
               /\ Unshown(desk) => Unshown(desk')
               /\ code \in Results \cup {"lost", "approval"}
               /\ code \in {"approval", "refused"} => ~job.attempted
               /\ code \in {"opened", "forwarded"} => New(win, job.base, job.before, code),
           job.kind = "present" =>
               /\ code \in {"ok", "unconfirmed", "not-ready", "approval", "incompatible"}
               /\ code \notin {"ok", "unconfirmed"} => Unshown(desk')
    PROVE  OpeningInv'
<1>1. job' = NoJob /\ job'.kind = Nil /\ job'.step = "idle" /\ job'.tokens = {} /\ job'.result = Nil
    BY DEF Ends, NoJob
<1>2. UNCHANGED creations BY DEF Ends
<1>3. job.kind \in Kinds BY DEF OpeningInv, OpeningTypeOK, Job
<1>4. Nil # "open" /\ Nil # "present" /\ Nil # "refused" /\ Nil \notin {"opened", "forwarded"}
      /\ Nil # "running"
    BY OpeningAssumption DEF Kinds, Results
<1>5. StepInv' BY <1>1, <1>4 DEF StepInv
<1>6. TicketInv' BY DEF TicketInv
<1>7. \A w, base, before, result : New(w, base, before, result) => New(w, base, before, result)'
    BY OwnedStays DEF New, Grows, Owned
<1>8. job' \in Job BY <1>1, EmptyJob
<1>9. CASE job.kind = "open"
  <2>1. UNCHANGED showing BY <1>9 DEF Ends
  <2>2. opening.code = "running" /\ ~Waits("open") BY <1>9 DEF OpeningInv, FlowInv
  <2>3. PICK o \in Opening : o = opening BY DEF OpeningInv, OpeningTypeOK
  <2>4. PICK j \in Job : j = job BY DEF OpeningInv, OpeningTypeOK
  <2>5. /\ opening' \in Opening
        /\ opening'.code = IF code = "approval" THEN Nil ELSE code
        /\ code # "approval" => opening'.win = win /\ opening'.base = job.base /\ opening'.before = job.before
    <3>1. CASE code = "approval"
      <4>1. opening' = [o EXCEPT !.code = Nil] BY <1>9, <2>3, <3>1 DEF Ends
      <4> QED BY <3>1, <4>1 DEF Opening
    <3>2. CASE code # "approval"
      <4>1. opening' = [code |-> code, win |-> win, base |-> j.base, before |-> j.before]
          BY <1>9, <2>4, <3>2 DEF Ends
      <4>2. j.base \in SUBSET Wins /\ j.before \in SUBSET Procs BY DEF Job
      <4>3. code \in Results \cup {"lost"} BY <1>9, <3>2
      <4> QED BY <2>4, <3>2, <4>1, <4>2, <4>3 DEF Opening
    <3> QED BY <3>1, <3>2
  <2>6. code # "running" BY <1>9 DEF Results
  <2>7. opening'.code # "running" BY <1>4, <2>5, <2>6
  <2>8. FlowInv' BY <1>1, <1>2, <1>4, <1>9, <2>1, <2>2, <2>7 DEF OpeningInv, FlowInv, Waits
  <2>9. Before1' \/ opening'.code = "refused" => code \in {"approval", "refused"}
    <3>1. code \in Results \cup {"lost", "approval"} BY <1>9
    <3>2. Nil \notin Results \cup {"lost"} BY OpeningAssumption
    <3>3. Before1' => opening'.code = Nil BY <1>1, <1>4, <2>7 DEF Before1
    <3> QED BY <1>4, <2>5, <3>1, <3>2, <3>3
  <2>10. Before1' \/ opening'.code = "refused" => Before1 BY <1>9, <2>9 DEF Before1
  <2>11. LaunchedInv' BY <2>10 DEF OpeningInv, LaunchedInv
  <2>12. ShowInv' BY <1>9, <2>1 DEF OpeningInv, ShowInv
  <2>13. PlaceInv' BY <1>1, <1>4, <2>10 DEF OpeningInv, PlaceInv, Still
  <2>14. OpenedInv'
    <3>1. ASSUME opening'.code \in {"opened", "forwarded"}
          PROVE  New(opening.win, opening.base, opening.before, opening.code)'
      <4>1. code # "approval" /\ code = opening'.code BY <1>4, <2>5, <3>1
      <4>2. PICK b, f : b = job.base /\ f = job.before OBVIOUS
      <4>3. New(win, b, f, code) BY <1>9, <3>1, <4>1, <4>2
      <4>4. New(win, b, f, code)' BY <1>7, <4>3
      <4>5. opening'.win = win /\ opening'.base = b /\ opening'.before = f BY <2>5, <4>1, <4>2
      <4> QED BY <4>1, <4>4, <4>5 DEF New
    <3> QED BY <1>1, <1>4, <3>1 DEF OpenedInv
  <2>15. OpeningTypeOK' BY <1>2, <1>8, <2>1, <2>5 DEF OpeningInv, OpeningTypeOK, LeftTyped, DeskSound
  <2> QED BY <1>5, <1>6, <2>8, <2>11, <2>12, <2>13, <2>14, <2>15 DEF OpeningInv
<1>10. CASE job.kind = "present"
  <2>1. UNCHANGED opening /\ showing' = Keeps(code) BY <1>4, <1>10 DEF Ends
  <2>2. showing.run = "running" /\ ~Waits("present") /\ showing.sel \in Selections
      BY <1>10 DEF OpeningInv, FlowInv
  <2>3. PICK s \in Showing : s = showing BY DEF OpeningInv, OpeningTypeOK
  <2>4. /\ showing' \in Showing /\ showing'.run # "running"
        /\ showing'.run # "none" => showing'.sel \in Selections
        /\ showing'.run \in {"none", "free"} => code \notin {"ok", "unconfirmed"}
    <3>1. CASE code = "not-ready"
      <4>1. showing' = [s EXCEPT !.run = "free"] BY <2>1, <2>3, <3>1 DEF Keeps
      <4> QED BY <2>2, <2>3, <3>1, <4>1 DEF Showing
    <3>2. CASE code \in {"approval", "incompatible"}
      <4>1. showing' = [sel |-> Nil, run |-> "none"] BY <2>1, <3>2 DEF Keeps
      <4> QED BY <3>2, <4>1 DEF Showing
    <3>3. CASE code \in {"ok", "unconfirmed"}
      <4>1. showing' = [s EXCEPT !.run = code] BY <2>1, <2>3, <3>3 DEF Keeps
      <4> QED BY <2>2, <2>3, <3>3, <4>1 DEF Showing
    <3> QED BY <1>10, <3>1, <3>2, <3>3
  <2>5. FlowInv' BY <1>1, <1>2, <1>4, <1>10, <2>1, <2>2, <2>4 DEF OpeningInv, FlowInv, Waits
  <2>6. Before1' => Before1 BY <1>1, <1>4, <1>10, <2>1 DEF Before1
  <2>7. LaunchedInv' BY <2>1, <2>6 DEF OpeningInv, LaunchedInv
  <2>8. ShowInv' BY <1>10, <2>4 DEF ShowInv
  <2>9. PlaceInv' BY <1>1, <1>4, <2>6 DEF OpeningInv, PlaceInv, Still
  <2>10. OpenedInv' BY <1>1, <1>4, <1>7, <2>1 DEF OpeningInv, OpenedInv
  <2>11. OpeningTypeOK' BY <1>2, <1>8, <2>1, <2>4 DEF OpeningInv, OpeningTypeOK, LeftTyped, DeskSound
  <2> QED BY <1>5, <1>6, <2>5, <2>7, <2>8, <2>9, <2>10, <2>11 DEF OpeningInv
<1> QED BY <1>3, <1>9, <1>10 DEF Kinds

\* The same on a desk that stays.
LEMMA EndsQuietly ==
    ASSUME OpeningInv, job.kind # Nil, NEW code, NEW win \in Wins \cup {Nil}, Ends(code, win),
           UNCHANGED desk, LeftTyped, left.spoiled => left'.spoiled,
           left'.spoiled \/ job.step \in {"ready", "admit", "answer", "build"},
           job.kind = "open" =>
               /\ code \in Results \cup {"lost", "approval"}
               /\ code \in {"approval", "refused"} => ~job.attempted
               /\ code \in {"opened", "forwarded"} => New(win, job.base, job.before, code),
           job.kind = "present" => code \in {"ok", "unconfirmed", "not-ready", "approval", "incompatible"}
    PROVE  OpeningInv'
<1>1. DeskSound(desk)' BY DEF OpeningInv
<1>2. Grows(desk, desk') /\ Still(desk, desk') BY DEF Grows, Still
<1>3. ~left'.spoiled => desk'.late = <<>> /\ ~desk'.ticket.on
    BY DEF OpeningInv, TicketInv, StepInv, OpenSteps
<1>4. job.kind = "present" => Unshown(desk') BY DEF OpeningInv, FlowInv, ShowInv
<1> QED BY <1>1, <1>2, <1>3, <1>4, EndsKeeps

\* The worker goes on, and its first steps read and change nothing.
LEMMA WaitingKeeps ==
    ASSUME OpeningInv, UNCHANGED <<desk, opening, showing, creations, left>>,
           job.step \in {"ready", "admit", "build"}, NEW s, job' = [job EXCEPT !.step = s],
           \/ job.kind = "open" /\ s \in {"admit", "register"}
           \/ job.kind = "present" /\ s \in {"admit", "build", "show"}
    PROVE  OpeningInv'
<1>1. PICK j \in Job : j = job BY DEF OpeningInv, OpeningTypeOK
<1>2. job' = [j EXCEPT !.step = s] BY <1>1
<1>3. job' \in Job BY <1>2 DEF Job, OpenSteps, ShowSteps
<1>4. /\ job'.step = s /\ job'.kind = job.kind /\ job'.attempted = job.attempted
      /\ job'.tokens = job.tokens /\ job'.result = job.result
    BY <1>1, <1>2 DEF Job
<1>5. Nil # "refused" /\ Nil # "open" /\ Nil # "present" BY OpeningAssumption DEF Kinds, Results
<1>6. job.kind = "open" => ~job.attempted /\ job.step \in Early
    BY DEF OpeningInv, StepInv, Early, OpenSteps
<1>7. job.result # "refused" BY DEF OpeningInv, StepInv
<1>8. StepInv' BY <1>4, <1>5, <1>6, <1>7 DEF OpeningInv, StepInv, OpenSteps, ShowSteps, Placing, Early
<1>9. Before1' => Before1 BY <1>4, <1>6 DEF Before1
<1>10. FlowInv' BY <1>4 DEF OpeningInv, FlowInv, Waits
<1>11. LaunchedInv' /\ ShowInv' BY <1>9 DEF OpeningInv, LaunchedInv, ShowInv
<1>12. TicketInv' BY DEF OpeningInv, TicketInv, StepInv, OpenSteps
<1>13. PlaceInv' BY <1>4, <1>9 DEF OpeningInv, PlaceInv, Placing
<1>14. OpenedInv'
  <2>1. \A w, base, before, result : New(w, base, before, result) = New(w, base, before, result)'
      BY DEF New, Owned
  <2> QED BY <1>4, <2>1 DEF OpeningInv, OpenedInv
<1>15. OpeningTypeOK' /\ DeskSound(desk)' BY <1>3 DEF OpeningInv, OpeningTypeOK
<1> QED BY <1>8, <1>10, <1>11, <1>12, <1>13, <1>14, <1>15 DEF OpeningInv

\* Ready: still admitted, or refused before anything was asked of the desk.
LEMMA ReadyKeeps == OpeningInv /\ Ready => OpeningInv'
<1> SUFFICES ASSUME OpeningInv, Ready PROVE OpeningInv' OBVIOUS
<1>1. job.kind \in Kinds /\ job.step = "ready" /\ UNCHANGED desk /\ ~(job.kind = "open" /\ job.attempted)
    BY DEF Ready, OpeningInv, OpeningTypeOK, Job, StepInv, Early
<1>2. CASE Spends("refusals") /\ Ends(IF job.kind = "open" THEN "refused" ELSE "not-ready", Nil)
  <2>1. LeftTyped /\ (left.spoiled => left'.spoiled) BY <1>2, SpendsLeft DEF OpeningInv, Spending
  <2>2. PICK code : code = IF job.kind = "open" THEN "refused" ELSE "not-ready" OBVIOUS
  <2>3. Ends(code, Nil) BY <1>2, <2>2
  <2>4. job.kind # Nil BY <1>1, OpeningAssumption
  <2> QED BY <1>1, <2>1, <2>2, <2>3, <2>4, EndsQuietly DEF Results
<1>3. CASE job' = [job EXCEPT !.step = "admit"] /\ UNCHANGED <<opening, showing, creations, left>>
  BY <1>1, <1>3, WaitingKeeps DEF Kinds
<1> QED BY <1>2, <1>3 DEF Ready

\* Admits: let through, or an approval is missing and nothing is kept.
LEMMA AdmitsKeeps == OpeningInv /\ Admits => OpeningInv'
<1> SUFFICES ASSUME OpeningInv, Admits PROVE OpeningInv' OBVIOUS
<1>1. job.kind \in Kinds /\ job.step = "admit" /\ UNCHANGED desk /\ ~(job.kind = "open" /\ job.attempted)
    BY DEF Admits, OpeningInv, OpeningTypeOK, Job, StepInv, Early
<1>2. CASE Spends("refusals") /\ Ends("approval", Nil)
  <2>1. LeftTyped /\ (left.spoiled => left'.spoiled) BY <1>2, SpendsLeft DEF OpeningInv, Spending
  <2>2. job.kind # Nil BY <1>1, OpeningAssumption
  <2> QED BY <1>1, <1>2, <2>1, <2>2, EndsQuietly
<1>3. CASE /\ job' = [job EXCEPT !.step = IF job.kind = "open" THEN "register" ELSE "build"]
           /\ UNCHANGED <<opening, showing, creations, left>>
  <2>1. PICK s : s = IF job.kind = "open" THEN "register" ELSE "build" OBVIOUS
  <2>2. job' = [job EXCEPT !.step = s] BY <1>3, <2>1
  <2> QED BY <1>1, <1>3, <2>1, <2>2, WaitingKeeps DEF Kinds
<1> QED BY <1>2, <1>3 DEF Admits

\* Lost: the worker is gone, whatever it had done.
LEMMA LostKeeps == OpeningInv /\ Lost => OpeningInv'
<1> SUFFICES ASSUME OpeningInv, Lost PROVE OpeningInv' OBVIOUS
<1>1. LeftTyped /\ left'.spoiled BY SpendsLeft DEF OpeningInv, Lost, Spending
<1>2. PICK code : code = IF job.kind = "open" THEN "lost" ELSE "unconfirmed" OBVIOUS
<1>3. job.kind # Nil /\ job.kind \in Kinds /\ Ends(code, Nil) /\ UNCHANGED desk
    BY <1>2 DEF Lost, OpeningInv, OpeningTypeOK, Job
<1> QED BY <1>1, <1>2, <1>3, EndsQuietly

\* Answers: what the worker found is kept for the identity.
LEMMA AnswersKeeps == OpeningInv /\ Answers => OpeningInv'
<1> SUFFICES ASSUME OpeningInv, Answers PROVE OpeningInv' OBVIOUS
<1>1. job.step = "answer" /\ Ends(job.result, job.win) /\ UNCHANGED <<desk, left>> BY DEF Answers
<1>2. job.kind = "open" BY <1>1 DEF OpeningInv, OpeningTypeOK, Job, Kinds, StepInv, ShowSteps
<1>3. PICK code, win : code = job.result /\ win = job.win OBVIOUS
<1>4. job.kind # Nil BY <1>2, OpeningAssumption DEF Kinds
<1>5. win \in Wins \cup {Nil} /\ code \in Results BY <1>1, <1>3 DEF OpeningInv, OpeningTypeOK, Job, StepInv
<1>6. code = "refused" => ~job.attempted BY <1>3 DEF OpeningInv, StepInv
<1>7. code \in {"opened", "forwarded"} => New(win, job.base, job.before, code)
    BY <1>1, <1>2, <1>3 DEF OpeningInv, OpenedInv
<1>8. LeftTyped BY <1>1 DEF OpeningInv, OpeningTypeOK, LeftTyped
<1>9. Ends(code, win) BY <1>1, <1>3
<1>10. code # "approval" BY <1>5 DEF Results
<1> QED BY <1>1, <1>2, <1>4, <1>5, <1>6, <1>7, <1>8, <1>9, <1>10, EndsQuietly

\* Builds: the plugin's build is the one that is expected, or the request ends.
LEMMA BuildsKeeps == OpeningInv /\ Builds => OpeningInv'
<1> SUFFICES ASSUME OpeningInv, Builds PROVE OpeningInv' OBVIOUS
<1>1. job.step = "build" /\ UNCHANGED desk BY DEF Builds
<1>2. job.kind = "present"
    BY <1>1 DEF OpeningInv, OpeningTypeOK, Job, Kinds, StepInv, OpenSteps
<1>3. job.kind # Nil BY <1>2, OpeningAssumption DEF Kinds
<1>4. CASE Goes("show") /\ UNCHANGED <<opening, showing, creations, left>>
  BY <1>1, <1>2, <1>4, WaitingKeeps DEF Goes
<1>5. CASE Spends("refusals") /\ \E code \in {"incompatible", "unconfirmed"} : Ends(code, Nil)
  <2>1. LeftTyped /\ (left.spoiled => left'.spoiled) BY <1>5, SpendsLeft DEF OpeningInv, Spending
  <2>2. PICK code \in {"incompatible", "unconfirmed"} : Ends(code, Nil) BY <1>5
  <2> QED BY <1>1, <1>2, <1>3, <2>1, <2>2, EndsQuietly
<1> QED BY <1>4, <1>5 DEF Builds

-----------------------------------------------------------------------------
(* Exchanges of a worker with the compositor.                                *)

\* With nothing late there is nothing to serve.
LEMMA ServedNone ==
    ASSUME NEW d \in Desk, d.late = <<>>
    PROVE  Served(d) = d
<1>1. Len(d.late) = 0 BY DEF Desk
<1>2. PICK f : Serving(f, d, Len(d.late)) /\ Served(d) = f[Len(d.late)] BY <1>1, ServedBy
<1>3. Served(d) = [d EXCEPT !.late = <<>>] BY <1>1, <1>2 DEF Serving
<1> QED BY <1>3 DEF Desk

\* What a command makes of the token that is registered.
TicketAfter(d, c, e) ==
    /\ c.cmd \notin {"register", "forget"} \/ (c.cmd = "register" /\ Reply(d, c) # "ok") => e.ticket.on = d.ticket.on
    /\ c.cmd = "forget" => ~e.ticket.on
\* Only register and forget touch the token that is registered.
LEMMA AppliedTicket ==
    ASSUME NEW d \in Desk, NEW c \in Command
    PROVE  TicketAfter(d, c, Applied(d, c))
<1>1. PICK e : e = Applied(d, c) /\ AppliedTo(d, c, e) BY AppliedStep
<1>2. c.cmd = "register" /\ Reply(d, c) # "ok" => e = d BY <1>1 DEF Applied
<1> QED BY <1>1, <1>2 DEF AppliedTo, TicketAfter

\* A worker that only reads.
LEMMA ReadingPassive ==
    ASSUME OpeningInv, Looks \/ Misses \/ UNCHANGED <<desk, left>>
    PROVE  Passive(desk, desk') /\ LeftTyped /\ TicketQuiet
<1>1. DeskSound(desk) /\ desk \in Desk BY DEF OpeningInv, OpeningTypeOK
<1>2. Passive(desk, desk)
    BY <1>1 DEF Passive, Calm, Still, Grows
<1>3. CASE Looks
  <2>1. Passive(desk, desk') BY <1>1, <1>3, ServedSound DEF Looks
  <2>2. LeftTyped /\ UNCHANGED left BY <1>3 DEF Looks, OpeningInv, OpeningTypeOK, LeftTyped
  <2>3. ~left.spoiled => desk' = desk BY <1>1, <1>3, ServedNone DEF Looks, OpeningInv, TicketInv
  <2> QED BY <2>1, <2>2, <2>3 DEF TicketQuiet, OpeningInv, TicketInv
<1>4. CASE Misses
  <2>1. LeftTyped /\ left'.spoiled BY <1>4, SpendsLeft DEF Misses, OpeningInv, Spending
  <2> QED BY <1>2, <1>4, <2>1 DEF Misses, TicketQuiet
<1>5. CASE UNCHANGED <<desk, left>>
  <2>1. LeftTyped BY <1>5 DEF OpeningInv, OpeningTypeOK, LeftTyped
  <2> QED BY <1>2, <1>5, <2>1 DEF TicketQuiet, OpeningInv, TicketInv
<1> QED BY <1>3, <1>4, <1>5

\* One that asks for a change.
LEMMA AskingSound ==
    ASSUME OpeningInv, NEW c, MayAsk(desk, c), Answered(c) \/ GivenUp(c)
    PROVE  /\ AskedFor(desk, c, desk') /\ LeftTyped
           /\ ~left'.spoiled => desk'.late = <<>> /\ Answered(c) /\ TicketAfter(desk, c, desk')
           /\ ~left'.spoiled => Reply(desk, c) = AnswerTo(c)
<1>1. DeskSound(desk) /\ desk \in Desk /\ c \in Command BY DEF OpeningInv, OpeningTypeOK, MayAsk
<1>2. CASE Answered(c)
  <2>1. AskedFor(desk, c, desk') /\ desk'.late = <<>> BY <1>1, <1>2, AnsweredSound DEF Answered
  <2>2. LeftTyped /\ UNCHANGED left BY <1>2 DEF Answered, OpeningInv, OpeningTypeOK, LeftTyped
  <2>3. ~left'.spoiled => Served(desk) = desk BY <1>1, <2>2, ServedNone DEF OpeningInv, TicketInv
  <2>4. ~left'.spoiled => TicketAfter(desk, c, desk') BY <1>1, <1>2, <2>3, AppliedTicket DEF Answered
  <2> QED BY <1>2, <2>1, <2>2, <2>3, <2>4 DEF AnswerTo
<1>3. CASE GivenUp(c)
  <2>1. LeftTyped /\ left'.spoiled BY <1>3, SpendsLeft DEF GivenUp, OpeningInv, Spending
  <2>2. AskedFor(desk, c, desk') BY <1>1, <1>3, GivenUpSound DEF GivenUp
  <2> QED BY <2>1, <2>2
<1> QED BY <1>2, <1>3

\* Shows: the workspace is presented, or the answer does not come.
LEMMA ShowsKeeps == OpeningInv /\ Shows => OpeningInv'
<1> SUFFICES ASSUME OpeningInv, Shows PROVE OpeningInv' OBVIOUS
<1>1. PICK c : c = [cmd |-> "present", sel |-> showing.sel] OBVIOUS
<1>2. job.kind = "present"
    BY DEF Shows, OpeningInv, OpeningTypeOK, Job, Kinds, StepInv, OpenSteps
<1>3. job.kind # Nil /\ job.kind # "open" BY <1>2, OpeningAssumption DEF Kinds
<1>4. showing.run = "running" /\ showing.sel \in Selections BY <1>2 DEF OpeningInv, FlowInv
<1>5. Unshown(desk) BY <1>4 DEF OpeningInv, ShowInv
<1>6. c \in Command /\ c.cmd = "present" BY <1>1, <1>4 DEF Command
<1>7. MayAsk(desk, c) BY <1>5, <1>6 DEF MayAsk, Launching
<1>8. PICK code : /\ Ends(code, Nil) /\ code \in {"ok", "unconfirmed", "not-ready"}
                  /\ \/ Answered(c) /\ (code = "not-ready" => AnswerTo(c) = "not-ready")
                     \/ GivenUp(c) /\ code = "unconfirmed"
    BY <1>1 DEF Shows
<1>9. AskedFor(desk, c, desk') /\ LeftTyped BY <1>7, <1>8, AskingSound
<1>10. ~left'.spoiled => desk'.late = <<>> /\ TicketAfter(desk, c, desk') BY <1>7, <1>8, AskingSound
<1>11. ~left'.spoiled => ~left.spoiled
  <2>1. CASE Answered(c) BY <2>1 DEF Answered
  <2>2. CASE GivenUp(c) BY <2>2, SpendsLeft DEF GivenUp, OpeningInv, Spending
  <2> QED BY <1>8, <2>1, <2>2
<1>12. ~left'.spoiled => ~desk'.ticket.on
    BY <1>3, <1>6, <1>10, <1>11 DEF OpeningInv, TicketInv, TicketAfter
<1>13. code = "not-ready" => Unshown(desk')
  <2> SUFFICES ASSUME code = "not-ready" PROVE Unshown(desk') OBVIOUS
  <2>1. desk' = Served(desk) BY <1>8 DEF Answered, AnswerTo, Applied
  <2> QED BY <1>5, <2>1, ServedSound DEF OpeningInv, Passive, Calm
<1>14. /\ DeskSound(desk)' /\ Grows(desk, desk') /\ Still(desk, desk')
       /\ Unlaunched(desk) => Unlaunched(desk')
    BY <1>6, <1>9 DEF AskedFor, Launching
<1> QED BY <1>2, <1>3, <1>8, <1>9, <1>10, <1>12, <1>13, <1>14, EndsKeeps

-----------------------------------------------------------------------------
(* Steps of the worker of an opening.                                        *)

\* What has to be seen of a step of it.
LEMMA OpenStep ==
    ASSUME OpeningInv, job.kind = "open", UNCHANGED <<opening, showing, creations>>, LeftTyped,
           DeskSound(desk)', Grows(desk, desk'), Unshown(desk) => Unshown(desk'),
           NEW j \in Job, job' = j, j.kind = "open", StepInv', TicketInv', PlaceInv',
           Before1' => Unlaunched(desk'),
           j.step \in {"settle", "forget", "answer"} /\ j.result \in {"opened", "forwarded"} =>
               New(j.win, j.base, j.before, j.result)',
           j.step = "settle" => j.result \in {"opened", "forwarded"}
    PROVE  OpeningInv'
<1>1. opening.code = "running" BY DEF OpeningInv, FlowInv
<1>2. FlowInv' BY DEF OpeningInv, FlowInv, Waits
<1>3. LaunchedInv' BY <1>1 DEF LaunchedInv
<1>4. ShowInv' BY DEF OpeningInv, ShowInv
<1>5. OpenedInv' BY <1>1 DEF OpenedInv, New
<1>6. OpeningTypeOK' BY DEF OpeningInv, OpeningTypeOK, LeftTyped, DeskSound
<1> QED BY <1>2, <1>3, <1>4, <1>5, <1>6 DEF OpeningInv

\* A step that only reads.
Reads == /\ job.kind = "open" /\ job.step \notin {"ready", "admit", "register", "answer"}
         /\ Looks \/ Misses \/ UNCHANGED <<desk, left>>
         /\ UNCHANGED <<opening, showing, creations>>

\* What it may make of the worker.
MayGo(j) ==
    /\ j \in Job /\ j.kind = "open" /\ j.attempted = job.attempted /\ j.ticket = job.ticket
    /\ j.step \in OpenSteps \ {"ready", "admit", "register"}
    /\ j.step \in Early => ~job.attempted
    /\ j.step \in Placing \cup {"guard2", "exec"} => job.attempted
    /\ j.step \in {"guard2", "exec"} => job.step \in {"guard2", "exec"}
    /\ j.result = "refused" => ~job.attempted /\ j.step \in {"forget", "answer"}
    /\ j.step \in {"forget", "answer"} => j.result # Nil
    /\ j.step = "answer" => ~job.ticket
    /\ j.step \in Placing => job.step \in Placing /\ j.placed = job.placed
    /\ j.step = "settle" => j.result \in {"opened", "forwarded"}

\* A step that only reads keeps the invariant when the worker goes on as it may.
LEMMA ReadsKeeps ==
    ASSUME OpeningInv, Reads, NEW j, job' = j, MayGo(j),
           j.step \in {"destination", "place"} =>
               j.win # OldWin /\ Owned(desk', j.win) /\ j.win \notin job.placed,
           \A w \in j.tokens : desk'.wins[w].token,
           j.step \in Placing \cup {"guard", "eval", "guard2", "exec"} =>
               OldWin \in j.base \/ desk'.wins[OldWin].proc = Nil,
           j.step \in {"settle", "forget", "answer"} /\ j.result \in {"opened", "forwarded"} =>
               New(j.win, j.base, j.before, j.result)'
    PROVE  OpeningInv'
<1>1. Passive(desk, desk') /\ LeftTyped /\ TicketQuiet BY ReadingPassive DEF Reads
<1>2. DeskSound(desk)' /\ Grows(desk, desk') /\ (Unshown(desk) => Unshown(desk')) BY <1>1 DEF Passive, Calm
<1>3. Nil # "open" /\ "present" # "open" BY OpeningAssumption DEF Kinds
<1>4. StepInv' BY <1>3 DEF StepInv, MayGo
<1>5. TicketInv' BY <1>1 DEF TicketQuiet, OpeningInv, TicketInv, MayGo
<1>6. opening.code = "running" /\ opening.code # Nil BY OpeningAssumption DEF Reads, OpeningInv, FlowInv
<1>7. Before1' => Before1 BY <1>6 DEF Before1, MayGo, Reads
<1>8. Before1' => Unlaunched(desk') BY <1>1, <1>7 DEF OpeningInv, LaunchedInv, Passive, Calm
<1>9. PlaceInv'
  <2>1. Before1' => Unplaced(desk') /\ \A w \in Wins : desk'.wins[w].moved = 0
      BY <1>1, <1>7 DEF OpeningInv, PlaceInv, Passive, Still
  <2>2. j.step \in Placing =>
            Unplaced(desk') /\ \A w \in Wins : desk'.wins[w].moved # 0 => w \in j.placed
      BY <1>1 DEF Reads, MayGo, OpeningInv, PlaceInv, Passive, Still
  <2>3. j.step \in {"destination", "place"} => j.step \in Placing BY DEF Placing
  <2> QED BY <2>1, <2>2, <2>3 DEF PlaceInv, MayGo
<1> QED BY <1>1, <1>2, <1>4, <1>5, <1>8, <1>9, OpenStep DEF Reads, MayGo

\* What the worker has sampled stays true.
LEMMA SampledStays ==
    ASSUME OpeningInv, Reads
    PROVE  /\ Grows(desk, desk')
           /\ \A w \in job.tokens : desk'.wins[w].token
           /\ job.step \in Placing \cup {"guard", "eval", "guard2", "exec"} =>
                 OldWin \in job.base \/ desk'.wins[OldWin].proc = Nil
           /\ job.step \in {"destination", "place"} =>
                 job.win # OldWin /\ Owned(desk', job.win) /\ job.win \notin job.placed
<1>1. Grows(desk, desk') BY ReadingPassive DEF Reads, Passive, Calm
<1>2. \A w \in job.tokens : desk'.wins[w].token
    BY <1>1 DEF OpeningInv, PlaceInv, OpeningTypeOK, Job, Grows
<1>3. desk.wins[OldWin].proc = Nil => desk'.wins[OldWin].proc = Nil
    BY <1>1, OpeningAssumption DEF OpeningInv, DeskSound, WindowsSound, Grows
<1>4. job.step \in {"destination", "place"} =>
          job.win # OldWin /\ Owned(desk', job.win) /\ job.win \notin job.placed
    BY <1>1, OwnedStays DEF OpeningInv, PlaceInv, Reads, Placing
<1> QED BY <1>1, <1>2, <1>3, <1>4 DEF OpeningInv, PlaceInv, Reads

\* It leaves, with a result.
LEMMA LeavesKeeps ==
    ASSUME OpeningInv, Reads, NEW r \in Results, NEW w \in Wins \cup {Nil}, Leaves(r, w),
           r = "refused" => ~job.attempted,
           r \in {"opened", "forwarded"} => New(w, job.base, job.before, r)
    PROVE  OpeningInv'
<1>1. PICK g \in Job : g = job BY DEF OpeningInv, OpeningTypeOK
<1>2. PICK s \in {"forget", "answer"} : s = IF g.ticket THEN "forget" ELSE "answer" OBVIOUS
<1>3. PICK j : j = [g EXCEPT !.step = s, !.result = r, !.win = w] OBVIOUS
<1>4. job' = j BY <1>1, <1>2, <1>3 DEF Leaves
<1>5. j \in Job BY <1>3 DEF Job, OpenSteps
<1>6. /\ j.step = s /\ j.result = r /\ j.win = w /\ j.kind = "open" /\ j.attempted = job.attempted
      /\ j.ticket = job.ticket /\ j.tokens = job.tokens /\ j.base = job.base /\ j.before = job.before
    BY <1>1, <1>3 DEF Job, Reads
<1>7. r # Nil BY OpeningAssumption
<1>8. MayGo(j) BY <1>1, <1>2, <1>5, <1>6, <1>7 DEF MayGo, OpenSteps, Early, Placing
<1>9. \A x \in j.tokens : desk'.wins[x].token BY <1>6, SampledStays
<1>10. Grows(desk, desk') BY SampledStays
<1>11. j.result \in {"opened", "forwarded"} => New(j.win, j.base, j.before, j.result)'
  <2> SUFFICES ASSUME r \in {"opened", "forwarded"} PROVE New(w, j.base, j.before, r)' BY <1>6
  <2>1. New(w, j.base, j.before, r) BY <1>6
  <2> QED BY <1>10, <2>1, OwnedStays DEF New, Grows, Owned
<1> QED BY <1>2, <1>4, <1>6, <1>8, <1>9, <1>11, ReadsKeeps DEF Placing

\* It leaves with an error, which says what was attempted.
LEMMA FailsKeeps ==
    ASSUME OpeningInv, Reads, Fails
    PROVE  OpeningInv'
<1>1. PICK r \in Results : r = Trouble(job) /\ (r = "refused" => ~job.attempted) /\ r \notin {"opened", "forwarded"}
    BY DEF Results, Trouble
<1>2. Leaves(r, Nil) BY <1>1 DEF Fails
<1> QED BY <1>1, <1>2, LeavesKeeps

\* It goes on to its next step.
LEMMA GoesKeeps ==
    ASSUME OpeningInv, Reads, NEW s, Goes(s),
           \/ job.step = "guard" /\ s = "eval"
           \/ job.step = "guard2" /\ s = "exec"
           \/ job.step \in Placing /\ s = "watch"
           \/ job.step = "destination" /\ s = "place"
    PROVE  OpeningInv'
<1>1. PICK g \in Job : g = job BY DEF OpeningInv, OpeningTypeOK
<1>2. PICK j : j = [g EXCEPT !.step = s] OBVIOUS
<1>3. job' = j BY <1>1, <1>2 DEF Goes
<1>4. j \in Job BY <1>2 DEF Job, OpenSteps
<1>5. /\ j.step = s /\ j.result = job.result /\ j.win = job.win /\ j.kind = "open" /\ j.attempted = job.attempted
      /\ j.ticket = job.ticket /\ j.tokens = job.tokens /\ j.base = job.base /\ j.before = job.before
      /\ j.placed = job.placed
    BY <1>1, <1>2 DEF Job, Reads
<1>6. job.result # "refused" /\ (job.step \in Early => ~job.attempted)
      /\ (job.step \in Placing \cup {"guard2", "exec"} => job.attempted)
    BY DEF Reads, OpeningInv, StepInv, Placing
<1>7. MayGo(j) BY <1>4, <1>5, <1>6 DEF MayGo, OpenSteps, Early, Placing
<1>8. job.step \in Placing \cup {"guard", "eval", "guard2", "exec"} BY DEF Placing
<1>9. job.step = "destination" \/ s # "place" OBVIOUS
<1> QED BY <1>3, <1>5, <1>7, <1>8, <1>9, SampledStays, ReadsKeeps

\* Guards: the workspace is free, or the worker leaves.
LEMMA GuardsKeeps == OpeningInv /\ Guards => OpeningInv'
<1> SUFFICES ASSUME OpeningInv, Guards PROVE OpeningInv' OBVIOUS
<1>1. Reads /\ job.step \in {"guard", "guard2"} BY DEF Guards, At, Reads
<1>2. CASE Fails BY <1>1, <1>2, FailsKeeps
<1>3. CASE Goes(IF job.step = "guard" THEN "eval" ELSE "exec")
  <2>1. PICK s : s = IF job.step = "guard" THEN "eval" ELSE "exec" OBVIOUS
  <2> QED BY <1>1, <1>3, <2>1, GoesKeeps
<1> QED BY <1>2, <1>3 DEF Guards

\* Settles: what was found is reported, or looked at again.
LEMMA SettlesKeeps == OpeningInv /\ Settles => OpeningInv'
<1> SUFFICES ASSUME OpeningInv, Settles PROVE OpeningInv' OBVIOUS
<1>1. Reads /\ job.step = "settle" BY DEF Settles, At, Reads
<1>2. CASE Fails BY <1>1, <1>2, FailsKeeps
<1>3. CASE Goes("watch") BY <1>1, <1>3, GoesKeeps DEF Placing
<1>4. CASE Leaves(job.result, job.win)
  <2>1. PICK r, w : r = job.result /\ w = job.win OBVIOUS
  <2>2. r \in {"opened", "forwarded"} /\ New(w, job.base, job.before, r)
      BY <1>1, <2>1 DEF Reads, OpeningInv, OpenedInv
  <2>3. r \in Results /\ w \in Wins \cup {Nil}
      BY <2>1, <2>2 DEF Results, OpeningInv, OpeningTypeOK, Job
  <2> QED BY <1>1, <1>4, <2>1, <2>2, <2>3, LeavesKeeps
<1> QED BY <1>2, <1>3, <1>4 DEF Settles

\* Destination: the workspace is still free for the window.
LEMMA DestinationKeeps == OpeningInv /\ Destination => OpeningInv'
<1> SUFFICES ASSUME OpeningInv, Destination PROVE OpeningInv' OBVIOUS
<1>1. Reads /\ job.step = "destination" BY DEF Destination, At, Reads
<1>2. CASE Fails BY <1>1, <1>2, FailsKeeps
<1>3. CASE Goes("place") BY <1>1, <1>3, GoesKeeps
<1>4. CASE Leaves("candidate", job.win)
  <2>1. PICK w \in Wins \cup {Nil} : w = job.win BY DEF OpeningInv, OpeningTypeOK, Job
  <2> QED BY <1>1, <1>4, <2>1, LeavesKeeps DEF Results
<1> QED BY <1>2, <1>3, <1>4 DEF Destination

\* Inspects: the windows and processes that are there before.
LEMMA InspectsKeeps == OpeningInv /\ Inspects => OpeningInv'
<1> SUFFICES ASSUME OpeningInv, Inspects PROVE OpeningInv' OBVIOUS
<1>1. Reads /\ job.step = "inspect" BY DEF Inspects, At, Reads
<1>2. CASE Fails BY <1>1, <1>2, FailsKeeps
<1>3. CASE /\ Looks
           /\ job' = [job EXCEPT !.step = "guard", !.base = Mapped(Served(desk)), !.before = Before(Served(desk))]
  <2>1. PICK g \in Job : g = job BY DEF OpeningInv, OpeningTypeOK
  <2>2. PICK e : e = Served(desk) /\ desk' = e BY <1>3 DEF Looks
  <2>3. e \in Desk BY <2>2, ServedSound DEF OpeningInv, Passive, Calm, DeskSound
  <2>4. PICK b \in SUBSET Wins : b = Mapped(e) BY DEF Mapped
  <2>5. PICK f \in SUBSET Procs : f = Before(e)
    <3>1. \A w \in Wins : e.wins[w].proc \in Procs \cup {Nil} BY <2>3 DEF Desk, Window
    <3>2. \A p \in Before(e) : p \in Procs BY <3>1 DEF Before, Mapped, Procs
    <3> QED BY <3>2
  <2>6. PICK j : j = [g EXCEPT !.step = "guard", !.base = b, !.before = f] OBVIOUS
  <2>7. job' = j BY <1>3, <2>1, <2>2, <2>4, <2>5, <2>6
  <2>8. j \in Job BY <2>6 DEF Job, OpenSteps
  <2>9. /\ j.step = "guard" /\ j.result = job.result /\ j.win = job.win /\ j.kind = "open"
        /\ j.attempted = job.attempted /\ j.ticket = job.ticket /\ j.tokens = job.tokens /\ j.base = b
      BY <1>1, <2>1, <2>6 DEF Job, Reads
  <2>10. job.result # "refused" /\ ~job.attempted
      BY <1>1 DEF Reads, OpeningInv, StepInv, Early
  <2>11. MayGo(j) BY <2>8, <2>9, <2>10 DEF MayGo, OpenSteps, Early, Placing
  <2>12. OldWin \in b \/ desk'.wins[OldWin].proc = Nil BY <2>2, <2>4, OpeningAssumption DEF Mapped
  <2> QED BY <1>1, <2>7, <2>9, <2>11, <2>12, SampledStays, ReadsKeeps
<1> QED BY <1>2, <1>3 DEF Inspects

\* Watches: a new round with the window that has the focus.
LEMMA WatchesKeeps == OpeningInv /\ Watches => OpeningInv'
<1> SUFFICES ASSUME OpeningInv, Watches PROVE OpeningInv' OBVIOUS
<1>1. Reads /\ job.step = "watch" BY DEF Watches, At, Reads
<1>2. CASE Fails BY <1>1, <1>2, FailsKeeps
<1>3. CASE job' = [job EXCEPT !.step = "tokens", !.focus = Served(desk).focus]
  <2>1. PICK g \in Job : g = job BY DEF OpeningInv, OpeningTypeOK
  <2>2. PICK f \in Wins \cup {Nil} : f = Served(desk).focus
      BY ServedSound DEF OpeningInv, Passive, Calm, DeskSound, Desk
  <2>3. PICK j : j = [g EXCEPT !.step = "tokens", !.focus = f] OBVIOUS
  <2>4. job' = j BY <1>3, <2>1, <2>2, <2>3
  <2>5. j \in Job BY <2>3 DEF Job, OpenSteps
  <2>6. /\ j.step = "tokens" /\ j.result = job.result /\ j.win = job.win /\ j.kind = "open"
        /\ j.attempted = job.attempted /\ j.ticket = job.ticket /\ j.tokens = job.tokens /\ j.base = job.base
        /\ j.placed = job.placed
      BY <1>1, <2>1, <2>3 DEF Job, Reads
  <2>7. job.result # "refused" /\ job.attempted /\ job.step \in Placing
      BY <1>1 DEF Reads, OpeningInv, StepInv, Placing
  <2>8. MayGo(j) BY <2>5, <2>6, <2>7 DEF MayGo, OpenSteps, Early, Placing
  <2> QED BY <1>1, <2>4, <2>6, <2>7, <2>8, SampledStays, ReadsKeeps
<1> QED BY <1>2, <1>3 DEF Watches

\* Tokens: the windows that show the token.
LEMMA TokensKeeps == OpeningInv /\ Tokens => OpeningInv'
<1> SUFFICES ASSUME OpeningInv, Tokens PROVE OpeningInv' OBVIOUS
<1>1. Reads /\ job.step = "tokens" BY DEF Tokens, At, Reads
<1>2. CASE Fails BY <1>1, <1>2, FailsKeeps
<1>3. CASE Goes("watch") BY <1>1, <1>3, GoesKeeps DEF Placing
<1>4. CASE /\ Looks
           /\ job' = [job EXCEPT !.step = "clients",
                                 !.tokens = IF job.ticket THEN {Served(desk).ticket.win} \cap Mapped(Served(desk)) ELSE {}]
  <2>1. PICK g \in Job : g = job BY DEF OpeningInv, OpeningTypeOK
  <2>2. PICK e : e = Served(desk) /\ desk' = e BY <1>4 DEF Looks
  <2>3. DeskSound(e) BY <2>2, ServedSound DEF OpeningInv, Passive, Calm
  <2>4. PICK t \in SUBSET Wins : t = IF g.ticket THEN {e.ticket.win} \cap Mapped(e) ELSE {} BY DEF Mapped
  <2>5. PICK j : j = [g EXCEPT !.step = "clients", !.tokens = t] OBVIOUS
  <2>6. job' = j BY <1>4, <2>1, <2>2, <2>4, <2>5
  <2>7. j \in Job BY <2>5 DEF Job, OpenSteps
  <2>8. /\ j.step = "clients" /\ j.result = job.result /\ j.win = job.win /\ j.kind = "open"
        /\ j.attempted = job.attempted /\ j.ticket = job.ticket /\ j.tokens = t /\ j.base = job.base
        /\ j.placed = job.placed
      BY <1>1, <2>1, <2>5 DEF Job, Reads
  <2>9. job.result # "refused" /\ job.attempted /\ job.step \in Placing
      BY <1>1 DEF Reads, OpeningInv, StepInv, Placing
  <2>10. MayGo(j) BY <2>7, <2>8, <2>9 DEF MayGo, OpenSteps, Early, Placing
  <2>11. \A w \in t : e.wins[w].token
      BY <2>3, <2>4, OpeningAssumption DEF DeskSound, WindowsSound, Mapped
  <2> QED BY <1>1, <2>2, <2>6, <2>8, <2>9, <2>10, <2>11, SampledStays, ReadsKeeps
<1> QED BY <1>2, <1>3, <1>4 DEF Tokens

\* What a proof says of its window, beside a client of the bus.
LEMMA ProofSays ==
    ASSUME NEW d, NEW w, Proof(d, w) # "none", Proof(d, w) # "registered-dbus-client"
    PROVE  d.wins[w].proc \in Launched \/ w \in job.tokens
  BY DEF Proof

\* Judges: the one window that was found, with its proof.
LEMMA JudgesKeeps ==
    ASSUME OpeningInv, Reads, job.step = "clients", Looks, NEW d, d = Served(desk),
           NEW w, w \in Mapped(d) \ job.base, Proof(d, w) # "none", Judges(d, w)
    PROVE  OpeningInv'
<1>1. w \in Wins /\ d.wins[w].proc # Nil BY DEF Mapped
<1>2. DeskSound(d) /\ desk' = d BY ServedSound DEF OpeningInv, Passive, Calm, Looks
<1>3. PICK g \in Job : g = job BY DEF OpeningInv, OpeningTypeOK
<1>4. CASE Goes("watch") BY <1>4, GoesKeeps DEF Placing
<1>5. CASE Leaves("candidate", w) BY <1>1, <1>5, LeavesKeeps DEF Results
<1>6. CASE Fails BY <1>6, FailsKeeps
<1>7. ASSUME Proof(d, w) # "registered-dbus-client"
      PROVE  w # OldWin /\ Owned(d, w)
  <2>1. w # OldWin
    <3>1. OldWin \in job.base \/ desk'.wins[OldWin].proc = Nil BY SampledStays DEF Placing
    <3> QED BY <1>1, <1>2, <3>1
  <2>2. d.wins[w].seen BY <1>1, <1>2 DEF DeskSound, WindowsSound
  <2>3. w \in job.tokens => d.wins[w].token BY <1>2, SampledStays
  <2> QED BY <1>1, <1>7, <2>1, <2>2, <2>3, ProofSays DEF Owned
<1>8. job.result # "refused" /\ job.attempted /\ job.step \in Placing
    BY DEF Reads, OpeningInv, StepInv, Placing
<1>9. CASE /\ Proof(d, w) # "registered-dbus-client" /\ w \notin job.placed
           /\ job' = [job EXCEPT !.step = "destination", !.win = w]
  <2>1. PICK j : j = [g EXCEPT !.step = "destination", !.win = w] OBVIOUS
  <2>2. job' = j BY <1>3, <1>9, <2>1
  <2>3. j \in Job BY <1>1, <2>1 DEF Job, OpenSteps
  <2>4. /\ j.step = "destination" /\ j.result = job.result /\ j.win = w /\ j.kind = "open"
        /\ j.attempted = job.attempted /\ j.ticket = job.ticket /\ j.tokens = job.tokens /\ j.base = job.base
        /\ j.placed = job.placed
      BY <1>3, <2>1 DEF Job, Reads
  <2>5. MayGo(j) BY <1>8, <2>3, <2>4 DEF MayGo, OpenSteps, Early, Placing
  <2> QED BY <1>2, <1>7, <1>8, <1>9, <2>2, <2>4, <2>5, SampledStays, ReadsKeeps
<1>10. CASE /\ Proof(d, w) # "registered-dbus-client"
            /\ job' = [job EXCEPT !.step = "settle", !.win = w,
                                  !.result = IF Forwarded(d, w) THEN "forwarded" ELSE "opened"]
  <2>1. PICK r \in {"opened", "forwarded"} : r = IF Forwarded(d, w) THEN "forwarded" ELSE "opened" OBVIOUS
  <2>2. PICK j : j = [g EXCEPT !.step = "settle", !.win = w, !.result = r] OBVIOUS
  <2>3. job' = j BY <1>3, <1>10, <2>1, <2>2
  <2>4. j \in Job BY <1>1, <2>2 DEF Job, OpenSteps, Results
  <2>5. /\ j.step = "settle" /\ j.result = r /\ j.win = w /\ j.kind = "open"
        /\ j.attempted = job.attempted /\ j.ticket = job.ticket /\ j.tokens = job.tokens /\ j.base = job.base
        /\ j.before = job.before /\ j.placed = job.placed
      BY <1>3, <2>2 DEF Job, Reads
  <2>6. MayGo(j) BY <1>8, <2>4, <2>5 DEF MayGo, OpenSteps, Early, Placing
  <2>7. New(j.win, j.base, j.before, j.result)'
    <3>1. Owned(d, w) BY <1>7, <1>10
    <3>2. r = "forwarded" => d.wins[w].token /\ job.before # {}
      <4> SUFFICES ASSUME r = "forwarded" PROVE d.wins[w].token /\ job.before # {} OBVIOUS
      <4>1. w \in job.tokens /\ d.wins[w].proc \in job.before BY <2>1 DEF Forwarded
      <4> QED BY <1>2, <4>1, SampledStays
    <3> QED BY <1>2, <2>5, <3>1, <3>2 DEF New, Owned
  <2> QED BY <1>8, <2>3, <2>5, <2>6, <2>7, SampledStays, ReadsKeeps
<1> QED BY <1>4, <1>5, <1>6, <1>9, <1>10 DEF Judges

\* Clients: none, one or several windows are found.
LEMMA ClientsKeeps == OpeningInv /\ Clients => OpeningInv'
<1> SUFFICES ASSUME OpeningInv, Clients PROVE OpeningInv' OBVIOUS
<1>1. Reads /\ job.step = "clients" BY DEF Clients, At, Reads
<1>2. PICK d : d = Served(desk) OBVIOUS
<1>3. CASE Fails BY <1>1, <1>3, FailsKeeps
<1>4. CASE Goes("watch") BY <1>1, <1>4, GoesKeeps DEF Placing
<1>5. CASE Leaves("uncertain", Nil) BY <1>1, <1>5, LeavesKeeps DEF Results
<1>6. CASE \E w \in job.tokens \cap job.base \cap Mapped(d) : Leaves("candidate", w)
  <2>1. PICK w \in Wins : Leaves("candidate", w) BY <1>6 DEF Mapped
  <2> QED BY <1>1, <2>1, LeavesKeeps DEF Results
<1>7. CASE Looks /\ \E w \in {v \in Mapped(d) \ job.base : Proof(d, v) # "none"} : Judges(d, w)
  BY <1>1, <1>2, <1>7, JudgesKeeps
<1> QED BY <1>2, <1>3, <1>4, <1>5, <1>6, <1>7 DEF Clients

\* A step that asks for a change.
LEMMA AsksKeeps ==
    ASSUME OpeningInv, job.kind = "open", UNCHANGED <<opening, showing, creations>>,
           NEW c, MayAsk(desk, c), c.cmd # "present", Answered(c) \/ GivenUp(c),
           NEW j \in Job, job' = j, j.kind = "open", StepInv',
           ~left'.spoiled /\ desk'.ticket.on => j.ticket /\ j.step \notin {"ready", "admit", "register", "answer"},
           Before1' => Before1 /\ Unlaunched(desk') /\ c.cmd # "place",
           j.step \in Placing =>
               /\ Unplaced(desk') /\ \A w \in Wins : desk'.wins[w].moved # 0 => w \in j.placed
               /\ job.step \in Placing \cup {"eval", "exec"},
           j.step \notin {"destination", "place", "settle", "guard", "eval", "exec"},
           j.step = "guard2" => job.step = "eval" \/ job.step = "exec",
           j.tokens = job.tokens, j.base = job.base, j.before = job.before,
           j.step \in {"forget", "answer"} /\ j.result \in {"opened", "forwarded"} =>
               New(j.win, job.base, job.before, j.result)
    PROVE  OpeningInv'
<1>1. AskedFor(desk, c, desk') /\ LeftTyped BY AskingSound
<1>2. DeskSound(desk)' /\ Grows(desk, desk') /\ (Unshown(desk) => Unshown(desk')) BY <1>1 DEF AskedFor
<1>3. ~left'.spoiled => desk'.late = <<>> BY AskingSound
<1>4. TicketInv' BY <1>3 DEF TicketInv
<1>5. \A w \in j.tokens : desk'.wins[w].token
    BY <1>2 DEF OpeningInv, PlaceInv, OpeningTypeOK, Job, Grows
<1>6. desk.wins[OldWin].proc = Nil => desk'.wins[OldWin].proc = Nil
    BY <1>2, OpeningAssumption DEF OpeningInv, DeskSound, WindowsSound, Grows
<1>7. Before1' => Unplaced(desk') /\ \A w \in Wins : desk'.wins[w].moved = 0
    BY <1>1 DEF OpeningInv, PlaceInv, AskedFor, Still
<1>8. PlaceInv' BY <1>5, <1>6, <1>7 DEF OpeningInv, PlaceInv
<1>9. j.step \in {"settle", "forget", "answer"} /\ j.result \in {"opened", "forwarded"} =>
          New(j.win, j.base, j.before, j.result)'
    BY <1>2, OwnedStays DEF New, Grows, Owned
<1> QED BY <1>1, <1>2, <1>4, <1>8, <1>9, OpenStep

\* Registers: the token is registered, unknown or refused.
LEMMA RegistersKeeps == OpeningInv /\ Registers => OpeningInv'
<1> SUFFICES ASSUME OpeningInv, Registers PROVE OpeningInv' OBVIOUS
<1>1. job.kind = "open" /\ job.step = "register" /\ UNCHANGED <<opening, showing, creations>>
    BY DEF Registers, At
<1>2. PICK c : c = [cmd |-> "register"] OBVIOUS
<1>3. c \in Command /\ c.cmd = "register" BY <1>2 DEF Command
<1>4. MayAsk(desk, c) BY <1>3 DEF MayAsk, Launching
<1>5. PICK g \in Job : g = job BY DEF OpeningInv, OpeningTypeOK
<1>6. ~job.attempted /\ job.result # "refused" /\ ~(~left.spoiled /\ desk.ticket.on)
    BY <1>1 DEF OpeningInv, StepInv, Early, TicketInv
<1>7. PICK j : /\ job' = j
               /\ \/ j = [g EXCEPT !.step = "inspect", !.ticket = TRUE]
                  \/ j = [g EXCEPT !.step = "inspect"] /\ (Answered(c) => AnswerTo(c) # "ok")
                  \/ j = [g EXCEPT !.step = "answer", !.result = "refused"] /\ (Answered(c) => AnswerTo(c) # "ok")
               /\ Answered(c) \/ GivenUp(c)
  <2>1. CASE Answered(c) /\ AnswerTo(c) = "ok" /\ job' = [g EXCEPT !.step = "inspect", !.ticket = TRUE]
      BY <2>1
  <2>2. CASE Answered(c) /\ AnswerTo(c) # "ok" /\ job' = [g EXCEPT !.step = "inspect"] BY <2>2
  <2>3. CASE Answered(c) /\ AnswerTo(c) # "ok" /\ job' = [g EXCEPT !.step = "answer", !.result = "refused"]
      BY <2>3
  <2>4. CASE GivenUp(c) /\ ~Answered(c) /\ job' = [g EXCEPT !.step = "answer", !.result = "refused"] BY <2>4
  <2>5. CASE GivenUp(c) /\ Answered(c)
    <3>1. Served(desk).late = <<>> BY ServedSound DEF OpeningInv
    <3>2. desk'.late = <<>> BY <2>5, AnsweredSound, <1>4 DEF Answered, OpeningInv
    <3>3. desk'.late = Append(desk.late, c) BY <2>5 DEF GivenUp, OpeningInv, OpeningTypeOK, Desk
    <3>4. desk.late \in Seq(Command) BY DEF OpeningInv, OpeningTypeOK, Desk
    <3>5. Append(desk.late, c) # <<>> BY <3>4, <1>3
    <3> QED BY <3>2, <3>3, <3>5
  <2> QED BY <1>2, <1>5, <2>1, <2>2, <2>3, <2>4, <2>5 DEF Registers
<1>8. j \in Job
  <2>1. CASE j = [g EXCEPT !.step = "inspect", !.ticket = TRUE] BY <2>1 DEF Job, OpenSteps
  <2>2. CASE j = [g EXCEPT !.step = "inspect"] BY <2>2 DEF Job, OpenSteps
  <2>3. CASE j = [g EXCEPT !.step = "answer", !.result = "refused"] BY <2>3 DEF Job, OpenSteps, Results
  <2> QED BY <1>7, <2>1, <2>2, <2>3
<1>9. /\ j.kind = "open" /\ ~j.attempted /\ j.tokens = job.tokens /\ j.base = job.base /\ j.before = job.before
      /\ \/ j.step = "inspect" /\ j.result = job.result
         \/ j.step = "answer" /\ j.result = "refused"
    BY <1>1, <1>5, <1>6, <1>7 DEF Job
<1>10. Answered(c) /\ AnswerTo(c) = "ok" => j.step = "inspect" /\ j.ticket
    BY <1>5, <1>7 DEF Job
<1>11. "refused" # Nil /\ "present" # "open" /\ Nil # "open" BY OpeningAssumption DEF Results, Kinds
<1>12. StepInv' BY <1>6, <1>7, <1>9, <1>11 DEF StepInv, OpenSteps, Early, Placing
<1>13. ~left'.spoiled /\ desk'.ticket.on => j.ticket /\ j.step \notin {"ready", "admit", "register", "answer"}
  <2> SUFFICES ASSUME ~left'.spoiled, desk'.ticket.on PROVE j.ticket /\ j.step = "inspect" OBVIOUS
  <2>1. Answered(c) /\ TicketAfter(desk, c, desk') /\ Reply(desk, c) = AnswerTo(c)
      BY <1>4, <1>7, AskingSound
  <2>2. ~left.spoiled BY <2>1 DEF Answered
  <2> QED BY <1>3, <1>6, <1>10, <2>1, <2>2 DEF TicketAfter
<1>14. Before1 BY <1>1, <1>6 DEF Before1
<1>15. Unlaunched(desk) BY <1>14 DEF OpeningInv, LaunchedInv
<1>16. Unlaunched(desk') BY <1>3, <1>4, <1>7, <1>15, AskingSound DEF AskedFor, Launching
<1>17. c.cmd # "present" /\ c.cmd # "place" BY <1>3
<1>18. j.step \notin Placing /\ j.step \notin {"destination", "place", "settle", "guard", "eval", "exec"}
       /\ j.step # "guard2" /\ ~(j.step \in {"forget", "answer"} /\ j.result \in {"opened", "forwarded"})
    BY <1>9 DEF Placing
<1> QED BY <1>1, <1>4, <1>7, <1>8, <1>9, <1>12, <1>13, <1>14, <1>16, <1>17, <1>18, AsksKeeps

\* RegisterRefused: the plugin is not ready for an opening, and nothing is launched.
LEMMA RegisterRefusedKeeps == OpeningInv /\ RegisterRefused => OpeningInv'
<1> SUFFICES ASSUME OpeningInv, RegisterRefused PROVE OpeningInv' OBVIOUS
<1>1. job.kind = "open" /\ job.step = "register" /\ UNCHANGED <<opening, showing, creations>>
    BY DEF RegisterRefused, At
<1>2. LeftTyped /\ (left.spoiled => left'.spoiled)
    BY SpendsLeft DEF OpeningInv, RegisterRefused, Spending
<1>3. Passive(desk, desk') BY ServedSound DEF OpeningInv, RegisterRefused
<1>4. ~left'.spoiled => desk' = desk /\ desk.late = <<>> /\ ~desk.ticket.on
  <2> SUFFICES ASSUME ~left'.spoiled PROVE desk' = desk /\ desk.late = <<>> /\ ~desk.ticket.on OBVIOUS
  <2>1. desk.late = <<>> /\ ~desk.ticket.on BY <1>1, <1>2 DEF OpeningInv, TicketInv
  <2>2. desk \in Desk BY DEF OpeningInv, OpeningTypeOK
  <2> QED BY <2>1, <2>2, ServedNone DEF RegisterRefused
<1>5. PICK g \in Job : g = job BY DEF OpeningInv, OpeningTypeOK
<1>6. PICK j : j = [g EXCEPT !.step = "answer", !.result = "refused"] OBVIOUS
<1>7. job' = j BY <1>5, <1>6 DEF RegisterRefused
<1>8. j \in Job BY <1>6 DEF Job, OpenSteps, Results
<1>9. /\ j.kind = "open" /\ j.step = "answer" /\ j.result = "refused" /\ j.tokens = job.tokens
      /\ j.attempted = job.attempted
    BY <1>1, <1>5, <1>6 DEF Job
<1>10. ~job.attempted BY <1>1 DEF OpeningInv, StepInv, Early
<1>11. "refused" # Nil /\ "present" # "open" /\ Nil # "open" BY OpeningAssumption DEF Results, Kinds
<1>12. StepInv' BY <1>7, <1>9, <1>10, <1>11 DEF StepInv, OpenSteps, Early, Placing
<1>13. TicketInv' BY <1>4 DEF TicketInv
<1>14. Before1 BY <1>1, <1>10 DEF Before1
<1>15. Unlaunched(desk') BY <1>3, <1>14 DEF OpeningInv, LaunchedInv, Passive, Calm
<1>16. PlaceInv'
  <2>1. Unplaced(desk') /\ \A w \in Wins : desk'.wins[w].moved = 0
      BY <1>3, <1>14 DEF OpeningInv, PlaceInv, Passive, Still
  <2>2. \A w \in j.tokens : desk'.wins[w].token
      BY <1>3, <1>9 DEF OpeningInv, PlaceInv, OpeningTypeOK, Job, Passive, Calm, Grows
  <2> QED BY <1>7, <1>9, <2>1, <2>2 DEF PlaceInv, Placing
<1>17. DeskSound(desk)' /\ Grows(desk, desk') /\ (Unshown(desk) => Unshown(desk'))
    BY <1>3 DEF Passive, Calm
<1> QED BY <1>1, <1>2, <1>7, <1>8, <1>9, <1>12, <1>13, <1>15, <1>16, <1>17, OpenStep

\* Forgets: the token is gone, unless the answer is lost.
LEMMA ForgetsKeeps == OpeningInv /\ Forgets => OpeningInv'
<1> SUFFICES ASSUME OpeningInv, Forgets PROVE OpeningInv' OBVIOUS
<1>1. job.kind = "open" /\ job.step = "forget" /\ UNCHANGED <<opening, showing, creations>>
    BY DEF Forgets, At
<1>2. PICK c : c = [cmd |-> "forget"] OBVIOUS
<1>3. c \in Command /\ c.cmd = "forget" BY <1>2 DEF Command
<1>4. MayAsk(desk, c) BY <1>3 DEF MayAsk, Launching
<1>5. PICK g \in Job : g = job BY DEF OpeningInv, OpeningTypeOK
<1>6. PICK r : r = Trouble(job) OBVIOUS
<1>7. r \in {"uncertain", "refused"} /\ (r = "refused" => ~job.attempted) BY <1>6 DEF Trouble
<1>8. job.result = "refused" => ~job.attempted BY DEF OpeningInv, StepInv
<1>9. job.result # Nil BY <1>1 DEF OpeningInv, StepInv
<1>10. PICK j : /\ job' = j
                /\ j = [g EXCEPT !.step = "answer"] \/ j = [g EXCEPT !.step = "answer", !.result = r]
                /\ Answered(c) \/ GivenUp(c)
    BY <1>2, <1>5, <1>6 DEF Forgets, Goes
<1>11. j \in Job
  <2>1. CASE j = [g EXCEPT !.step = "answer"] BY <2>1 DEF Job, OpenSteps
  <2>2. CASE j = [g EXCEPT !.step = "answer", !.result = r] BY <1>7, <2>2 DEF Job, OpenSteps, Results
  <2> QED BY <1>10, <2>1, <2>2
<1>12. /\ j.kind = "open" /\ j.attempted = job.attempted /\ j.tokens = job.tokens /\ j.base = job.base
       /\ j.before = job.before /\ j.step = "answer" /\ j.win = job.win
       /\ j.result = job.result \/ j.result = r
    BY <1>1, <1>5, <1>10 DEF Job
<1>13. "refused" # Nil /\ "uncertain" # Nil /\ "present" # "open" /\ Nil # "open"
    BY OpeningAssumption DEF Results, Kinds
<1>14. StepInv' BY <1>7, <1>8, <1>9, <1>10, <1>12, <1>13 DEF StepInv, OpenSteps, Early, Placing
<1>15. ~(~left'.spoiled /\ desk'.ticket.on) BY <1>3, <1>4, <1>10, AskingSound DEF TicketAfter
<1>16. opening.code = "running" /\ opening.code # Nil BY <1>1, OpeningAssumption DEF OpeningInv, FlowInv
<1>17. Before1' => Before1 BY <1>1, <1>10, <1>12, <1>16 DEF Before1
<1>18. c.cmd # "present" /\ c.cmd # "place" /\ c.cmd \notin Launching BY <1>3 DEF Launching
<1>19. Before1' => Unlaunched(desk')
    BY <1>4, <1>10, <1>17, <1>18, AskingSound DEF OpeningInv, LaunchedInv, AskedFor
<1>20. j.step \notin Placing /\ j.step \notin {"destination", "place", "settle", "guard", "eval", "exec"}
       /\ j.step # "guard2"
    BY <1>12 DEF Placing
<1>21. j.result \in {"opened", "forwarded"} => New(j.win, job.base, job.before, j.result)
    BY <1>1, <1>7, <1>12 DEF OpeningInv, OpenedInv
<1> QED BY <1>1, <1>4, <1>10, <1>11, <1>12, <1>14, <1>15, <1>17, <1>18, <1>19, <1>20, <1>21, AsksKeeps

\* Launches: the application is asked for, and it counts as attempted before the answer.
LEMMA LaunchesKeeps == OpeningInv /\ Launches => OpeningInv'
<1> SUFFICES ASSUME OpeningInv, Launches PROVE OpeningInv' OBVIOUS
<1>1. job.kind = "open" /\ job.step \in {"eval", "exec"} /\ UNCHANGED <<opening, showing, creations>>
    BY DEF Launches, At
<1>2. PICK c : c = [cmd |-> job.step] OBVIOUS
<1>3. c \in Command /\ c.cmd \in Launching
    BY <1>1, <1>2 DEF Command, Launching
<1>4. Before1 BY <1>1 DEF OpeningInv, StepInv, Early, Before1
<1>5. Unlaunched(desk) BY <1>4 DEF OpeningInv, LaunchedInv
<1>6. MayAsk(desk, c) BY <1>3, <1>5 DEF MayAsk, Launching
<1>7. PICK g \in Job : g = job BY DEF OpeningInv, OpeningTypeOK
<1>8. PICK s \in {"forget", "answer"} : s = IF g.ticket THEN "forget" ELSE "answer" OBVIOUS
<1>9. PICK a : a = Attempts("ok") OBVIOUS
<1>10. a = [g EXCEPT !.attempted = TRUE] /\ \A x : Attempts(x) = a BY <1>7, <1>9 DEF Attempts
<1>11. a \in Job /\ a.attempted /\ a.ticket = g.ticket /\ Trouble(a) = "uncertain"
    BY <1>10 DEF Job, Trouble
<1>12. PICK j : /\ job' = j
                /\ \/ j = [a EXCEPT !.step = "watch"]
                   \/ j = [a EXCEPT !.step = "guard2"] /\ Answered(c) /\ AnswerTo(c) = "nolua"
                   \/ j = [a EXCEPT !.step = s, !.result = "uncertain"]
                /\ Answered(c) \/ GivenUp(c)
    BY <1>2, <1>8, <1>10, <1>11 DEF Launches
<1>13. j \in Job
  <2>1. CASE j = [a EXCEPT !.step = "watch"] BY <1>11, <2>1 DEF Job, OpenSteps
  <2>2. CASE j = [a EXCEPT !.step = "guard2"] BY <1>11, <2>2 DEF Job, OpenSteps
  <2>3. CASE j = [a EXCEPT !.step = s, !.result = "uncertain"] BY <1>11, <2>3 DEF Job, OpenSteps, Results
  <2> QED BY <1>12, <2>1, <2>2, <2>3
<1>14. /\ j.kind = "open" /\ j.attempted /\ j.ticket = job.ticket /\ j.tokens = job.tokens /\ j.base = job.base
       /\ j.before = job.before /\ j.placed = job.placed
       /\ \/ j.step = "watch" /\ j.result = job.result
          \/ j.step = "guard2" /\ j.result = job.result
          \/ j.step = s /\ j.result = "uncertain"
  <2>1. a.kind = "open" /\ a.tokens = job.tokens /\ a.base = job.base /\ a.before = job.before
        /\ a.placed = job.placed /\ a.result = job.result
      BY <1>1, <1>7, <1>10 DEF Job
  <2>2. CASE j = [a EXCEPT !.step = "watch"] BY <1>7, <1>11, <2>1, <2>2 DEF Job
  <2>3. CASE j = [a EXCEPT !.step = "guard2"] BY <1>7, <1>11, <2>1, <2>3 DEF Job
  <2>4. CASE j = [a EXCEPT !.step = s, !.result = "uncertain"] BY <1>7, <1>11, <2>1, <2>4 DEF Job
  <2> QED BY <1>12, <2>2, <2>3, <2>4
<1>15. j.step = "guard2" => Answered(c) /\ AnswerTo(c) = "nolua"
    BY <1>8, <1>11, <1>12 DEF Job
<1>16. "uncertain" # Nil /\ "present" # "open" /\ Nil # "open" BY OpeningAssumption DEF Results, Kinds
<1>17. job.result # "refused" BY <1>1 DEF OpeningInv, StepInv
<1>18. StepInv' BY <1>8, <1>12, <1>14, <1>16, <1>17 DEF StepInv, OpenSteps, Early, Placing
<1>19. ~left'.spoiled /\ desk'.ticket.on => j.ticket /\ j.step \notin {"ready", "admit", "register", "answer"}
  <2> SUFFICES ASSUME ~left'.spoiled, desk'.ticket.on
               PROVE  j.ticket /\ j.step \notin {"ready", "admit", "register", "answer"} OBVIOUS
  <2>1. Answered(c) /\ TicketAfter(desk, c, desk') BY <1>6, <1>12, AskingSound
  <2>2. ~left.spoiled BY <2>1 DEF Answered
  <2>3. desk.ticket.on BY <1>3, <2>1 DEF TicketAfter, Launching
  <2>4. job.ticket BY <2>2, <2>3 DEF OpeningInv, TicketInv
  <2> QED BY <1>7, <1>8, <1>14, <2>4
<1>20. opening.code = "running" /\ opening.code # Nil BY <1>1, OpeningAssumption DEF OpeningInv, FlowInv
<1>21. Before1' => Unlaunched(desk')
  <2> SUFFICES ASSUME Before1' PROVE Unlaunched(desk') OBVIOUS
  <2>1. j.step = "guard2" BY <1>1, <1>8, <1>12, <1>14, <1>20 DEF Before1
  <2>2. desk' = Served(desk) BY <1>15, <2>1 DEF Answered, AnswerTo, Applied
  <2> QED BY <1>5, <2>2, ServedSound DEF OpeningInv, Passive, Calm
<1>22. c.cmd # "present" /\ c.cmd # "place" BY <1>3 DEF Launching
<1>23. Unplaced(desk') /\ \A w \in Wins : desk'.wins[w].moved # 0 => w \in j.placed
  <2>1. Still(desk, desk') BY <1>6, <1>12, <1>22, AskingSound DEF AskedFor
  <2> QED BY <1>4, <2>1 DEF OpeningInv, PlaceInv, Still
<1>24. j.step \notin {"destination", "place", "settle", "guard", "eval", "exec"}
       /\ ~(j.step \in {"forget", "answer"} /\ j.result \in {"opened", "forwarded"})
    BY <1>8, <1>14
<1> QED BY <1>1, <1>4, <1>6, <1>12, <1>13, <1>14, <1>18, <1>19, <1>21, <1>22, <1>23, <1>24, AsksKeeps

\* Places: the window is moved, or refused, or nobody knows.
LEMMA PlacesKeeps == OpeningInv /\ Places => OpeningInv'
<1> SUFFICES ASSUME OpeningInv, Places PROVE OpeningInv' OBVIOUS
<1>1. job.kind = "open" /\ job.step = "place" /\ UNCHANGED <<opening, showing, creations>>
    BY DEF Places, At
<1>2. PICK c : c = [cmd |-> "place", win |-> job.win] OBVIOUS
<1>3. /\ job.win # OldWin /\ Owned(desk, job.win) /\ job.win \notin job.placed /\ Unplaced(desk)
      /\ \A w \in Wins : desk.wins[w].moved # 0 => w \in job.placed
    BY <1>1 DEF OpeningInv, PlaceInv, Placing
<1>4. c \in Command /\ c.cmd = "place" /\ c.win = job.win BY <1>2, <1>3 DEF Command, Owned
<1>5. MayAsk(desk, c) BY <1>3, <1>4 DEF MayAsk, Launching, Owned
<1>6. PICK g \in Job : g = job BY DEF OpeningInv, OpeningTypeOK
<1>7. job.attempted /\ job.result # "refused" BY <1>1 DEF OpeningInv, StepInv, Placing
<1>8. PICK p \in SUBSET Wins : p = g.placed \cup {c.win}
  <2>1. c.win \in Wins BY <1>3, <1>4 DEF Owned
  <2> QED BY <2>1 DEF Job
<1>9. PICK s \in {"forget", "answer"} : s = IF g.ticket THEN "forget" ELSE "answer" OBVIOUS
<1>10. PICK x \in Wins \cup {Nil} : x = job.win BY DEF OpeningInv, OpeningTypeOK, Job
<1>11. PICK j : /\ job' = j
                /\ \/ j = [g EXCEPT !.step = "watch", !.placed = p] /\ Answered(c)
                   \/ j = [g EXCEPT !.step = s, !.result = "candidate", !.win = x]
                   \/ j = [g EXCEPT !.step = s, !.result = "uncertain", !.win = Nil]
                /\ Answered(c) \/ GivenUp(c)
    BY <1>2, <1>4, <1>6, <1>7, <1>8, <1>9, <1>10 DEF Places, Leaves, Fails, Trouble
<1>12. j \in Job
  <2>1. CASE j = [g EXCEPT !.step = "watch", !.placed = p] BY <2>1 DEF Job, OpenSteps
  <2>2. CASE j = [g EXCEPT !.step = s, !.result = "candidate", !.win = x] BY <2>2 DEF Job, OpenSteps, Results
  <2>3. CASE j = [g EXCEPT !.step = s, !.result = "uncertain", !.win = Nil] BY <2>3 DEF Job, OpenSteps, Results
  <2> QED BY <1>11, <2>1, <2>2, <2>3
<1>13. /\ j.kind = "open" /\ j.attempted /\ j.ticket = job.ticket /\ j.tokens = job.tokens /\ j.base = job.base
       /\ j.before = job.before
       /\ \/ j.step = "watch" /\ j.result = job.result /\ j.placed = p /\ Answered(c)
          \/ j.step = s /\ j.result \in {"candidate", "uncertain"}
  <2>1. CASE j = [g EXCEPT !.step = "watch", !.placed = p] /\ Answered(c) BY <1>1, <1>6, <1>7, <2>1 DEF Job
  <2>2. CASE j = [g EXCEPT !.step = s, !.result = "candidate", !.win = x] BY <1>1, <1>6, <1>7, <2>2 DEF Job
  <2>3. CASE j = [g EXCEPT !.step = s, !.result = "uncertain", !.win = Nil] BY <1>1, <1>6, <1>7, <2>3 DEF Job
  <2> QED BY <1>11, <2>1, <2>2, <2>3
<1>14. "uncertain" # Nil /\ "candidate" # Nil /\ "present" # "open" /\ Nil # "open"
    BY OpeningAssumption DEF Results, Kinds
<1>15. StepInv' BY <1>7, <1>11, <1>13, <1>14 DEF StepInv, OpenSteps, Early, Placing
<1>16. ~left'.spoiled /\ desk'.ticket.on => j.ticket /\ j.step \notin {"ready", "admit", "register", "answer"}
  <2> SUFFICES ASSUME ~left'.spoiled, desk'.ticket.on
               PROVE  j.ticket /\ j.step \notin {"ready", "admit", "register", "answer"} OBVIOUS
  <2>1. Answered(c) /\ TicketAfter(desk, c, desk') BY <1>5, <1>11, AskingSound
  <2>2. ~left.spoiled BY <2>1 DEF Answered
  <2>3. desk.ticket.on BY <1>4, <2>1 DEF TicketAfter
  <2>4. job.ticket BY <2>2, <2>3 DEF OpeningInv, TicketInv
  <2> QED BY <1>6, <1>9, <1>13, <2>4
<1>17. opening.code = "running" /\ opening.code # Nil BY <1>1, OpeningAssumption DEF OpeningInv, FlowInv
<1>18. ~Before1' BY <1>1, <1>9, <1>11, <1>13, <1>17 DEF Before1
<1>19. j.step \in Placing => Unplaced(desk') /\ \A w \in Wins : desk'.wins[w].moved # 0 => w \in j.placed
  <2> SUFFICES ASSUME j.step = "watch"
               PROVE  Unplaced(desk') /\ \A w \in Wins : desk'.wins[w].moved # 0 => w \in j.placed
      BY <1>13 DEF Placing
  <2>1. Answered(c) /\ j.placed = p BY <1>13
  <2>2. PICK e : e = desk' /\ e = Applied(Served(desk), c) BY <2>1 DEF Answered
  <2>3. /\ e.late = <<>>
        /\ \A w \in Wins : e.wins[w].moved = desk.wins[w].moved \/ c.win = w
      BY <1>3, <1>5, <2>2, AnsweredSound DEF OpeningInv
  <2>4. Unplaced(e) BY <2>3 DEF Unplaced, Never
  <2> QED BY <1>3, <1>6, <1>8, <2>1, <2>2, <2>3, <2>4
<1>20. j.step \notin {"destination", "place", "settle", "guard", "eval", "exec"} /\ j.step # "guard2"
       /\ ~(j.step \in {"forget", "answer"} /\ j.result \in {"opened", "forwarded"})
    BY <1>13
<1>21. job.step \in Placing /\ c.cmd # "present" BY <1>1, <1>4 DEF Placing
<1> QED BY <1>1, <1>5, <1>11, <1>12, <1>13, <1>15, <1>16, <1>18, <1>19, <1>20, <1>21, AsksKeeps

-----------------------------------------------------------------------------
(* The specification.                                                        *)

\* A desktop with one window, and nothing asked for.
LEMMA OpeningStarts == OpeningInit => OpeningInv
<1> SUFFICES ASSUME OpeningInit PROVE OpeningInv OBVIOUS
<1>1. PICK c \in Cases :
        desk = [front |-> 1, side |-> 3, focusMon |-> "front", focus |-> Nil, late |-> <<>>, plugin |-> c.plugin,
                lua |-> c.lua, bus |-> c.bus, ticket |-> NoTicket, helper |-> "none", starts |-> 0, shows |-> 0, hits |-> {},
                alive |-> {"server"},
                wins |-> [w \in Wins |-> [seen |-> w = OldWin, proc |-> IF w = OldWin THEN "server" ELSE Nil,
                                          ws |-> 1, token |-> FALSE, moved |-> 0]]]
        /\ left = [may |-> c.may, spoiled |-> FALSE]
    BY DEF OpeningInit
<1>2. /\ opening = [code |-> Nil, win |-> Nil, base |-> {}, before |-> {}]
      /\ showing = [sel |-> Nil, run |-> "none"] /\ creations = <<>> /\ job = NoJob
    BY DEF OpeningInit
<1>3. c.plugin \in BOOLEAN /\ c.lua \in BOOLEAN /\ c.bus \in BOOLEAN /\ c.may \in [Spending -> Nat]
    BY OpeningAssumption
<1>4. NoTicket \in Ticket /\ NoTicket.win = Nil /\ ~NoTicket.on BY DEF NoTicket, Ticket
<1>5. PICK u : u = [w \in Wins |-> [seen |-> w = OldWin, proc |-> IF w = OldWin THEN "server" ELSE Nil,
                                    ws |-> 1, token |-> FALSE, moved |-> 0]]
    OBVIOUS
<1>6. \A w \in Wins : /\ u[w] \in Window /\ u[w].moved = 0 /\ ~u[w].token
                      /\ u[w].seen = (w = OldWin) /\ (u[w].proc # Nil => u[w].seen)
  <2> TAKE w \in Wins
  <2>1. PICK p \in Procs \cup {Nil} : p = IF w = OldWin THEN "server" ELSE Nil BY DEF Procs
  <2>2. u[w] = [seen |-> w = OldWin, proc |-> p, ws |-> 1, token |-> FALSE, moved |-> 0] BY <1>5, <2>1
  <2>3. (w = OldWin) \in BOOLEAN OBVIOUS
  <2>4. u[w] \in Window BY <2>2, <2>3 DEF Window
  <2>5. u[w].moved = 0 /\ u[w].token = FALSE /\ u[w].seen = (w = OldWin) /\ u[w].proc = p BY <2>2
  <2>6. p # Nil => w = OldWin BY <2>1
  <2> QED BY <2>4, <2>5, <2>6
<1>7. u \in [Wins -> Window] BY <1>5, <1>6
<1>8. PICK t \in Ticket : t = NoTicket BY <1>4
<1>9. desk = [front |-> 1, side |-> 3, focusMon |-> "front", focus |-> Nil, late |-> <<>>, plugin |-> c.plugin,
              lua |-> c.lua, bus |-> c.bus, ticket |-> t, helper |-> "none", starts |-> 0, shows |-> 0, hits |-> {},
              alive |-> {"server"}, wins |-> u]
    BY <1>1, <1>5, <1>8
<1>10. <<>> \in Seq(Command) /\ {"server"} \in SUBSET Procs /\ <<>> \in Seq(Kinds) BY DEF Procs
<1>11. desk \in Desk BY <1>3, <1>7, <1>9, <1>10 DEF Desk
<1>12. /\ desk.late = <<>> /\ desk.starts = 0 /\ desk.shows = 0 /\ desk.hits = {} /\ desk.wins = u
       /\ desk.ticket = t
    BY <1>9
<1>13. DOMAIN desk.late = {} BY <1>12
<1>14. DeskSound(desk)
  <2>1. WindowsSound(desk) BY <1>4, <1>6, <1>8, <1>12, OpeningAssumption DEF WindowsSound
  <2>2. LateSound(desk) BY <1>13 DEF LateSound
  <2>3. \A w \in Wins : desk.wins[w].moved <= 1 BY <1>6, <1>12
  <2>4. OnceSound(desk) BY <1>12, <1>13, <2>3 DEF OnceSound, Once, Never
  <2> QED BY <1>11, <2>1, <2>2, <2>4 DEF DeskSound
<1>15. job \in Job /\ job.kind = Nil /\ job.step = "idle" /\ job.result = Nil /\ job.tokens = {}
    BY <1>2, EmptyJob DEF NoJob
<1>16. Nil # "open" /\ Nil # "present" /\ Nil # "refused" /\ Nil # "running" /\ Nil \notin {"opened", "forwarded"}
    BY OpeningAssumption DEF Kinds, Results
<1>17. opening.code = Nil /\ showing.run = "none" BY <1>2
<1>18. DOMAIN creations = {} BY <1>2
<1>19. FlowInv BY <1>15, <1>16, <1>17, <1>18 DEF FlowInv, Waits
<1>20. StepInv BY <1>15, <1>16 DEF StepInv
<1>21. LaunchedInv /\ ShowInv BY <1>12, <1>13 DEF LaunchedInv, ShowInv, Unlaunched, Unshown, Never
<1>22. TicketInv BY <1>4, <1>8, <1>12 DEF TicketInv
<1>23. PlaceInv BY <1>6, <1>12, <1>13, <1>15, <1>16 DEF PlaceInv, Unplaced, Never
<1>24. OpenedInv BY <1>15, <1>16, <1>17 DEF OpenedInv
<1>25. OpeningTypeOK
  <2>1. opening \in Opening BY <1>2 DEF Opening
  <2>2. showing \in Showing BY <1>2 DEF Showing
  <2>3. left \in [may : [Spending -> Nat], spoiled : BOOLEAN] BY <1>1, <1>3
  <2> QED BY <1>2, <1>10, <1>11, <1>15, <2>1, <2>2, <2>3 DEF OpeningTypeOK
<1> QED BY <1>14, <1>19, <1>20, <1>21, <1>22, <1>23, <1>24, <1>25 DEF OpeningInv

\* Every step keeps the invariant.
LEMMA OpeningSteps == OpeningInv /\ [OpeningNext]_openingVars => OpeningInv'
<1> SUFFICES ASSUME OpeningInv, [OpeningNext]_openingVars PROVE OpeningInv' OBVIOUS
<1>1. CASE UNCHANGED openingVars
  <2>1. UNCHANGED <<desk, opening, showing, creations, job, left>> BY <1>1 DEF openingVars
  <2>2. Passive(desk, desk') BY <2>1, ReadingPassive
  <2>3. LeftTyped /\ TicketQuiet BY <2>1, ReadingPassive
  <2> QED BY <2>1, <2>2, <2>3, DeskKeeps
<1>2. CASE \/ LateServed \/ TicketExpires \/ HelperRuns \/ ChildStarts \/ RootExits \/ Maps \/ Activates \/ Closes
           \/ Focuses \/ OwnerShows \/ OwnerCrosses
  BY <1>2, LateServedKeeps, TicketExpiresKeeps, HelperRunsKeeps, OwnerKeeps
<1>3. CASE \/ NativeOpen \/ (\E s \in Selections : Present(s)) \/ Starts \/ Ready \/ Admits \/ Lost
           \/ Answers \/ Builds \/ Shows
  BY <1>3, NativeOpenKeeps, PresentKeeps, StartsKeeps, ReadyKeeps, AdmitsKeeps, LostKeeps, AnswersKeeps,
     BuildsKeeps, ShowsKeeps
<1>4. CASE \/ Registers \/ RegisterRefused \/ Inspects \/ Guards \/ Launches \/ Watches \/ Tokens \/ Clients
           \/ Destination \/ Places \/ Settles \/ Forgets
  BY <1>4, RegistersKeeps, RegisterRefusedKeeps, InspectsKeeps, GuardsKeeps, LaunchesKeeps, WatchesKeeps, TokensKeeps, ClientsKeeps,
     DestinationKeeps, PlacesKeeps, SettlesKeeps, ForgetsKeeps
<1> QED BY <1>1, <1>2, <1>3, <1>4 DEF OpeningNext

\* The inductive invariant of an opening holds.
LEMMA OpeningHolds == OpeningSpec => []OpeningInv
<1> QED BY OpeningStarts, OpeningSteps, PTL DEF OpeningSpec

\* However often an opening or a presentation is asked for, given up, lost or falls back
\* to the other dispatch, the application is started and the display changed once at
\* most; a refusal is true, also of what is still to be served; and without a loss no
\* token is left behind (open_application, native.open, native.present).
THEOREM AskedOnceAlways == OpeningSpec => []AskedOnce
<1>1. OpeningInv => AskedOnce
  <2> SUFFICES ASSUME OpeningInv PROVE AskedOnce OBVIOUS
  <2>1. DOMAIN desk.late = 1 .. Len(desk.late) BY DEF OpeningInv, OpeningTypeOK, Desk
  <2>2. Unlaunched(desk) =>
            desk.starts = 0 /\ \A i \in 1 .. Len(desk.late) : desk.late[i].cmd \notin {"eval", "exec"}
      BY <2>1 DEF Unlaunched, Never, Launching
  <2>3. Unshown(desk) => desk.shows = 0 /\ \A i \in 1 .. Len(desk.late) : desk.late[i].cmd # "present"
      BY <2>1 DEF Unshown, Never
  <2>4. desk.starts <= 1 /\ desk.shows <= 1 BY DEF OpeningInv, DeskSound, OnceSound, Once
  <2>5. job.result = "refused" \/ (job.kind = "open" /\ job.step = "admit") => Before1
    <3>1. Nil # "refused" BY OpeningAssumption DEF Results
    <3> QED BY <3>1 DEF OpeningInv, StepInv, Early, Before1
  <2>6. LaunchTold BY <2>2, <2>4, <2>5 DEF LaunchTold, OpeningInv, LaunchedInv, TicketInv
  <2>7. PresentedOnce BY <2>3, <2>4 DEF PresentedOnce, OpeningInv, ShowInv
  <2> QED BY <2>6, <2>7 DEF AskedOnce, OpeningInv
<1> QED BY <1>1, OpeningHolds, PTL

\* Whatever the owner does meanwhile, only windows of the launch are moved, each once
\* and never with the owner in it, and what is reported as opened or forwarded is new
\* and of the launch (place_new_window, open_application).
THEOREM OnlyOursAlways == OpeningSpec => []OnlyOurs
<1>1. OpeningInv => OnlyOurs
  <2> SUFFICES ASSUME OpeningInv PROVE OnlyOurs OBVIOUS
  <2>1. OwnerUndisturbed BY DEF OwnerUndisturbed, OpeningInv, DeskSound, WindowsSound, OnceSound
  <2>2. OpenedIsOurs BY DEF OpenedIsOurs, OpeningInv, OpenedInv, New, Owned
  <2> QED BY <2>1, <2>2 DEF OnlyOurs
<1> QED BY <1>1, OpeningHolds, PTL
=============================================================================
