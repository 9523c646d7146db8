--------------------------- MODULE BrokerAdmission ---------------------------
(***************************************************************************)
(* What the broker lets in (src/src/session.ts): session.create with its   *)
(* place in the wait queue, native.open with its request identities and    *)
(* workspaces, the update lease, the loss of a caller, and the shutdown.   *)
(*                                                                         *)
(* A request is one call.  The promises of Sessions.creating are the calls *)
(* that have been let in and have not settled; creationTail runs their     *)
(* native part one at a time.  The code between two awaits is one step.    *)
(* The session itself is only open, closing, closed, or stuck because its  *)
(* stop failed: module SessionLifecycle has its inside.  A closed session that was pruned or   *)
(* forgotten is a closed session.                                          *)
(***************************************************************************)
EXTENDS Naturals, Sequences, FiniteSets

CONSTANTS
    Creates,    \* session.create calls
    Opens,      \* native.open calls
    Callers,    \* caller identities, each with one adapter process
    Apps,       \* application clients a handoff may name
    Profiles,   \* application lease keys (profileKey, or a fresh one)
    OpenKeys,   \* identities (caller, requestId) of openings
    Updaters,   \* processes that run an activation
    CallerOf,   \* the caller of a create
    AppOf,      \* the application of a create
    ProfileOf,  \* the lease key of a create
    KeyOf,      \* the identity of an opening
    Wants,      \* the workspace an opening names, or 0 for the broker's choice
    Limit,      \* 32 in the code
    MaxWaits,   \* bound: waits of a create before its deadline (0: it does not wait)
    Mixes,      \* bound: the sets of calls and updaters that come in one behaviour
    Workspaces, \* the workspace pool
    None

ASSUME AdmissionAssumption ==
    /\ CallerOf \in [Creates -> Callers] /\ AppOf \in [Creates -> Apps]
    /\ ProfileOf \in [Creates -> Profiles] /\ KeyOf \in [Opens -> OpenKeys]
    /\ Workspaces \subseteq Nat \ {0} /\ Wants \in [Opens -> Workspaces \cup {0}]
    /\ Limit \in Nat \ {0} /\ MaxWaits \in [Creates -> Nat]
    /\ Creates \cap Opens = {} /\ None \notin Creates \cup Opens \cup Updaters
    /\ IsFiniteSet(Creates) /\ IsFiniteSet(Opens)
    /\ Mixes \subseteq SUBSET (Creates \cup Opens \cup Updaters)

VARIABLES
    pc,          \* where each call is ("absent": it never comes)
    waits,       \* waits a create still has before its deadline
    tail,        \* creationTail: calls whose native part has not settled
    sess,        \* the session of each create
    orphan,      \* session.orphan, while its grace timer runs
    leases,      \* Sessions.leases
    holder,      \* the compositor's lease on each application
    queue,       \* WaitQueue: callers waiting for each application
    nativeOpens, \* the call whose result each opening identity keeps
    allocations, \* the workspace each opening identity reserved, or 0
    launched,    \* history: native launches attempted per opening identity
    updateLease, \* the updater that holds an unexpired lease, or None
    updater,     \* where each updater is
    recovery,    \* activation-recovery.json exists
    shut,        \* Sessions.close: "no", "draining", "stopping", "done"
    awaited,     \* the calls that close waits for
    caller,      \* whether the caller's adapter lives
    gone         \* CallerRegistry entry.gone

vars == <<pc, waits, tail, sess, orphan, leases, holder, queue, nativeOpens, allocations, launched,
          updateLease, updater, recovery, shut, awaited, caller, gone>>
createVars == <<waits, leases, holder, queue>>
sessVars   == <<sess, orphan>>
openVars   == <<nativeOpens, allocations, launched>>
updateVars == <<updateLease, updater, recovery>>
shutVars   == <<shut, awaited>>
callerVars == <<caller, gone>>

Reqs == Creates \cup Opens
Settled == {"absent", "new", "done", "failed"}

\* The calls of Sessions.creating: a create from its first step on, an opening
\* once it has passed the admission file.
Creating == {r \in Reqs : pc[r] \notin Settled /\ ~(r \in Opens /\ pc[r] = "admitting")}
Alive == {r \in Creates : sess[r] \in {"open", "closing", "stuck"}}

\* A create that has passed the session limit and has no session yet.
Passed == {r \in Creates : pc[r] \in {"queued", "native", "made", "undoing", "waiting"}}

\* A create that holds its lease key without a session.
Claiming == {r \in Creates : pc[r] \in {"queued", "native", "made"}}

TypeOK ==
    /\ pc \in [Reqs -> {"absent", "new", "admitting", "queued", "native", "made", "undoing", "waiting", "done", "failed"}]
    /\ waits \in [Creates -> Nat]
    /\ tail \in Seq(Reqs)
    /\ sess \in [Creates -> {"none", "open", "closing", "stuck", "closed"}]
    /\ orphan \in [Creates -> BOOLEAN]
    /\ leases \subseteq Profiles
    /\ holder \in [Apps -> Creates \cup {None}]
    /\ DOMAIN queue = Apps
    /\ nativeOpens \in [OpenKeys -> Opens \cup {None}]
    /\ allocations \in [OpenKeys -> Workspaces \cup {0}]
    /\ launched \in [OpenKeys -> Nat]
    /\ updateLease \in Updaters \cup {None}
    /\ updater \in [Updaters -> {"absent", "idle", "asking", "begun", "written", "cleared"}]
    /\ recovery \in BOOLEAN
    /\ shut \in {"no", "draining", "stopping", "done"}
    /\ awaited \subseteq Reqs
    /\ caller \in [Callers -> {"up", "dead"}]
    /\ gone \in [Callers -> BOOLEAN]

Init ==
    /\ \E mix \in Mixes :
          /\ pc = [r \in Reqs |-> IF r \in mix THEN "new" ELSE "absent"]
          /\ updater = [u \in Updaters |-> IF u \in mix THEN "idle" ELSE "absent"]
    /\ waits = MaxWaits /\ tail = <<>>
    /\ sess = [r \in Creates |-> "none"] /\ orphan = [r \in Creates |-> FALSE]
    /\ leases = {} /\ holder = [a \in Apps |-> None] /\ queue = [a \in Apps |-> <<>>]
    /\ nativeOpens = [k \in OpenKeys |-> None] /\ allocations = [k \in OpenKeys |-> 0]
    /\ launched = [k \in OpenKeys |-> 0]
    /\ updateLease = None /\ recovery = FALSE
    /\ shut = "no" /\ awaited = {}
    /\ caller = [c \in Callers |-> "up"] /\ gone = [c \in Callers |-> FALSE]

Goto(r, label) == pc' = [pc EXCEPT ![r] = label]

-----------------------------------------------------------------------------
(* The wait queue of one application (WaitQueue).                           *)

\* How many callers are ahead of c, who may not have joined.
Ahead(a, c) ==
    IF \E i \in 1..Len(queue[a]) : queue[a][i] = c
    THEN (CHOOSE i \in 1..Len(queue[a]) : queue[a][i] = c) - 1
    ELSE Len(queue[a])

Enter(a, c) == [queue EXCEPT ![a] = IF \E i \in 1..Len(@) : @[i] = c THEN @ ELSE Append(@, c)]
Leave(a, c) == [queue EXCEPT ![a] = SelectSeq(@, LAMBDA d : d # c)]

\* A caller that has stopped asking is dropped.
QueueDrops(a, c) ==
    /\ \E i \in 1..Len(queue[a]) : queue[a][i] = c
    /\ \A r \in Creates : CallerOf[r] = c /\ AppOf[r] = a => pc[r] # "waiting"
    /\ queue' = Leave(a, c)
    /\ UNCHANGED <<pc, waits, tail, sessVars, leases, holder, openVars, updateVars, shutVars, callerVars>>

-----------------------------------------------------------------------------
(* session.create.                                                          *)

\* create: refused under an update lease or a shutdown; otherwise the call is
\* in Sessions.creating and reads the admission file.
Create(r) ==
    /\ pc[r] = "new" /\ caller[CallerOf[r]] = "up"
    /\ Goto(r, IF updateLease # None \/ shut # "no" \/ recovery THEN "failed" ELSE "admitting")
    /\ UNCHANGED <<tail, createVars, sessVars, openVars, updateVars, shutVars, callerVars>>

\* The attempt was in vain: the caller keeps its place and waits for a release,
\* or gives up at its deadline and leaves its place behind.
WaitOrGiveUp(r) ==
    /\ queue' = IF MaxWaits[r] > 0 THEN Enter(AppOf[r], CallerOf[r]) ELSE queue
    /\ IF waits[r] > 0
       THEN Goto(r, "waiting") /\ waits' = [waits EXCEPT ![r] = @ - 1]
       ELSE Goto(r, "failed") /\ UNCHANGED waits

\* One attempt of the loop in createOwned.  Whoever is not first in the queue
\* waits or is refused; a taken lease key is refused at once.
Attempt(r) ==
    LET a == AppOf[r]
        c == CallerOf[r]
    IN \/ Ahead(a, c) > 0 /\ WaitOrGiveUp(r) /\ UNCHANGED <<tail, leases>>
       \/ /\ Ahead(a, c) = 0 /\ ProfileOf[r] \in leases
          /\ Goto(r, "failed") /\ queue' = Leave(a, c) /\ UNCHANGED <<tail, leases, waits>>
       \/ /\ Ahead(a, c) = 0 /\ ProfileOf[r] \notin leases
          /\ Goto(r, "queued") /\ tail' = Append(tail, r)
          /\ leases' = leases \cup {ProfileOf[r]} /\ UNCHANGED <<queue, waits>>

\* Mutant: the limit counts the sessions that are there and not the calls in flight.
CreateAdmittedUncounted(r) ==
    /\ r \in Creates /\ pc[r] = "admitting"
    /\ IF updateLease # None \/ Cardinality(Alive) + 1 >= Limit
       THEN Goto(r, "failed") /\ UNCHANGED <<tail, waits, leases, queue>>
       ELSE Attempt(r)
    /\ UNCHANGED <<holder, sessVars, openVars, updateVars, shutVars, callerVars>>

\* createOwned: the second look at the update lease, the session limit, and the
\* first attempt.
CreateAdmitted(r) ==
    /\ r \in Creates /\ pc[r] = "admitting"
    /\ IF updateLease # None \/ Cardinality(Alive) + Cardinality(Creating) >= Limit
       THEN Goto(r, "failed") /\ UNCHANGED <<tail, waits, leases, queue>>
       ELSE Attempt(r)
    /\ UNCHANGED <<holder, sessVars, openVars, updateVars, shutVars, callerVars>>

\* waitForRelease ends: woken by a release, or after two seconds.
Retry(r) ==
    /\ pc[r] = "waiting"
    /\ Attempt(r)
    /\ UNCHANGED <<holder, sessVars, openVars, updateVars, shutVars, callerVars>>

\* The native part of the call at the head of creationTail begins.
NativeStarts(r) ==
    /\ tail # <<>> /\ Head(tail) = r /\ r \in Creates /\ pc[r] = "queued"
    /\ IF recovery \/ shut # "no"
       THEN /\ Goto(r, "failed") /\ tail' = Tail(tail)
            /\ leases' = leases \ {ProfileOf[r]} /\ queue' = Leave(AppOf[r], CallerOf[r])
       ELSE Goto(r, "native") /\ UNCHANGED <<tail, leases, queue>>
    /\ UNCHANGED <<waits, holder, sessVars, openVars, updateVars, shutVars, callerVars>>

\* NativeBackend.create answers: the application is claimed, or it is busy
\* because another session has it, or the claim failed.
NativeClaims(r) ==
    /\ r \in Creates /\ pc[r] = "native" /\ holder[AppOf[r]] = None
    /\ holder' = [holder EXCEPT ![AppOf[r]] = r]
    /\ Goto(r, "made") /\ tail' = Tail(tail)
    /\ UNCHANGED <<waits, leases, queue, sessVars, openVars, updateVars, shutVars, callerVars>>

NativeBusy(r) ==
    /\ r \in Creates /\ pc[r] = "native" /\ holder[AppOf[r]] # None
    /\ tail' = Tail(tail) /\ leases' = leases \ {ProfileOf[r]}
    /\ WaitOrGiveUp(r)
    /\ UNCHANGED <<holder, sessVars, openVars, updateVars, shutVars, callerVars>>

\* Mutant: a rejected native part is never taken off creationTail.
NativeFailsStuck(r) ==
    /\ r \in Creates /\ pc[r] = "native"
    /\ leases' = leases \ {ProfileOf[r]}
    /\ Goto(r, "failed") /\ queue' = Leave(AppOf[r], CallerOf[r])
    /\ UNCHANGED <<tail, waits, holder, sessVars, openVars, updateVars, shutVars, callerVars>>

NativeFails(r) ==
    /\ r \in Creates /\ pc[r] = "native"
    /\ tail' = Tail(tail) /\ leases' = leases \ {ProfileOf[r]}
    /\ Goto(r, "failed") /\ queue' = Leave(AppOf[r], CallerOf[r])
    /\ UNCHANGED <<waits, holder, sessVars, openVars, updateVars, shutVars, callerVars>>

\* claim goes on: the session is registered, or its directory cannot be made
\* and the backend is closed again.
Register(r) ==
    /\ r \in Creates /\ pc[r] = "made"
    /\ Goto(r, "done") /\ sess' = [sess EXCEPT ![r] = "open"]
    /\ queue' = Leave(AppOf[r], CallerOf[r])
    /\ UNCHANGED <<tail, waits, leases, holder, orphan, openVars, updateVars, shutVars, callerVars>>

RegisterFails(r) ==
    /\ r \in Creates /\ pc[r] = "made"
    /\ Goto(r, "undoing") /\ leases' = leases \ {ProfileOf[r]}
    /\ UNCHANGED <<tail, waits, holder, queue, sessVars, openVars, updateVars, shutVars, callerVars>>

Undone(r) ==
    /\ r \in Creates /\ pc[r] = "undoing"
    /\ Goto(r, "failed")
    /\ holder' = [holder EXCEPT ![AppOf[r]] = None]
    /\ queue' = Leave(AppOf[r], CallerOf[r])
    /\ UNCHANGED <<tail, waits, leases, sessVars, openVars, updateVars, shutVars, callerVars>>

-----------------------------------------------------------------------------
(* A session ends.                                                          *)

\* stop by request, by its worker's end or after the grace period.
StopSession(r) ==
    /\ sess[r] = "open" /\ sess' = [sess EXCEPT ![r] = "closing"]
    /\ UNCHANGED <<pc, tail, createVars, orphan, openVars, updateVars, shutVars, callerVars>>

\* The stop ends or is forced: the key and the application are free again.
SessionCloses(r) ==
    /\ sess[r] = "closing" /\ sess' = [sess EXCEPT ![r] = "closed"]
    /\ leases' = leases \ {ProfileOf[r]}
    /\ holder' = [holder EXCEPT ![AppOf[r]] = None]
    /\ UNCHANGED <<pc, tail, waits, queue, orphan, openVars, updateVars, shutVars, callerVars>>

\* The stop fails for good, with what the session holds.
StopFails(r) ==
    /\ sess[r] = "closing" /\ sess' = [sess EXCEPT ![r] = "stuck"]
    /\ UNCHANGED <<pc, tail, createVars, orphan, openVars, updateVars, shutVars, callerVars>>

-----------------------------------------------------------------------------
(* native.open.                                                             *)

\* The call reads the admission file; it is not in Sessions.creating yet.
Open(o) ==
    /\ pc[o] = "new"
    /\ Goto(o, IF recovery THEN "failed" ELSE "admitting")
    /\ UNCHANGED <<tail, createVars, sessVars, openVars, updateVars, shutVars, callerVars>>

\* After the file: refused under a lease or a shutdown, answered from the kept
\* result of the same identity, or queued for creationTail.
OpenAdmitted(o) ==
    /\ o \in Opens /\ pc[o] = "admitting"
    /\ LET k == KeyOf[o] IN
       \/ /\ updateLease # None \/ shut # "no"
          /\ Goto(o, "failed") /\ UNCHANGED <<tail, nativeOpens>>
       \/ /\ updateLease = None /\ shut = "no" /\ nativeOpens[k] # None
          /\ Goto(o, "done") /\ UNCHANGED <<tail, nativeOpens>>
       \/ /\ updateLease = None /\ shut = "no" /\ nativeOpens[k] = None
          /\ Goto(o, "queued") /\ tail' = Append(tail, o)
          /\ nativeOpens' = [nativeOpens EXCEPT ![k] = o]
    /\ UNCHANGED <<createVars, sessVars, allocations, launched, updateVars, shutVars, callerVars>>

Reserved(k) == {allocations[j] : j \in OpenKeys \ {k}} \ {0}

\* At the head of creationTail: a workspace is chosen and reserved (an earlier
\* choice for the same identity stands), and the launch is sent.  What the
\* compositor shows may leave no workspace.  A refusal is kept like any result.
OpenStarts(o) ==
    /\ tail # <<>> /\ Head(tail) = o /\ o \in Opens /\ pc[o] = "queued"
    /\ LET k == KeyOf[o]
           choice == IF Wants[o] # 0 THEN {Wants[o]} \ Reserved(k)
                     ELSE IF allocations[k] # 0 THEN {allocations[k]}
                     ELSE Workspaces \ Reserved(k)
       IN \/ /\ \/ recovery \/ updateLease # None \/ shut # "no"
                \/ choice = {} \/ Wants[o] # 0 \/ allocations[k] = 0
             /\ Goto(o, "failed") /\ tail' = Tail(tail) /\ UNCHANGED <<allocations, launched>>
          \/ /\ ~recovery /\ updateLease = None /\ shut = "no"
             /\ \E w \in choice : allocations' = [allocations EXCEPT ![k] = w]
             /\ launched' = [launched EXCEPT ![k] = @ + 1]
             /\ Goto(o, "native") /\ UNCHANGED tail
    /\ UNCHANGED <<createVars, sessVars, nativeOpens, updateVars, shutVars, callerVars>>

\* Mutant: every failure frees the identity, an uncertain launch included.
OpenAnsweredForgets(o) ==
    /\ o \in Opens /\ pc[o] = "native"
    /\ tail' = Tail(tail)
    /\ \/ Goto(o, "done") /\ UNCHANGED nativeOpens
       \/ Goto(o, "failed") /\ nativeOpens' = [nativeOpens EXCEPT ![KeyOf[o]] = None]
    /\ UNCHANGED <<createVars, sessVars, allocations, launched, updateVars, shutVars, callerVars>>

\* The native answer: opened, failed or uncertain; or the person has not
\* approved, nothing was launched and the identity is free again.
OpenAnswered(o) ==
    /\ o \in Opens /\ pc[o] = "native"
    /\ tail' = Tail(tail)
    /\ \/ Goto(o, "done") /\ UNCHANGED <<nativeOpens, launched>>
       \/ Goto(o, "failed") /\ UNCHANGED <<nativeOpens, launched>>
       \/ /\ Goto(o, "failed")
          /\ nativeOpens' = [nativeOpens EXCEPT ![KeyOf[o]] = None]
          /\ launched' = [launched EXCEPT ![KeyOf[o]] = @ - 1]
    /\ UNCHANGED <<createVars, sessVars, allocations, updateVars, shutVars, callerVars>>

-----------------------------------------------------------------------------
(* The update lease and the updaters (update.begin and update.end here, the *)
(* activation in src/src/update.ts).                                        *)

\* update.begin reads the admission file first.
UpdateAsks(u) ==
    /\ updater[u] = "idle" /\ ~recovery
    /\ updater' = [updater EXCEPT ![u] = "asking"]
    /\ UNCHANGED <<pc, tail, createVars, sessVars, openVars, updateLease, recovery, shutVars, callerVars>>

\* Mutant: the lease is granted while a create is still on its way.
UpdateBeginsEarly(u) ==
    /\ updater[u] = "asking"
    /\ IF updateLease = None /\ Alive = {}
       THEN updateLease' = u /\ updater' = [updater EXCEPT ![u] = "begun"]
       ELSE updater' = [updater EXCEPT ![u] = "idle"] /\ UNCHANGED updateLease
    /\ UNCHANGED <<pc, tail, createVars, sessVars, openVars, recovery, shutVars, callerVars>>

\* After the file: granted only to one, and only while nothing is open or starting.
UpdateBegins(u) ==
    /\ updater[u] = "asking"
    /\ IF updateLease = None /\ Creating = {} /\ Alive = {}
       THEN updateLease' = u /\ updater' = [updater EXCEPT ![u] = "begun"]
       ELSE updater' = [updater EXCEPT ![u] = "idle"] /\ UNCHANGED updateLease
    /\ UNCHANGED <<pc, tail, createVars, sessVars, openVars, recovery, shutVars, callerVars>>

\* activate writes activation-recovery.json, created exclusively, before it
\* changes anything; when that fails, the file there or not, it ends the update.
RecoveryWritten(u) ==
    /\ updater[u] = "begun"
    /\ \/ ~recovery /\ recovery' = TRUE /\ updater' = [updater EXCEPT ![u] = "written"]
       \/ recovery' \in {recovery, TRUE} /\ updater' = [updater EXCEPT ![u] = "cleared"]
    /\ UNCHANGED <<pc, tail, createVars, sessVars, openVars, updateLease, shutVars, callerVars>>

\* The activation, or its rollback, is complete.
RecoveryCleared(u) ==
    /\ updater[u] = "written"
    /\ recovery' = FALSE /\ updater' = [updater EXCEPT ![u] = "cleared"]
    /\ UNCHANGED <<pc, tail, createVars, sessVars, openVars, updateLease, shutVars, callerVars>>

\* update.end with the updater's own token.
UpdateEnds(u) ==
    /\ updater[u] = "cleared"
    /\ updater' = [updater EXCEPT ![u] = "idle"]
    /\ updateLease' = IF updateLease = u THEN None ELSE updateLease
    /\ UNCHANGED <<pc, tail, createVars, sessVars, openVars, recovery, shutVars, callerVars>>

\* 120 seconds pass.  Assumed: writing one small file takes less.
LeaseExpires ==
    /\ updateLease # None /\ updater[updateLease] # "begun"
    /\ updateLease' = None
    /\ UNCHANGED <<pc, tail, createVars, sessVars, openVars, updater, recovery, shutVars, callerVars>>

-----------------------------------------------------------------------------
(* Shutdown (Sessions.close).                                               *)

ShutBegins ==
    /\ shut = "no" /\ shut' = "draining" /\ awaited' = Creating
    /\ orphan' = [r \in Creates |-> FALSE]
    /\ UNCHANGED <<pc, tail, createVars, sess, openVars, updateVars, callerVars>>

\* The calls in flight have settled: every session is stopped.
ShutStops ==
    /\ shut = "draining" /\ awaited \cap Creating = {}
    /\ shut' = "stopping"
    /\ sess' = [r \in Creates |-> IF sess[r] = "open" THEN "closing" ELSE sess[r]]
    /\ UNCHANGED <<pc, tail, createVars, orphan, openVars, updateVars, awaited, callerVars>>

\* Every stop has ended or failed.
ShutEnds ==
    /\ shut = "stopping" /\ \A r \in Creates : sess[r] # "closing"
    /\ shut' = "done"
    /\ UNCHANGED <<pc, tail, createVars, sessVars, openVars, updateVars, awaited, callerVars>>

-----------------------------------------------------------------------------
(* The callers' adapters.                                                   *)

CallerDies(c) ==
    /\ caller[c] = "up" /\ \E r \in Creates : CallerOf[r] = c /\ pc[r] # "absent"
    /\ caller' = [caller EXCEPT ![c] = "dead"]
    /\ UNCHANGED <<pc, tail, createVars, sessVars, openVars, updateVars, shutVars, gone>>

\* sweep and adapterGone: the sessions of the caller become orphans.  The
\* registry stops polling when the broker shuts down.
CallerGone(c) ==
    /\ caller[c] = "dead" /\ ~gone[c] /\ shut = "no"
    /\ gone' = [gone EXCEPT ![c] = TRUE]
    /\ orphan' = [r \in Creates |-> orphan[r] \/ (CallerOf[r] = c /\ sess[r] = "open")]
    /\ UNCHANGED <<pc, tail, createVars, sess, openVars, updateVars, shutVars, caller>>

\* touch and adapterBack: a new adapter of the same caller makes a request.
CallerReturns(c) ==
    /\ caller[c] = "dead" /\ caller' = [caller EXCEPT ![c] = "up"]
    /\ gone' = [gone EXCEPT ![c] = FALSE]
    /\ orphan' = [r \in Creates |-> orphan[r] /\ CallerOf[r] # c]
    /\ UNCHANGED <<pc, tail, createVars, sess, openVars, updateVars, shutVars>>

GraceEnds(r) == orphan[r] /\ StopSession(r)

-----------------------------------------------------------------------------
Next ==
    \/ \E a \in Apps, c \in Callers : QueueDrops(a, c)
    \/ \E r \in Creates :
          \/ Create(r) \/ CreateAdmitted(r) \/ Retry(r)
          \/ NativeStarts(r) \/ NativeClaims(r) \/ NativeBusy(r) \/ NativeFails(r)
          \/ Register(r) \/ RegisterFails(r) \/ Undone(r)
          \/ StopSession(r) \/ SessionCloses(r) \/ StopFails(r) \/ GraceEnds(r)
    \/ \E o \in Opens : Open(o) \/ OpenAdmitted(o) \/ OpenStarts(o) \/ OpenAnswered(o)
    \/ \E u \in Updaters :
          \/ UpdateAsks(u) \/ UpdateBegins(u) \/ UpdateEnds(u)
          \/ RecoveryWritten(u) \/ RecoveryCleared(u)
    \/ LeaseExpires
    \/ ShutBegins \/ ShutStops \/ ShutEnds
    \/ \E c \in Callers : CallerDies(c) \/ CallerGone(c) \/ CallerReturns(c)

\* The event loop goes on, timers fire, the native side answers or is timed out,
\* and a stop ends, is forced or fails.  Nothing is assumed of callers and updaters.
Fairness ==
    /\ \A r \in Creates :
          /\ WF_vars(CreateAdmitted(r)) /\ WF_vars(Retry(r)) /\ WF_vars(NativeStarts(r))
          /\ WF_vars(NativeClaims(r) \/ NativeBusy(r) \/ NativeFails(r))
          /\ WF_vars(Register(r) \/ RegisterFails(r)) /\ WF_vars(Undone(r))
          /\ WF_vars(SessionCloses(r) \/ StopFails(r)) /\ WF_vars(GraceEnds(r))
    /\ \A o \in Opens :
          WF_vars(OpenAdmitted(o)) /\ WF_vars(OpenStarts(o)) /\ WF_vars(OpenAnswered(o))
    /\ WF_vars(ShutStops) /\ WF_vars(ShutEnds)
    /\ \A c \in Callers : WF_vars(CallerGone(c))

Spec == Init /\ [][Next]_vars
FairSpec == Spec /\ Fairness

-----------------------------------------------------------------------------
(* Properties.                                                              *)

\* While an update holds the lease, or its recovery file stands, no session is
\* there and the native side starts nothing, whatever was checked before an
\* await and used after it.
UpdateUndisturbed ==
    updateLease # None \/ recovery =>
        Alive = {} /\ \A r \in Reqs : pc[r] \notin {"native", "made", "undoing"}

\* The session limit holds for the sessions that are there and those on their
\* way together, however many calls pass the check at the same time.
LimitHeld == Cardinality(Alive) + Cardinality(Passed) < Limit

\* A lease key is held exactly for a claim in flight or a session that is not
\* closed, never by two of them and never by nobody.
KeysExact ==
    /\ leases = {ProfileOf[r] : r \in Claiming \cup Alive}
    /\ \A r, q \in Claiming \cup Alive : ProfileOf[r] = ProfileOf[q] => r = q

\* What concurrent creates share stays typed and exact, the places and the keys, through
\* waits, refusals and claims that fail halfway (createOwned, claim).
AdmissionExact == TypeOK /\ LimitHeld /\ KeysExact

\* One opening identity launches at most once, retries and concurrent calls
\* included, unless the person's approval was missing.
OneLaunch == \A k \in OpenKeys : launched[k] <= 1

\* Two opening identities never share a workspace.
DistinctWorkspaces ==
    \A j, k \in OpenKeys : j # k /\ allocations[j] # 0 => allocations[j] # allocations[k]

\* Openings stay apart: each identity launches once, on a workspace that no other
\* identity has (nativeOpens, nativeAllocations).
OpeningsApart == OneLaunch /\ DistinctWorkspaces

\* Once the shutdown stops the sessions, none is on its way in any more.
ShutdownClean ==
    shut \in {"stopping", "done"} => Creating = {} /\ \A r \in Creates : sess[r] # "open"

\* Nothing slips in between a check and its use: under an update lease, under the recovery
\* file, or behind a shutdown (requireUpdateAdmission, Sessions.close).
NothingSlipsIn == UpdateUndisturbed /\ ShutdownClean

\* Every create and every opening is answered, whoever else waits for the same
\* application, and a shutdown waits for no caller.
BrokerSettles == []<>(/\ \A r \in Reqs : pc[r] \in Settled
                       /\ shut \in {"no", "done"})
=============================================================================
