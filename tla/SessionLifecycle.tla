-------------------------- MODULE SessionLifecycle --------------------------
(***************************************************************************)
(* One native session inside the broker (src/src/session.ts): its action   *)
(* queue, pause, resume, stop, forced close, the grace timer of a          *)
(* disconnected adapter, and the worker process behind it                  *)
(* (src/src/native-worker.ts, NativeBackend.close in src/src/hyprland.ts). *)
(*                                                                         *)
(* The broker is one JavaScript event loop: the code between two awaits is *)
(* one atomic step here.  The worker answers one request at a time in      *)
(* order, and the continuation of an answer runs before the event loop     *)
(* takes anything else, so answer and continuation are one step too.       *)
(***************************************************************************)
EXTENDS Naturals, Sequences

CONSTANTS
    MaxTail,    \* bound: jobs queued on session.tail
    MaxResume,  \* bound: resume requests awaiting the worker
    MaxSteps    \* bound: input actions of one batch (16 in the code)

ASSUME BoundsAssumption ==
    MaxTail \in Nat /\ MaxResume \in Nat /\ MaxSteps \in Nat \ {0}

VARIABLES
    state,       \* session.state
    tail,        \* session.tail: the jobs that have not settled, oldest first
    pauseOp,     \* session.paused: "none" or the phase of that promise
    behind,      \* jobs the pending pause still has to wait for
    wq,          \* NativeWorker.tail: requests sent or waiting, oldest first
    written,     \* once closing: how many requests of wq the worker still answers
    worker,      \* the worker process: "up", "ended" (exit 0) or "crashed"
    plugin,      \* the compositor's lease: "active" or "paused"
    backend,     \* NativeBackend.closing, memoised: "open", "closing", "ok", "failed"
    closing,     \* session.closing: "none", or what stop is waiting for
    forced,      \* session.forcedClosed
    release,     \* the plugin lease release of a forced close: "none", "waiting", "done"
    profile,     \* who holds session.lease in Sessions.leases: "this", "free" or "other"
    adapter,     \* whether an adapter process of the owning caller lives
    gone,        \* CallerRegistry entry.gone of the owning caller
    orphan,      \* session.orphan is set
    grace,       \* session.orphan.timer is armed
    sinceResume  \* history: a pause began since the last resume request was accepted

vars == <<state, tail, pauseOp, behind, wq, written, worker, plugin, backend, closing,
          forced, release, profile, adapter, gone, orphan, grace, sinceResume>>

workerVars == <<wq, written, worker, plugin, backend>>
closeVars  == <<closing, forced, release, profile>>
callerVars == <<adapter, gone, orphan, grace>>
pauseVars  == <<pauseOp, behind>>

-----------------------------------------------------------------------------
(* Jobs on session.tail.  An "act" is one agent action, a "batch" several   *)
(* with an optional capture at the end, a "control" is manual input by the  *)
(* person and "reveal" the owner's navigation.  sent: the head's current    *)
(* request is with the worker.  tried: some input of the batch was sent.    *)

Kinds == {"act", "batch", "control", "reveal"}
AgentKinds == {"act", "batch"}
Job == [kind : Kinds, left : 0..MaxSteps, capture : BOOLEAN, sent : BOOLEAN, tried : BOOLEAN]

Single(kind) == [kind |-> kind, left |-> 1, capture |-> FALSE, sent |-> FALSE, tried |-> FALSE]
Batch(n, c)  == [kind |-> "batch", left |-> n, capture |-> c, sent |-> FALSE, tried |-> FALSE]

Open == state \notin {"closing", "closed"}
WorkerTakes == worker = "up" /\ backend = "open"

TypeOK ==
    /\ state \in {"running", "pausing", "paused", "closing", "closed"}
    /\ tail \in Seq(Job)
    /\ pauseOp \in {"none", "draining", "leasing", "held"}
    /\ behind \in Nat
    /\ wq \in Seq({"job", "pause", "resume"})
    /\ written \in Nat
    /\ worker \in {"up", "ended", "crashed"}
    /\ plugin \in {"active", "paused"}
    /\ backend \in {"open", "closing", "ok", "failed"}
    /\ closing \in {"none", "backend", "drain", "done"}
    /\ forced \in BOOLEAN
    /\ release \in {"none", "waiting", "done"}
    /\ profile \in {"this", "free", "other"}
    /\ adapter \in {"up", "down"}
    /\ gone \in BOOLEAN
    /\ orphan \in BOOLEAN
    /\ grace \in BOOLEAN
    /\ sinceResume \in BOOLEAN

Init ==
    /\ state = "running" /\ tail = <<>>
    /\ pauseOp = "none" /\ behind = 0
    /\ wq = <<>> /\ written = 0 /\ worker = "up" /\ plugin = "active" /\ backend = "open"
    /\ closing = "none" /\ forced = FALSE /\ release = "none" /\ profile = "this"
    /\ adapter = "up" /\ gone = FALSE /\ orphan = FALSE /\ grace = FALSE
    /\ sinceResume = FALSE

-----------------------------------------------------------------------------
(* The action queue: enqueue, act, batch, control, reveal.                  *)

Enqueue(job) ==
    /\ Len(tail) < MaxTail
    /\ tail' = Append(tail, job)
    /\ UNCHANGED <<state, pauseVars, workerVars, closeVars, callerVars, sinceResume>>

\* A single agent action, admitted only while the session runs.
Act == state = "running" /\ Enqueue(Single("act"))

\* Several input actions in one request, with or without a final capture.
ActBatch == state = "running" /\ \E n \in 1..MaxSteps, c \in BOOLEAN : Enqueue(Batch(n, c))

\* Manual input by the person, admitted only on an acknowledged pause.
Control == state = "paused" /\ Enqueue(Single("control"))

\* The owner asks to see the window; it waits for its turn like the rest.
Reveal == Open /\ Enqueue(Single("reveal"))

\* The head job settles: the next one and a pause behind it may go on.
Settle ==
    /\ tail' = Tail(tail)
    /\ behind' = IF behind > 0 THEN behind - 1 ELSE 0

\* What is left of a job's input: a batch that finds the session no longer
\* running drops the rest of its input.
Left(job) == IF job.kind = "batch" /\ state # "running" THEN 0 ELSE job.left

\* The last request of a batch is its capture, unless none of its actions was
\* ever attempted.
Reads(job) == Left(job) = 0 /\ job.capture /\ job.tried

\* The head job's next step: one more request, or the end.  A closed session and
\* a worker that takes no more requests fail the job.
JobStep ==
    /\ tail # <<>> /\ ~Head(tail).sent
    /\ LET job == Head(tail) IN
       IF Open /\ WorkerTakes /\ (Left(job) > 0 \/ Reads(job))
       THEN /\ tail' = [tail EXCEPT ![1] =
                  [job EXCEPT !.sent = TRUE, !.tried = @ \/ Left(job) > 0,
                              !.left = IF Left(job) > 0 THEN Left(job) - 1 ELSE 0,
                              !.capture = @ /\ ~Reads(job)]]
            /\ wq' = Append(wq, "job")
            /\ UNCHANGED behind
       ELSE Settle /\ UNCHANGED wq
    /\ UNCHANGED <<state, pauseOp, written, worker, plugin, backend, closeVars, callerVars, sinceResume>>

\* The answer to the head job's request.  A batch goes on after a success and
\* keeps only its capture after a failure; everything else is finished.
JobAnswered(ok) ==
    LET job == Head(tail)
        left == IF ok THEN job.left ELSE 0
    IN IF job.kind = "batch" /\ Open /\ (left > 0 \/ job.capture)
       THEN /\ tail' = [tail EXCEPT ![1] = [job EXCEPT !.sent = FALSE, !.left = left]]
            /\ UNCHANGED behind
       ELSE Settle

-----------------------------------------------------------------------------
(* Pause and resume.                                                        *)

\* Mutant: the pause does not wait for session.tail.
PauseAtOnce ==
    IF pauseOp = "none"
    THEN state' = "pausing" /\ pauseOp' = "draining" /\ behind' = 0 /\ sinceResume' = TRUE
    ELSE UNCHANGED <<state, pauseOp, behind, sinceResume>>

\* Sessions.pause: a second pause joins the first, whatever became of the state.
Pause ==
    IF pauseOp = "none"
    THEN state' = "pausing" /\ pauseOp' = "draining" /\ behind' = Len(tail) /\ sinceResume' = TRUE
    ELSE UNCHANGED <<state, pauseOp, behind, sinceResume>>

PauseRequest ==
    /\ Open
    /\ Pause
    /\ UNCHANGED <<tail, workerVars, closeVars, callerVars>>

\* The jobs queued before the pause are done: ask the worker to pause the
\* lease.  A worker that takes no more requests refuses it: the promise is
\* dropped and the state is left as it was.
PauseDrained ==
    /\ pauseOp = "draining" /\ behind = 0
    /\ IF Open /\ WorkerTakes
       THEN pauseOp' = "leasing" /\ wq' = Append(wq, "pause")
       ELSE pauseOp' = "none" /\ UNCHANGED wq
    /\ UNCHANGED <<state, tail, behind, written, worker, plugin, backend, closeVars, callerVars, sinceResume>>

\* session.resume: refused while a pause is pending, otherwise the worker is
\* asked first and the state changes on its answer.
ResumeRequest ==
    /\ Open /\ state # "pausing" /\ WorkerTakes
    /\ Len(SelectSeq(wq, LAMBDA r : r = "resume")) < MaxResume
    /\ wq' = Append(wq, "resume")
    /\ sinceResume' = FALSE
    /\ UNCHANGED <<state, tail, pauseVars, written, worker, plugin, backend, closeVars, callerVars>>

\* Mutant: the second ensureOpen of pause is missing.
PauseAnsweredLate(ok) ==
    /\ pauseOp' = IF ok THEN "held" ELSE "none"
    /\ state' = IF ok THEN "paused" ELSE state
    /\ plugin' \in IF ok THEN {"paused"} ELSE {plugin, "paused"}

\* The answer to a pause request: a pause can be applied by the compositor and
\* still be answered with an error (the helper's cleanup failed).
PauseAnswered(ok) ==
    /\ pauseOp' = IF ok /\ Open THEN "held" ELSE "none"
    /\ state' = IF ok /\ Open THEN "paused" ELSE state
    /\ plugin' \in IF ok THEN {"paused"} ELSE {plugin, "paused"}

\* Mutant: a refused resume counts.
ResumeUnchecked(ok) ==
    /\ IF Open /\ state # "pausing" THEN state' = "running" /\ pauseOp' = "none"
       ELSE UNCHANGED <<state, pauseOp>>
    /\ plugin' \in IF ok THEN {"active"} ELSE {plugin, "active"}

\* The answer to a resume request: a newer pause that is still pending wins.
ResumeAnswered(ok) ==
    /\ IF ok /\ Open /\ state # "pausing"
       THEN state' = "running" /\ pauseOp' = "none"
       ELSE UNCHANGED <<state, pauseOp>>
    /\ plugin' \in IF ok THEN {"active"} ELSE {plugin, "active"}

\* The worker answers the request at the head of its queue.
WorkerAnswer ==
    /\ worker = "up" /\ wq # <<>> /\ (backend = "open" \/ written > 0)
    /\ wq' = Tail(wq) /\ written' = IF written > 0 THEN written - 1 ELSE 0
    /\ \E ok \in BOOLEAN :
          \/ /\ Head(wq) = "job" /\ JobAnswered(ok)
             /\ UNCHANGED <<state, pauseOp, plugin>>
          \/ /\ Head(wq) = "pause" /\ PauseAnswered(ok)
             /\ UNCHANGED <<tail, behind>>
          \/ /\ Head(wq) = "resume" /\ ResumeAnswered(ok)
             /\ UNCHANGED <<tail, behind>>
    /\ UNCHANGED <<worker, backend, closeVars, callerVars, sinceResume>>

\* A request whose worker ended, or that was not yet written when the worker
\* was told to close, is rejected at its turn.
WorkerReject ==
    /\ wq # <<>> /\ ~WorkerTakes /\ ~(worker = "up" /\ written > 0)
    /\ wq' = Tail(wq)
    /\ \/ /\ Head(wq) = "job" /\ JobAnswered(FALSE)
          /\ UNCHANGED pauseOp
       \/ /\ Head(wq) = "pause" /\ pauseOp' = "none"
          /\ UNCHANGED <<tail, behind>>
       \/ /\ Head(wq) = "resume"
          /\ UNCHANGED <<tail, behind, pauseOp>>
    /\ UNCHANGED <<state, written, worker, plugin, backend, closeVars, callerVars, sinceResume>>

-----------------------------------------------------------------------------
(* Stop, the worker's end and the forced close.                             *)

\* Sessions.stop.  A stop that is under way is joined; a failed backend close
\* is remembered by NativeBackend.close, so a later stop fails at once.  Closing
\* ends the worker's input after the request already written, or after all
\* queued ones when prepared semantic actions had to be cancelled first.
Stop ==
    IF closing # "none" \/ state = "closed"
    THEN UNCHANGED <<state, closing, grace, backend, written>>
    ELSE /\ state' = "closing" /\ grace' = FALSE
         /\ closing' = CASE backend = "failed" -> "none" [] backend = "ok" -> "drain" [] OTHER -> "backend"
         /\ backend' = IF backend = "open" THEN "closing" ELSE backend
         /\ IF backend = "open" /\ worker = "up"
            THEN \E all \in BOOLEAN : written' = IF all \/ wq = <<>> THEN Len(wq) ELSE 1
            ELSE UNCHANGED written

StopRequest ==
    /\ Stop
    /\ UNCHANGED <<tail, pauseVars, wq, worker, plugin, forced, release, profile, adapter, gone, orphan, sinceResume>>

\* The worker ends by itself: it handed control back (exit 0), or it died or
\* broke the protocol and was reaped.
WorkerEnds ==
    /\ worker = "up"
    /\ worker' \in {"ended", "crashed"}
    /\ UNCHANGED <<state, tail, pauseVars, wq, written, plugin, backend, closeVars, callerVars, sinceResume>>

\* backend.onClose: the end of the worker stops its session.
WorkerEndStops ==
    /\ worker # "up" /\ Open
    /\ StopRequest

\* NativeBackend.close succeeds: the worker left with exit code 0 and the
\* diagnostics were kept.
CloseOk ==
    /\ backend = "closing" /\ worker # "crashed"
    /\ worker' = "ended" /\ backend' = "ok"
    /\ written' = 0
    /\ closing' = IF closing = "backend" THEN "drain" ELSE closing
    /\ UNCHANGED <<state, tail, pauseVars, wq, plugin, forced, release, profile, callerVars, sinceResume>>

\* It fails: a worker that died, was killed or left with an error, or the
\* diagnostics could not be kept.  stop rejects, its deadline is cleared and
\* session.closing forgotten, unless a forced close already settled it.
CloseFails ==
    /\ backend = "closing"
    /\ worker' \in IF worker = "up" THEN {"ended", "crashed"} ELSE {worker}
    /\ backend' = "failed" /\ written' = 0
    /\ closing' = IF closing = "backend" THEN (IF release = "done" THEN "done" ELSE "none") ELSE closing
    /\ UNCHANGED <<state, tail, pauseVars, wq, plugin, forced, release, profile, callerVars, sinceResume>>

\* The rest of stop, once the queue has drained.
CloseFinish ==
    /\ closing = "drain" /\ tail = <<>>
    /\ closing' = "done"
    /\ IF forced THEN UNCHANGED <<state, profile>>
       ELSE state' = "closed" /\ profile' = "free"
    /\ UNCHANGED <<tail, pauseVars, workerVars, forced, release, callerVars, sinceResume>>

\* Mutant: the deadline covers the draining queue only, not the backend.
ForceCloseDraining ==
    /\ closing = "drain" /\ state # "closed"
    /\ forced' = TRUE /\ state' = "closed" /\ profile' = "free" /\ release' = "waiting"
    /\ UNCHANGED <<tail, pauseVars, workerVars, closing, callerVars, sinceResume>>

\* The close deadline fires while stop still waits: the broker lets go alone.
ForceClose ==
    /\ closing \in {"backend", "drain"} /\ state # "closed"
    /\ forced' = TRUE /\ state' = "closed" /\ profile' = "free" /\ release' = "waiting"
    /\ UNCHANGED <<tail, pauseVars, workerVars, closing, callerVars, sinceResume>>

\* The plugin lease release of the forced close answers, one way or the other.
ReleaseAnswered ==
    /\ release = "waiting" /\ release' = "done"
    /\ UNCHANGED <<state, tail, pauseVars, workerVars, closing, forced, profile, callerVars, sinceResume>>

\* Another session takes the same profile key once it is free (claim).
OtherClaims ==
    /\ profile = "free" /\ profile' = "other"
    /\ UNCHANGED <<state, tail, pauseVars, workerVars, closing, forced, release, callerVars, sinceResume>>

-----------------------------------------------------------------------------
(* The owning adapter: CallerRegistry and its two callbacks.                *)

AdapterDies ==
    /\ adapter = "up" /\ adapter' = "down"
    /\ UNCHANGED <<state, tail, pauseVars, workerVars, closeVars, gone, orphan, grace, sinceResume>>

\* The last process of the caller is gone: adapterGone pauses the session and
\* arms its grace timer.
AdapterGone ==
    /\ ~gone /\ gone' = TRUE
    /\ IF Open /\ ~orphan
       THEN /\ orphan' = TRUE /\ grace' = TRUE
            /\ Pause
       ELSE UNCHANGED <<state, pauseVars, orphan, grace, sinceResume>>
    /\ UNCHANGED <<tail, workerVars, closeVars, adapter>>

\* sweep finds the process dead; detach is a goodbye of a process still there.
Sweep  == adapter = "down" /\ AdapterGone
Detach == adapter = "up" /\ AdapterGone

\* touch: any request of a live adapter of the caller, announced when it was gone.
AdapterTouch ==
    /\ adapter' = "up" /\ gone' = FALSE
    /\ IF gone THEN orphan' = FALSE /\ grace' = FALSE ELSE UNCHANGED <<orphan, grace>>
    /\ UNCHANGED <<state, tail, pauseVars, workerVars, closeVars, sinceResume>>

\* The grace period of a disconnected adapter ends.
GraceEnds == grace /\ StopRequest

-----------------------------------------------------------------------------
Next ==
    \/ Act \/ ActBatch \/ Control \/ Reveal \/ JobStep
    \/ PauseRequest \/ PauseDrained \/ ResumeRequest
    \/ WorkerAnswer \/ WorkerReject \/ WorkerEnds \/ WorkerEndStops
    \/ StopRequest \/ CloseOk \/ CloseFails \/ CloseFinish
    \/ ForceClose \/ ReleaseAnswered \/ OtherClaims
    \/ AdapterDies \/ Sweep \/ Detach \/ AdapterTouch \/ GraceEnds

\* The event loop runs every continuation that is ready, every timer fires, the
\* registry polls, and the worker answers or is timed out.  Nothing is assumed
\* of the callers, nor that a backend close ever ends.
Fairness ==
    /\ WF_vars(JobStep) /\ WF_vars(PauseDrained)
    /\ WF_vars(WorkerAnswer \/ WorkerReject) /\ WF_vars(WorkerEndStops)
    /\ WF_vars(CloseFinish) /\ WF_vars(ForceClose) /\ WF_vars(ReleaseAnswered)
    /\ WF_vars(Sweep) /\ WF_vars(GraceEnds)

Spec == Init /\ [][Next]_vars
FairSpec == Spec /\ Fairness

-----------------------------------------------------------------------------
(* Properties.                                                              *)

\* An acknowledged pause means that no agent work is queued or with the worker:
\* jobs accepted before the pause have drained and none was accepted since.
PausedIsQuiet ==
    state = "paused" => \A i \in 1..Len(tail) : tail[i].kind \notin AgentKinds

\* A pause that had to drain is never undone by a resume that was requested
\* before it, although that resume is answered after the pause was requested.
PauseBeatsOlderResume == state = "running" => ~sinceResume

\* What a pause promises: no agent work below it, and no resume older than it above it
\* (Sessions.pause, session.resume).
PauseHolds == PausedIsQuiet /\ PauseBeatsOlderResume

\* While the broker calls the session running, the compositor's lease is
\* active: no answer that arrives out of turn leaves the two apart.
RunningIsLeased == state = "running" /\ worker = "up" => plugin = "active"

\* The session's record keeps its types and tells the truth about the lease the
\* compositor holds for it (Sessions.pause, session.resume).
RecordTrue == TypeOK /\ RunningIsLeased

\* The broker keeps the profile key for as long as the session is not closed.
KeyHeldUntilClosed == state # "closed" => profile = "this"

\* A key another session has taken since is never given away by the late end of
\* a close that was forced.
KeyNotStolen == [][profile = "other" => profile' = "other"]_vars

\* Stopping is final, whatever pause, resume or job answers arrive later.
StopIsFinal ==
    [][ /\ state = "closed" => state' = "closed"
        /\ state = "closing" => state' \in {"closing", "closed"}]_vars

\* What comes late, an answer or the end of a forced close, neither reopens the
\* session nor takes the key from the session that has it now (Sessions.stop).
StopStands == StopIsFinal /\ KeyNotStolen

\* Every pause is settled: acknowledged or refused.
PauseSettles == (pauseOp \in {"draining", "leasing"}) ~> (pauseOp \in {"none", "held"})

\* A stop was rejected: the close of its backend failed before the deadline, which went
\* with it.  The session is left closing, with its profile key, and every later stop is
\* rejected at once.
Rejected == state = "closing" /\ backend = "failed" /\ closing = "none"

\* A stop that is under way is answered: with a closed session, after the deadline also
\* when the backend or the queue hangs, or with the rejection of the backend's close.
StopSettles == (closing \in {"backend", "drain"}) ~> (state = "closed" \/ Rejected)

\* A session whose adapter died does not stay open: after the grace period it is closed,
\* or its stop was rejected, unless an adapter of the same caller returns.
NoOrphans == (adapter = "down") ~> (adapter = "up" \/ state = "closed" \/ Rejected)

\* Every pause is settled, every stop is answered, and the session of an adapter that
\* died is stopped, each although the worker hangs (Sessions.pause, stop, adapterGone).
SessionSettles == PauseSettles /\ StopSettles /\ NoOrphans

\* docs/agent-interface.md:386: a session stuck in closing is forced closed at the
\* deadline.  Sessions.stop clears the deadline of a close that is rejected.
ClosingForced == (state = "closing") ~> (state = "closed")
=============================================================================
