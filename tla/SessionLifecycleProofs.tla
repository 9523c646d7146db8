----------------------- MODULE SessionLifecycleProofs -----------------------
(***************************************************************************)
(* Proofs of the safety properties of SessionLifecycle, for every bound on *)
(* the queues, and after them of the properties of the Codex gates, for    *)
(* every set of requests, clients, turns and links and every bound.        *)
(***************************************************************************)
EXTENDS SessionLifecycle, CodexIpc, FiniteSetTheorems, SequenceTheorems, TLAPS

Quiet(from) == \A i \in 1..Len(tail) : i >= from => tail[i].kind \notin AgentKinds
Pending(r) == \E i \in 1..Len(wq) : wq[i] = r

\* session.paused and session.state agree, and the jobs a pause still waits for
\* are the ones that were queued before it.
PauseInv ==
    /\ pauseOp = "draining" => behind <= Len(tail) /\ Quiet(behind + 1)
    /\ pauseOp \in {"leasing", "held"} => Quiet(1)
    /\ state = "paused" => pauseOp = "held"
    /\ state = "running" => pauseOp = "none"

\* At most one job and one pause are with the worker; the job is the head of the
\* session's queue and the pause is the pending one.
WorkerInv ==
    /\ \A i, j \in 1..Len(wq) : wq[i] = wq[j] /\ wq[i] \in {"job", "pause"} => i = j
    /\ Pending("job") => tail # <<>> /\ tail[1].sent
    /\ Pending("pause") => pauseOp = "leasing"

\* A pause that had to drain is behind every resume that is older than it.
ResumeInv ==
    sinceResume =>
        /\ state # "running"
        /\ state = "paused" => ~Pending("resume")
        /\ \A i, j \in 1..Len(wq) : wq[i] = "pause" /\ wq[j] = "resume" => j < i

\* Only a forced close leaves a session closed whose stop is still under way.
CloseInv ==
    /\ forced => state = "closed"
    /\ state = "closed" /\ closing # "done" => forced
    /\ state # "closed" => profile = "this"

IInv == TypeOK /\ PauseInv /\ WorkerInv /\ ResumeInv /\ CloseInv /\ RunningIsLeased

-----------------------------------------------------------------------------
(* Facts about sequences.                                                   *)

\* Replacing the head of a sequence keeps its type, its length and the rest.
LEMMA HeadReplaced ==
    ASSUME NEW S, NEW s \in Seq(S), s # <<>>, NEW e \in S
    PROVE  LET t == [s EXCEPT ![1] = e]
           IN /\ t \in Seq(S) /\ t # <<>> /\ Len(t) = Len(s) /\ t[1] = e
              /\ \A i \in 1..Len(s) : i # 1 => t[i] = s[i]
  OBVIOUS

\* Dropping the head shifts the rest down by one.
LEMMA TailShifts ==
    ASSUME NEW S, NEW s \in Seq(S), s # <<>>
    PROVE  /\ Tail(s) \in Seq(S) /\ Len(Tail(s)) = Len(s) - 1 /\ Len(s) \in Nat \ {0}
           /\ Head(s) = s[1] /\ s[1] \in S
           /\ \A i \in 1..Len(Tail(s)) : i + 1 \in 1..Len(s) /\ Tail(s)[i] = s[i + 1]
  OBVIOUS

\* Appending adds one element at the end.
LEMMA AppendAdds ==
    ASSUME NEW S, NEW s \in Seq(S), NEW e \in S
    PROVE  /\ Append(s, e) \in Seq(S) /\ Len(Append(s, e)) = Len(s) + 1 /\ Len(s) \in Nat
           /\ Append(s, e)[Len(s) + 1] = e
           /\ \A i \in 1..Len(s) : Append(s, e)[i] = s[i]
  OBVIOUS
-----------------------------------------------------------------------------
(* The invariant is inductive.                                              *)

\* A session that is closing neither runs nor is paused, so only its own close
\* can be disturbed.
LEMMA StopKeeps == IInv /\ StopRequest => IInv'
  <1>. SUFFICES ASSUME IInv, StopRequest PROVE IInv'
    OBVIOUS
  <1>. USE DEF IInv, StopRequest, Stop, pauseVars, Open
  <1>1. TypeOK'
    <2>1. written' \in Nat
      BY DEF TypeOK
    <2>2. state' \in {state, "closing"} /\ backend' \in {backend, "closing"}
      OBVIOUS
    <2>4. grace' \in BOOLEAN
      BY DEF TypeOK
    <2>3. closing' \in {closing, "none", "drain", "backend"}
      OBVIOUS
    <2>. QED BY <2>1, <2>2, <2>3, <2>4 DEF TypeOK
  <1>2. PauseInv'
    BY DEF PauseInv, Quiet
  <1>3. WorkerInv'
    BY DEF WorkerInv, Pending
  <1>4. ResumeInv'
    BY DEF ResumeInv, Pending
  <1>5. CloseInv'
    BY DEF TypeOK, CloseInv
  <1>6. RunningIsLeased'
    BY DEF RunningIsLeased
  <1>. QED BY <1>1, <1>2, <1>3, <1>4, <1>5, <1>6

\* Whoever asks for the pause, the jobs queued so far are the ones it waits for.
LEMMA PauseKeeps ==
    ASSUME IInv, Open, Pause, UNCHANGED <<tail, wq>>
    PROVE  /\ PauseInv' /\ WorkerInv'
           /\ state' \in {"running", "pausing", "paused"}
           /\ behind' \in Nat /\ pauseOp' \in {"none", "draining", "leasing", "held"}
           /\ state' = "running" => state = "running" /\ pauseOp # "none"
           /\ state' = "paused" => state = "paused"
           /\ pauseOp = "none" => ~Pending("pause") /\ state' = "pausing"
           /\ sinceResume' \in BOOLEAN /\ (pauseOp # "none" => sinceResume' = sinceResume)
  <1>. USE DEF IInv, TypeOK, Pause, Open
  <1>1. PauseInv'
    BY DEF PauseInv, Quiet
  <1>2. WorkerInv'
    BY DEF WorkerInv, Pending
  <1>3. pauseOp = "none" => ~Pending("pause")
    BY DEF WorkerInv
  <1>4. sinceResume' \in BOOLEAN /\ (pauseOp # "none" => sinceResume' = sinceResume)
    OBVIOUS
  <1>. QED BY <1>1, <1>2, <1>3, <1>4

LEMMA PauseRequestKeeps == IInv /\ PauseRequest => IInv'
  <1>. SUFFICES ASSUME IInv, PauseRequest PROVE IInv'
    OBVIOUS
  <1>1. Open /\ Pause /\ UNCHANGED <<tail, wq>>
    BY DEF PauseRequest, workerVars
  <1>. USE PauseKeeps, <1>1 DEF IInv, PauseRequest, workerVars, closeVars, callerVars
  <1>2. TypeOK'
    BY DEF TypeOK
  <1>3. ResumeInv'
    BY DEF ResumeInv, Pending
  <1>4. CloseInv'
    BY DEF CloseInv, Open
  <1>5. RunningIsLeased'
    BY DEF RunningIsLeased
  <1>. QED BY <1>2, <1>3, <1>4, <1>5

LEMMA AdapterGoneKeeps == IInv /\ AdapterGone => IInv'
  <1>. SUFFICES ASSUME IInv, AdapterGone PROVE IInv'
    OBVIOUS
  <1>. USE DEF IInv, AdapterGone, workerVars, closeVars
  <1>1. CASE Open /\ ~orphan
    <2>1. Pause /\ UNCHANGED <<tail, wq>>
      BY <1>1
    <2>. USE PauseKeeps, <1>1, <2>1
    <2>2. TypeOK'
      BY DEF TypeOK
    <2>3. ResumeInv'
      BY DEF ResumeInv, Pending
    <2>4. CloseInv'
      BY DEF CloseInv, Open
    <2>5. RunningIsLeased'
      BY DEF RunningIsLeased
    <2>. QED BY <2>2, <2>3, <2>4, <2>5
  <1>2. CASE ~(Open /\ ~orphan)
    <2>1. UNCHANGED <<state, tail, pauseOp, behind, wq, worker, plugin, closing, forced, profile, sinceResume>>
      BY <1>2 DEF pauseVars
    <2>2. gone' \in BOOLEAN /\ UNCHANGED <<written, backend, release, adapter, orphan, grace>>
      BY <1>2
    <2>3. TypeOK'
      BY <2>1, <2>2 DEF TypeOK
    <2>. QED BY <2>1, <2>3 DEF PauseInv, WorkerInv, ResumeInv, CloseInv, RunningIsLeased, Quiet, Pending
  <1>. QED BY <1>1, <1>2

\* Taking a request from the worker's queue: which of its facts are left.
LEMMA RequestTaken ==
    ASSUME IInv, wq # <<>>, wq' = Tail(wq)
    PROVE  /\ wq' \in Seq({"job", "pause", "resume"})
           /\ \A i, j \in 1..Len(wq') : wq'[i] = wq'[j] /\ wq'[i] \in {"job", "pause"} => i = j
           /\ \A r : Pending(r)' => Pending(r)
           /\ \A r : Head(wq) = r => Pending(r)
           /\ \A r \in {"job", "pause"} : Head(wq) = r => ~Pending(r)'
           /\ sinceResume =>
                \A i, j \in 1..Len(wq') : wq'[i] = "pause" /\ wq'[j] = "resume" => j < i
           /\ sinceResume /\ Head(wq) = "pause" => ~Pending("resume")'
  <1>. DEFINE n == Len(wq)
  <1>1. /\ wq' \in Seq({"job", "pause", "resume"}) /\ Len(wq') = n - 1 /\ n \in Nat \ {0}
        /\ Head(wq) = wq[1]
        /\ \A i \in 1..Len(wq') : i + 1 \in 1..n /\ wq'[i] = wq[i + 1]
    BY TailShifts DEF IInv, TypeOK
  <1>2. \A i, j \in 1..n : wq[i] = wq[j] /\ wq[i] \in {"job", "pause"} => i = j
    BY DEF IInv, WorkerInv
  <1>3. sinceResume => \A i, j \in 1..n : wq[i] = "pause" /\ wq[j] = "resume" => j < i
    BY DEF IInv, ResumeInv
  <1>. HIDE DEF n
  <1>4. \A i, j \in 1..Len(wq') : wq'[i] = wq'[j] /\ wq'[i] \in {"job", "pause"} => i = j
    BY <1>1, <1>2
  <1>5. /\ \A r : Pending(r)' => Pending(r)
        /\ \A r : Head(wq) = r => Pending(r)
        /\ \A r \in {"job", "pause"} : Head(wq) = r => ~Pending(r)'
    BY <1>1, <1>2 DEF Pending, n
  <1>6. sinceResume =>
            \A i, j \in 1..Len(wq') : wq'[i] = "pause" /\ wq'[j] = "resume" => j < i
    BY <1>1, <1>3
  <1>7. sinceResume /\ Head(wq) = "pause" => ~Pending("resume")'
    BY <1>1, <1>3 DEF Pending
  <1>. QED BY <1>1, <1>4, <1>5, <1>6, <1>7

\* Sending one more request to the worker.
LEMMA RequestSent ==
    ASSUME IInv, NEW r \in {"job", "pause", "resume"}, wq' = Append(wq, r)
    PROVE  /\ wq' \in Seq({"job", "pause", "resume"})
           /\ r = "resume" \/ ~Pending(r) =>
                \A i, j \in 1..Len(wq') : wq'[i] = wq'[j] /\ wq'[i] \in {"job", "pause"} => i = j
           /\ \A q : Pending(q)' => q = r \/ Pending(q)
           /\ sinceResume /\ r # "resume" =>
                \A i, j \in 1..Len(wq') : wq'[i] = "pause" /\ wq'[j] = "resume" => j < i
  <1>. DEFINE n == Len(wq)
  <1>1. /\ wq' \in Seq({"job", "pause", "resume"}) /\ Len(wq') = n + 1 /\ n \in Nat
        /\ wq'[n + 1] = r /\ \A i \in 1..n : wq'[i] = wq[i]
    BY AppendAdds DEF IInv, TypeOK
  <1>2. \A i, j \in 1..n : wq[i] = wq[j] /\ wq[i] \in {"job", "pause"} => i = j
    BY DEF IInv, WorkerInv
  <1>3. sinceResume => \A i, j \in 1..n : wq[i] = "pause" /\ wq[j] = "resume" => j < i
    BY DEF IInv, ResumeInv
  <1>4. Pending(r) <=> \E i \in 1..n : wq[i] = r
    BY DEF Pending
  <1>. HIDE DEF n
  <1>5. ASSUME r = "resume" \/ ~Pending(r), NEW i \in 1..Len(wq'), NEW j \in 1..Len(wq'),
               wq'[i] = wq'[j], wq'[i] \in {"job", "pause"}
        PROVE  i = j
    <2>1. CASE i \in 1..n /\ j \in 1..n
      BY <2>1, <1>1, <1>2, <1>5
    <2>2. CASE i = n + 1 \/ j = n + 1
      BY <2>2, <1>1, <1>4, <1>5
    <2>. QED BY <2>1, <2>2, <1>1
  <1>6. \A q : Pending(q)' => q = r \/ Pending(q)
    BY <1>1 DEF Pending, n
  <1>7. sinceResume /\ r # "resume" =>
            \A i, j \in 1..Len(wq') : wq'[i] = "pause" /\ wq'[j] = "resume" => j < i
    BY <1>1, <1>3
  <1>. QED BY <1>1, <1>5, <1>6, <1>7

\* When the head job settles, the jobs a pause waits for are one fewer.
LEMMA SettleKeeps ==
    ASSUME IInv, tail # <<>>, Settle, UNCHANGED <<state, pauseOp>>
    PROVE  tail' \in Seq(Job) /\ behind' \in Nat /\ PauseInv'
  <1>1. /\ tail' \in Seq(Job) /\ Len(tail') = Len(tail) - 1 /\ Len(tail) \in Nat \ {0}
        /\ \A i \in 1..Len(tail') : i + 1 \in 1..Len(tail) /\ tail'[i] = tail[i + 1]
    BY TailShifts DEF IInv, TypeOK, Settle
  <1>2. behind \in Nat /\ behind' = IF behind > 0 THEN behind - 1 ELSE 0
    BY DEF IInv, TypeOK, Settle
  <1>3. ASSUME pauseOp = "draining" PROVE behind' <= Len(tail') /\ Quiet(behind + 1)'
    <2>1. behind <= Len(tail) /\ \A i \in 1..Len(tail) : i >= behind + 1 => tail[i].kind \notin AgentKinds
      BY <1>3 DEF IInv, PauseInv, Quiet
    <2>2. behind' <= Len(tail')
      BY <1>1, <1>2, <2>1
    <2>3. ASSUME NEW i \in 1..Len(tail'), i >= behind' + 1 PROVE tail'[i].kind \notin AgentKinds
      BY <1>1, <1>2, <2>1, <2>3
    <2>. QED BY <2>2, <2>3 DEF Quiet
  <1>4. pauseOp \in {"leasing", "held"} => Quiet(1)'
    BY <1>1 DEF Quiet, IInv, PauseInv
  <1>. QED BY <1>1, <1>2, <1>3, <1>4 DEF IInv, PauseInv

\* A head job that goes on stays the same kind of job.
LEMMA HeadKeeps ==
    ASSUME IInv, tail # <<>>, NEW job \in Job, job.kind = tail[1].kind,
           tail' = [tail EXCEPT ![1] = job], UNCHANGED <<state, pauseOp, behind>>
    PROVE  tail' \in Seq(Job) /\ tail' # <<>> /\ tail'[1] = job /\ PauseInv'
  <1>1. /\ tail' \in Seq(Job) /\ tail' # <<>> /\ Len(tail') = Len(tail) /\ tail'[1] = job
        /\ \A i \in 1..Len(tail) : i # 1 => tail'[i] = tail[i]
    BY HeadReplaced DEF IInv, TypeOK
  <1>2. \A i \in 1..Len(tail) : tail'[i].kind = tail[i].kind
    BY <1>1
  <1>. QED BY <1>1, <1>2 DEF IInv, PauseInv, Quiet

\* A job joins the queue: agent work only while the session runs.
LEMMA EnqueueKeeps ==
    ASSUME IInv, NEW job \in Job, ~job.sent, job.kind \in AgentKinds => state = "running",
           Enqueue(job)
    PROVE  IInv'
  <1>1. /\ tail' \in Seq(Job) /\ Len(tail') = Len(tail) + 1 /\ Len(tail) \in Nat
        /\ tail'[Len(tail) + 1] = job /\ \A i \in 1..Len(tail) : tail'[i] = tail[i]
    BY AppendAdds DEF IInv, TypeOK, Enqueue
  <1>. USE DEF IInv, Enqueue, pauseVars, workerVars, closeVars, callerVars
  <1>2. TypeOK'
    BY <1>1 DEF TypeOK
  <1>3. PauseInv'
    BY <1>1 DEF PauseInv, Quiet, TypeOK
  <1>4. WorkerInv'
    BY <1>1 DEF WorkerInv, Pending, TypeOK
  <1>5. ResumeInv' /\ CloseInv' /\ RunningIsLeased'
    BY DEF ResumeInv, CloseInv, RunningIsLeased, Pending
  <1>. QED BY <1>2, <1>3, <1>4, <1>5

LEMMA JobStepKeeps == IInv /\ JobStep => IInv'
  <1>. SUFFICES ASSUME IInv, JobStep PROVE IInv'
    OBVIOUS
  <1>. DEFINE job == Head(tail)
  <1>1. tail # <<>> /\ job \in Job /\ job = tail[1] /\ ~job.sent
    BY TailShifts DEF IInv, TypeOK, JobStep
  <1>2. UNCHANGED <<state, pauseOp, written, worker, plugin, backend, closing, forced, release, profile,
                    adapter, gone, orphan, grace, sinceResume>>
    BY DEF JobStep, closeVars, callerVars
  <1>3. ~Pending("job")
    BY <1>1 DEF IInv, WorkerInv
  <1>4. CASE Settle /\ UNCHANGED wq
    <2>1. tail' \in Seq(Job) /\ behind' \in Nat /\ PauseInv'
      BY <1>1, <1>2, <1>4, SettleKeeps
    <2>2. TypeOK'
      BY <1>2, <1>4, <2>1 DEF IInv, TypeOK
    <2>3. WorkerInv'
      BY <1>2, <1>3, <1>4 DEF IInv, WorkerInv, Pending
    <2>4. ResumeInv' /\ CloseInv' /\ RunningIsLeased'
      BY <1>2, <1>4 DEF IInv, ResumeInv, CloseInv, RunningIsLeased, Pending
    <2>. QED BY <2>1, <2>2, <2>3, <2>4 DEF IInv
  <1>5. CASE ~(Settle /\ UNCHANGED wq)
    <2>. DEFINE next == [job EXCEPT !.sent = TRUE, !.tried = @ \/ Left(job) > 0,
                                    !.left = IF Left(job) > 0 THEN Left(job) - 1 ELSE 0,
                                    !.capture = @ /\ ~Reads(job)]
    <2>1. tail' = [tail EXCEPT ![1] = next] /\ wq' = Append(wq, "job") /\ UNCHANGED behind
      BY <1>5 DEF JobStep
    <2>2. next \in Job /\ next.kind = tail[1].kind /\ next.sent
      <3>1. Left(job) \in 0..MaxSteps
        BY <1>1, BoundsAssumption DEF Left, Job
      <3>2. (IF Left(job) > 0 THEN Left(job) - 1 ELSE 0) \in 0..MaxSteps
        BY <3>1, BoundsAssumption
      <3>3. (job.tried \/ Left(job) > 0) \in BOOLEAN /\ (job.capture /\ ~Reads(job)) \in BOOLEAN
        OBVIOUS
      <3>. QED BY <1>1, <3>2, <3>3 DEF Job
    <2>. HIDE DEF next
    <2>3. tail' \in Seq(Job) /\ tail' # <<>> /\ tail'[1] = next /\ PauseInv'
      BY <1>1, <1>2, <2>1, <2>2, HeadKeeps
    <2>4. TypeOK'
      BY <1>2, <2>1, <2>3, RequestSent DEF IInv, TypeOK
    <2>5. WorkerInv'
      <3>1. \A i, j \in 1..Len(wq') : wq'[i] = wq'[j] /\ wq'[i] \in {"job", "pause"} => i = j
        BY <1>3, <2>1, RequestSent
      <3>2. Pending("pause")' => pauseOp' = "leasing"
        BY <1>2, <2>1, RequestSent DEF IInv, WorkerInv
      <3>. QED BY <2>2, <2>3, <3>1, <3>2 DEF WorkerInv
    <2>6. ResumeInv'
      <3>1. Pending("resume")' => Pending("resume")
        BY <2>1, RequestSent
      <3>2. sinceResume =>
               \A i, j \in 1..Len(wq') : wq'[i] = "pause" /\ wq'[j] = "resume" => j < i
        BY <2>1, RequestSent
      <3>. QED BY <1>2, <3>1, <3>2 DEF IInv, ResumeInv
    <2>7. CloseInv' /\ RunningIsLeased'
      BY <1>2 DEF IInv, CloseInv, RunningIsLeased
    <2>. QED BY <2>3, <2>4, <2>5, <2>6, <2>7 DEF IInv
  <1>. QED BY <1>4, <1>5

\* The pause is sent behind every request that is older than it.
LEMMA PauseDrainedKeeps == IInv /\ PauseDrained => IInv'
  <1>. SUFFICES ASSUME IInv, PauseDrained PROVE IInv'
    OBVIOUS
  <1>1. /\ pauseOp = "draining" /\ behind = 0 /\ state # "paused" /\ state # "running"
        /\ Quiet(1) /\ ~Pending("pause")
    BY DEF IInv, PauseInv, WorkerInv, PauseDrained, Quiet
  <1>2. UNCHANGED <<state, tail, behind, written, worker, plugin, backend, closing, forced, release, profile,
                    adapter, gone, orphan, grace, sinceResume>>
    BY DEF PauseDrained, closeVars, callerVars
  <1>3. \/ pauseOp' = "leasing" /\ wq' = Append(wq, "pause")
        \/ pauseOp' = "none" /\ UNCHANGED wq
    BY DEF PauseDrained
  <1>4. TypeOK'
    BY <1>2, <1>3, RequestSent DEF IInv, TypeOK
  <1>5. PauseInv'
    BY <1>1, <1>2, <1>3 DEF PauseInv, Quiet
  <1>6. WorkerInv' /\ ResumeInv'
    <2>1. CASE pauseOp' = "leasing" /\ wq' = Append(wq, "pause")
      <3>1. /\ \A i, j \in 1..Len(wq') : wq'[i] = wq'[j] /\ wq'[i] \in {"job", "pause"} => i = j
            /\ Pending("job")' => Pending("job")
            /\ sinceResume =>
                 \A i, j \in 1..Len(wq') : wq'[i] = "pause" /\ wq'[j] = "resume" => j < i
        BY <1>1, <2>1, RequestSent
      <3>. QED BY <1>1, <1>2, <2>1, <3>1 DEF IInv, WorkerInv, ResumeInv
    <2>2. CASE pauseOp' = "none" /\ UNCHANGED wq
      BY <1>1, <1>2, <2>2 DEF IInv, WorkerInv, ResumeInv, Pending
    <2>. QED BY <1>3, <2>1, <2>2
  <1>7. CloseInv' /\ RunningIsLeased'
    BY <1>2 DEF IInv, CloseInv, RunningIsLeased
  <1>. QED BY <1>4, <1>5, <1>6, <1>7 DEF IInv

\* An accepted resume forgets the pauses before it.
LEMMA ResumeRequestKeeps == IInv /\ ResumeRequest => IInv'
  <1>. SUFFICES ASSUME IInv, ResumeRequest PROVE IInv'
    OBVIOUS
  <1>1. wq' = Append(wq, "resume") /\ sinceResume' = FALSE /\ sinceResume' \in BOOLEAN
    BY DEF ResumeRequest
  <1>2. UNCHANGED <<state, tail, pauseOp, behind, written, worker, plugin, backend, closing, forced, release,
                    profile, adapter, gone, orphan, grace>>
    BY DEF ResumeRequest, pauseVars, closeVars, callerVars
  <1>3. TypeOK'
    BY <1>1, <1>2, RequestSent DEF IInv, TypeOK
  <1>4. PauseInv'
    BY <1>2 DEF IInv, PauseInv, Quiet
  <1>5. WorkerInv'
    <2>1. /\ \A i, j \in 1..Len(wq') : wq'[i] = wq'[j] /\ wq'[i] \in {"job", "pause"} => i = j
          /\ \A q : Pending(q)' => q = "resume" \/ Pending(q)
      BY <1>1, RequestSent
    <2>. QED BY <1>2, <2>1 DEF IInv, WorkerInv
  <1>6. ResumeInv'
    BY <1>1 DEF ResumeInv
  <1>7. CloseInv' /\ RunningIsLeased'
    BY <1>2 DEF IInv, CloseInv, RunningIsLeased
  <1>. QED BY <1>3, <1>4, <1>5, <1>6, <1>7 DEF IInv

\* The answer to the head job's request: the queue goes on, or its head does.
LEMMA JobAnsweredKeeps ==
    ASSUME IInv, NEW ok \in BOOLEAN, wq # <<>>, Head(wq) = "job", wq' = Tail(wq), JobAnswered(ok),
           UNCHANGED <<state, pauseOp, sinceResume>>
    PROVE  tail' \in Seq(Job) /\ behind' \in Nat /\ PauseInv' /\ WorkerInv' /\ ResumeInv'
  <1>. DEFINE job == Head(tail)
              left == IF ok THEN job.left ELSE 0
              next == [job EXCEPT !.sent = FALSE, !.left = left]
  <1>1. tail # <<>>
    BY RequestTaken DEF IInv, WorkerInv
  <1>2. job \in Job /\ job = tail[1]
    BY <1>1, TailShifts DEF IInv, TypeOK
  <1>3. next \in Job /\ next.kind = tail[1].kind
    <2>1. left \in 0..MaxSteps
      BY <1>2, BoundsAssumption DEF Job
    <2>. QED BY <1>2, <2>1 DEF Job
  <1>4. \/ Settle
        \/ tail' = [tail EXCEPT ![1] = next] /\ UNCHANGED behind
    BY DEF JobAnswered
  <1>. HIDE DEF next
  <1>5. tail' \in Seq(Job) /\ behind' \in Nat /\ PauseInv'
    <2>1. CASE Settle
      BY <1>1, <2>1, SettleKeeps
    <2>2. CASE tail' = [tail EXCEPT ![1] = next] /\ UNCHANGED behind
      BY <1>1, <1>3, <2>2, HeadKeeps DEF IInv, TypeOK
    <2>. QED BY <1>4, <2>1, <2>2
  <1>6. WorkerInv'
    BY RequestTaken DEF IInv, WorkerInv
  <1>7. ResumeInv'
    BY RequestTaken DEF IInv, ResumeInv
  <1>. QED BY <1>5, <1>6, <1>7

LEMMA WorkerAnswerKeeps == IInv /\ WorkerAnswer => IInv'
  <1>. SUFFICES ASSUME IInv, WorkerAnswer PROVE IInv'
    OBVIOUS
  <1>1. wq # <<>> /\ wq' = Tail(wq) /\ written' \in Nat
    BY DEF IInv, TypeOK, WorkerAnswer
  <1>2. UNCHANGED <<worker, backend, closing, forced, release, profile, adapter, gone, orphan, grace,
                    sinceResume>>
    BY DEF WorkerAnswer, closeVars, callerVars
  <1>3. PICK ok \in BOOLEAN :
           \/ Head(wq) = "job" /\ JobAnswered(ok) /\ UNCHANGED <<state, pauseOp, plugin>>
           \/ Head(wq) = "pause" /\ PauseAnswered(ok) /\ UNCHANGED <<tail, behind>>
           \/ Head(wq) = "resume" /\ ResumeAnswered(ok) /\ UNCHANGED <<tail, behind>>
    BY DEF WorkerAnswer
  <1>4. CASE Head(wq) = "job" /\ JobAnswered(ok) /\ UNCHANGED <<state, pauseOp, plugin>>
    <2>1. tail' \in Seq(Job) /\ behind' \in Nat /\ PauseInv' /\ WorkerInv' /\ ResumeInv'
      BY <1>1, <1>2, <1>4, JobAnsweredKeeps
    <2>2. TypeOK' /\ CloseInv' /\ RunningIsLeased'
      BY <1>1, <1>2, <1>4, <2>1, RequestTaken DEF IInv, TypeOK, CloseInv, RunningIsLeased
    <2>. QED BY <2>1, <2>2 DEF IInv
  <1>5. CASE Head(wq) = "pause" /\ PauseAnswered(ok) /\ UNCHANGED <<tail, behind>>
    <2>1. /\ pauseOp = "leasing" /\ state \notin {"running", "paused"} /\ Quiet(1)
          /\ ~Pending("pause")'
      BY <1>1, <1>5, RequestTaken DEF IInv, WorkerInv, PauseInv
    <2>2. /\ pauseOp' \in {"held", "none"} /\ state' \in {state, "paused"} /\ plugin' \in {plugin, "paused"}
          /\ state' = "paused" => pauseOp' = "held" /\ Open
      BY <1>5, <2>1 DEF PauseAnswered
    <2>3. TypeOK'
      BY <1>1, <1>2, <1>5, <2>2, RequestTaken DEF IInv, TypeOK
    <2>4. PauseInv'
      BY <1>5, <2>1, <2>2 DEF PauseInv, Quiet
    <2>5. WorkerInv'
      BY <1>1, <1>5, <2>1, RequestTaken DEF IInv, WorkerInv
    <2>6. ResumeInv'
      BY <1>1, <1>2, <1>5, <2>1, <2>2, RequestTaken DEF IInv, ResumeInv
    <2>7. CloseInv'
      BY <1>2, <2>2 DEF IInv, CloseInv, Open
    <2>8. RunningIsLeased'
      BY <2>1, <2>2 DEF RunningIsLeased
    <2>. QED BY <2>3, <2>4, <2>5, <2>6, <2>7, <2>8 DEF IInv
  <1>6. CASE Head(wq) = "resume" /\ ResumeAnswered(ok) /\ UNCHANGED <<tail, behind>>
    <2>1. \/ /\ Open /\ state # "pausing" /\ state' = "running" /\ pauseOp' = "none" /\ plugin' = "active"
          \/ UNCHANGED <<state, pauseOp>> /\ plugin' \in {plugin, "active"}
      BY <1>6 DEF ResumeAnswered
    <2>2. TypeOK'
      BY <1>1, <1>2, <1>6, <2>1, RequestTaken DEF IInv, TypeOK
    <2>3. PauseInv'
      BY <1>6, <2>1 DEF IInv, PauseInv, Quiet
    <2>4. WorkerInv'
      <3>1. Open /\ state # "pausing" => pauseOp # "leasing"
        BY DEF Open, IInv, TypeOK, PauseInv
      <3>. QED BY <1>1, <1>6, <2>1, <3>1, RequestTaken DEF IInv, WorkerInv
    <2>5. ResumeInv'
      <3>1. Open /\ state # "pausing" => ~sinceResume
        BY <1>1, <1>6, RequestTaken DEF Open, IInv, TypeOK, ResumeInv
      <3>. QED BY <1>1, <1>2, <2>1, <3>1, RequestTaken DEF IInv, ResumeInv
    <2>6. CloseInv' /\ RunningIsLeased'
      BY <1>2, <2>1 DEF IInv, CloseInv, RunningIsLeased, Open
    <2>. QED BY <2>2, <2>3, <2>4, <2>5, <2>6 DEF IInv
  <1>. QED BY <1>3, <1>4, <1>5, <1>6

LEMMA WorkerRejectKeeps == IInv /\ WorkerReject => IInv'
  <1>. SUFFICES ASSUME IInv, WorkerReject PROVE IInv'
    OBVIOUS
  <1>1. wq # <<>> /\ wq' = Tail(wq)
    BY DEF WorkerReject
  <1>2. UNCHANGED <<state, written, worker, plugin, backend, closing, forced, release, profile, adapter, gone,
                    orphan, grace, sinceResume>>
    BY DEF WorkerReject, closeVars, callerVars
  <1>3. CASE Head(wq) = "job" /\ JobAnswered(FALSE) /\ UNCHANGED pauseOp
    <2>1. tail' \in Seq(Job) /\ behind' \in Nat /\ PauseInv' /\ WorkerInv' /\ ResumeInv'
      BY <1>1, <1>2, <1>3, JobAnsweredKeeps
    <2>2. TypeOK' /\ CloseInv' /\ RunningIsLeased'
      BY <1>1, <1>2, <1>3, <2>1, RequestTaken DEF IInv, TypeOK, CloseInv, RunningIsLeased
    <2>. QED BY <2>1, <2>2 DEF IInv
  <1>4. CASE Head(wq) \in {"pause", "resume"} /\ pauseOp' \in {pauseOp, "none"} /\ UNCHANGED <<tail, behind>>
             /\ (Head(wq) = "resume" => UNCHANGED pauseOp)
    <2>1. Head(wq) = "pause" => pauseOp = "leasing" /\ ~Pending("pause")'
      BY <1>1, RequestTaken DEF IInv, WorkerInv
    <2>2. TypeOK'
      BY <1>1, <1>2, <1>4, RequestTaken DEF IInv, TypeOK
    <2>3. PauseInv'
      BY <1>2, <1>4, <2>1 DEF IInv, PauseInv, Quiet
    <2>4. WorkerInv'
      BY <1>1, <1>4, <2>1, RequestTaken DEF IInv, WorkerInv
    <2>5. ResumeInv'
      BY <1>1, <1>2, RequestTaken DEF IInv, ResumeInv
    <2>6. CloseInv' /\ RunningIsLeased'
      BY <1>2 DEF IInv, CloseInv, RunningIsLeased
    <2>. QED BY <2>2, <2>3, <2>4, <2>5, <2>6 DEF IInv
  <1>. QED BY <1>3, <1>4 DEF WorkerReject

\* The steps that only end, close or release something, or watch the adapter.
LEMMA CloseStepsKeep ==
    ASSUME IInv,
           WorkerEnds \/ CloseOk \/ CloseFails \/ CloseFinish \/ ForceClose \/ ReleaseAnswered
             \/ OtherClaims \/ AdapterDies \/ AdapterTouch \/ UNCHANGED vars
    PROVE  IInv'
  <1>1. UNCHANGED <<tail, pauseOp, behind, wq, plugin, sinceResume>> /\ state' \in {state, "closed"}
    BY DEF WorkerEnds, CloseOk, CloseFails, CloseFinish, ForceClose, ReleaseAnswered, OtherClaims,
           AdapterDies, AdapterTouch, vars, pauseVars, workerVars
  <1>2. PauseInv' /\ WorkerInv' /\ ResumeInv'
    BY <1>1 DEF IInv, PauseInv, WorkerInv, ResumeInv, Quiet, Pending
  <1>3. CloseInv'
    BY DEF IInv, TypeOK, CloseInv, WorkerEnds, CloseOk, CloseFails, CloseFinish, ForceClose,
           ReleaseAnswered, OtherClaims, AdapterDies, AdapterTouch, vars, closeVars
  <1>4. RunningIsLeased'
    BY <1>1 DEF IInv, TypeOK, RunningIsLeased, WorkerEnds, CloseOk, CloseFails, CloseFinish, ForceClose,
           ReleaseAnswered, OtherClaims, AdapterDies, AdapterTouch, vars, workerVars
  <1>5. TypeOK'
    <2>. USE <1>1 DEF IInv, TypeOK, workerVars, closeVars, callerVars, vars
    <2>1. CASE WorkerEnds  BY <2>1 DEF WorkerEnds
    <2>2. CASE CloseOk  BY <2>2 DEF CloseOk
    <2>3. CASE CloseFails  BY <2>3 DEF CloseFails
    <2>4. CASE CloseFinish  BY <2>4 DEF CloseFinish
    <2>5. CASE ForceClose  BY <2>5 DEF ForceClose
    <2>6. CASE ReleaseAnswered  BY <2>6 DEF ReleaseAnswered
    <2>7. CASE OtherClaims  BY <2>7 DEF OtherClaims
    <2>8. CASE AdapterDies  BY <2>8 DEF AdapterDies
    <2>9. CASE AdapterTouch
      <3>1. adapter' = "up" /\ gone' \in BOOLEAN /\ orphan' \in BOOLEAN /\ grace' \in BOOLEAN
        BY <2>9 DEF AdapterTouch
      <3>2. UNCHANGED <<state, behind, written, worker, backend, closing, forced, release, profile>>
        BY <2>9 DEF AdapterTouch, pauseVars
      <3>. QED BY <3>1, <3>2
    <2>10. CASE UNCHANGED vars  BY <2>10
    <2>. QED BY <2>1, <2>2, <2>3, <2>4, <2>5, <2>6, <2>7, <2>8, <2>9, <2>10
  <1>. QED BY <1>2, <1>3, <1>4, <1>5 DEF IInv

LEMMA InitHolds == Init => IInv
  <1>. SUFFICES ASSUME Init PROVE IInv
    OBVIOUS
  <1>1. TypeOK
    <2>1. tail \in Seq(Job) /\ wq \in Seq({"job", "pause", "resume"})
      BY DEF Init
    <2>2. forced \in BOOLEAN /\ gone \in BOOLEAN /\ orphan \in BOOLEAN /\ grace \in BOOLEAN
      BY DEF Init
    <2>. QED BY <2>1, <2>2 DEF Init, TypeOK
  <1>2. PauseInv /\ WorkerInv /\ ResumeInv /\ CloseInv /\ RunningIsLeased
    BY DEF Init, PauseInv, WorkerInv, ResumeInv, CloseInv, RunningIsLeased, Quiet, Pending
  <1>. QED BY <1>1, <1>2 DEF IInv

LEMMA StepKeeps == IInv /\ [Next]_vars => IInv'
  <1>. SUFFICES ASSUME IInv, [Next]_vars PROVE IInv'
    OBVIOUS
  <1>1. CASE Act \/ ActBatch \/ Control \/ Reveal
    <2>. DEFINE single(kind) == Single(kind) \in Job /\ ~Single(kind).sent /\ Single(kind).kind = kind
    <2>5. \A kind \in Kinds : single(kind)
      <3>1. 1 \in 0..MaxSteps
        BY BoundsAssumption
      <3>. QED BY <3>1 DEF Single, Job
    <2>1. CASE Act
      <3>1. single("act")
        BY <2>5 DEF Kinds
      <3>. QED BY <2>1, <3>1, EnqueueKeeps DEF Act
    <2>2. CASE ActBatch
      <3>1. PICK n \in 1..MaxSteps, c \in BOOLEAN : state = "running" /\ Enqueue(Batch(n, c))
        BY <2>2 DEF ActBatch
      <3>2. Batch(n, c) \in Job /\ ~Batch(n, c).sent
        BY BoundsAssumption DEF Batch, Job, Kinds
      <3>. QED BY <3>1, <3>2, EnqueueKeeps
    <2>3. CASE Control
      <3>1. single("control") /\ "control" \notin AgentKinds
        BY <2>5 DEF Kinds, AgentKinds
      <3>. QED BY <2>3, <3>1, EnqueueKeeps DEF Control
    <2>4. CASE Reveal
      <3>1. single("reveal") /\ "reveal" \notin AgentKinds
        BY <2>5 DEF Kinds, AgentKinds
      <3>. QED BY <2>4, <3>1, EnqueueKeeps DEF Reveal
    <2>. QED BY <1>1, <2>1, <2>2, <2>3, <2>4
  <1>2. CASE PauseRequest \/ Sweep \/ Detach
    BY <1>2, PauseRequestKeeps, AdapterGoneKeeps DEF Sweep, Detach
  <1>3. CASE WorkerEndStops \/ StopRequest \/ GraceEnds
    BY <1>3, StopKeeps DEF WorkerEndStops, GraceEnds
  <1>4. CASE JobStep \/ PauseDrained \/ ResumeRequest \/ WorkerAnswer \/ WorkerReject
    BY <1>4, JobStepKeeps, PauseDrainedKeeps, ResumeRequestKeeps, WorkerAnswerKeeps, WorkerRejectKeeps
  <1>5. CASE WorkerEnds \/ CloseOk \/ CloseFails \/ CloseFinish \/ ForceClose \/ ReleaseAnswered
               \/ OtherClaims \/ AdapterDies \/ AdapterTouch \/ UNCHANGED vars
    BY <1>5, CloseStepsKeep
  <1>. QED BY <1>1, <1>2, <1>3, <1>4, <1>5 DEF Next

THEOREM InductiveInvariant == Spec => []IInv
  BY InitHolds, StepKeeps, PTL DEF Spec

-----------------------------------------------------------------------------
(* What follows.                                                            *)

\* Every variable keeps its type: the broker's session record, the worker's
\* queue and the caller registry's entry.
THEOREM TypeCorrect == Spec => []TypeOK
  BY InductiveInvariant, PTL DEF IInv

\* pause answers only once the queue before it has drained (session.ts, pause),
\* and act refuses agent work from the moment the pause was requested.
THEOREM PauseDrains == Spec => []PausedIsQuiet
  <1>1. IInv => PausedIsQuiet
    BY DEF IInv, PauseInv, Quiet, PausedIsQuiet, TypeOK
  <1>. QED BY <1>1, InductiveInvariant, PTL

\* A resume answered while a newer pause is pending changes nothing
\* (session.ts, session.resume).
THEOREM NewerPauseWins == Spec => []PauseBeatsOlderResume
  <1>1. IInv => PauseBeatsOlderResume
    BY DEF IInv, ResumeInv, PauseBeatsOlderResume
  <1>. QED BY <1>1, InductiveInvariant, PTL

\* A pause keeps both its promises (session.ts, pause and session.resume).
THEOREM PauseKeepsItsWord == Spec => []PauseHolds
  BY PauseDrains, NewerPauseWins, PTL DEF PauseHolds

\* The broker's state follows the compositor's lease (session.ts, pause and
\* session.resume change the state only on the worker's answer).
THEOREM RunningHoldsLease == Spec => []RunningIsLeased
  BY InductiveInvariant, PTL DEF IInv

\* Types and lease together: the record a reader of status sees (session.ts).
THEOREM RecordStaysTrue == Spec => []RecordTrue
  BY TypeCorrect, RunningHoldsLease, PTL DEF RecordTrue

\* Only a finished or a forced close gives the profile key away (session.ts,
\* stop and forceClose).
THEOREM KeyHeld == Spec => []KeyHeldUntilClosed
  <1>1. IInv => KeyHeldUntilClosed
    BY DEF IInv, CloseInv, KeyHeldUntilClosed
  <1>. QED BY <1>1, InductiveInvariant, PTL

\* The late end of a close that was forced leaves the key of the next session
\* alone (session.ts, the forcedClosed test in stop).
THEOREM KeySafe == Spec => KeyNotStolen
  <1>1. IInv /\ [Next]_vars => (profile = "other" => profile' = "other")
    <2>. SUFFICES ASSUME IInv, [Next]_vars, profile = "other" PROVE profile' = "other"
      OBVIOUS
    <2>1. state = "closed" /\ (closing # "done" => forced)
      BY DEF IInv, CloseInv
    <2>. QED
      BY <2>1 DEF Next, Act, ActBatch, Control, Reveal, Enqueue, JobStep, PauseRequest, PauseDrained,
           ResumeRequest, WorkerAnswer, WorkerReject, WorkerEnds, WorkerEndStops, StopRequest, CloseOk,
           CloseFails, CloseFinish, ForceClose, ReleaseAnswered, OtherClaims, AdapterDies, Sweep, Detach,
           AdapterGone, AdapterTouch, GraceEnds, closeVars, vars
  <1>. QED BY <1>1, InductiveInvariant, PTL DEF Spec, KeyNotStolen

\* Whatever answer arrives after a stop, the session stays on its way out
\* (session.ts, ensureOpen before every change of the state).
THEOREM StopFinal == Spec => StopIsFinal
  <1>. DEFINE Final == /\ state = "closed" => state' = "closed"
                       /\ state = "closing" => state' \in {"closing", "closed"}
  <1>1. [Next]_vars => Final
    BY DEF Next, Act, ActBatch, Control, Reveal, Enqueue, JobStep, PauseRequest, Pause, PauseDrained,
         ResumeRequest, WorkerAnswer, PauseAnswered, ResumeAnswered, WorkerReject, WorkerEnds,
         WorkerEndStops, StopRequest, Stop, CloseOk, CloseFails, CloseFinish, ForceClose,
         ReleaseAnswered, OtherClaims, AdapterDies, Sweep, Detach, AdapterGone, AdapterTouch,
         GraceEnds, vars, Open
  <1>. QED BY <1>1, PTL DEF Spec, StopIsFinal

\* A stop stands against everything that comes late (Sessions.stop, forceClose).
THEOREM StoppingStands == Spec => StopStands
  BY StopFinal, KeySafe DEF StopStands

-----------------------------------------------------------------------------
(***************************************************************************)
(* The Codex gates, CodexGate and CodexIpc.  GateInv is inductive under     *)
(* the steps of the authority gate, CodexInv under those of the IPC gate    *)
(* too.                                                                    *)
(***************************************************************************)
RunningReads(kind) == {r \in Requests : Asked[r].kind = kind /\ work[r].call = "running"}

\* What a client waits for it asked itself, is on offer no more and is not answered yet.
Awaited ==
    /\ \A c \in Clients \cup StateClients : \A r \in conn[c].pending :
          Asked[r].client = c /\ r \notin offer /\ answers[r] = <<>>
    /\ \A c \in Clients : \A r \in conn[c].pending : Asked[r].kind \notin Read

\* A request on offer has left no trace.
Untouched == \A r \in offer : answers[r] = <<>> /\ work[r].call = "none"

\* A reader runs for a page of a client, and while its race is open nothing is answered.
Racing == \A r \in Requests :
    /\ work[r].race = "open" => work[r].call = "running" /\ answers[r] = <<>>
    /\ work[r].call = "running" => Asked[r].kind \in Read /\ Asked[r].client \in Clients

AnsweredAtMost == \A r \in Requests : Len(answers[r]) <= 1

Counted == \A kind \in Read :
    /\ IsFiniteSet(RunningReads(kind))
    /\ readers[kind] = Cardinality(RunningReads(kind)) /\ readers[kind] <= MaxReaders

\* A turn a client was given was accepted by the owner.
Accepted == \A r \in TurnRequests :
    Asked[r].client \in Clients /\ answers[r] = <<"data">> => r \in owner.answered

\* After the end of a turn no note is about it.
EndedLast(notes) == \A i, j \in DOMAIN notes :
    notes[i].what = "completed" /\ notes[i].turn # None /\ i < j => notes[j].turn # notes[i].turn

\* What is kept is clean, and an end that is kept was the last the owner said of its turn.
Kept(notes) ==
    /\ \A i \in DOMAIN notes : notes[i].clean
    /\ \A i \in DOMAIN notes : notes[i].what = "completed" /\ notes[i].turn # None
                                  => owner.stage[notes[i].turn] = 3
    /\ EndedLast(notes)

\* The end of a turn was not told to the client.
NotEnded(c, t) == \A i \in DOMAIN told[c] : told[c][i].turn = t => told[c][i].what # "completed"

\* A scope waits for the answer of its turn, or its turn was accepted and has not ended.
Scoped(c, s) ==
    /\ Asked[s.by].client = c
    /\ s.turn = None => s.count = 0 /\ s.by \in conn[c].pending
    /\ s.turn # None => /\ s.turn = s.by /\ answers[s.by] = <<"data">> /\ NotEnded(c, s.by)
    /\ Kept(s.buffered)
Scopes == \A c \in Clients : conn[c].scope # None => Scoped(c, conn[c].scope)

TurnAwaited == \A c \in Clients : \A r \in TurnRequests :
    r \in conn[c].pending => conn[c].scope # None /\ conn[c].scope.by = r

\* A turn is looked for when a client was given it.
PolledTurns == \A r \in TurnRequests :
    poll[r].phase # "off" => Asked[r].client \in Clients /\ answers[r] = <<"data">>

ToldTo == \A c \in Clients :
    /\ \A i \in DOMAIN told[c] :
          /\ told[c][i].clean /\ told[c][i].turn # None
          /\ Asked[told[c][i].turn].client = c /\ answers[told[c][i].turn] = <<"data">>
    /\ EndedLast(told[c])

\* What was answered with data stays so.
DataStays == \A q \in Requests : answers[q] = <<"data">> => answers'[q] = <<"data">>

GateInv == /\ GateTypeOK /\ Awaited /\ Untouched /\ Racing /\ AnsweredAtMost /\ Counted /\ Accepted
           /\ Scopes /\ TurnAwaited /\ PolledTurns /\ ToldTo

FreshLinks == \A l \in Links : ipc[l].link \in {"idle", "early"} => ipc[l].client = "unknown"
Submitting == /\ submit.phase = "off" <=> submit.for = None
              /\ ~textUsed => \A l \in Links : submitted[l] = 0

-----------------------------------------------------------------------------
(* Facts about sets, sequences and the operator that picks notes.            *)

\* A number below a bound has its successor within the bound.
LEMMA UpTo ==
    ASSUME NEW b \in Nat, NEW m \in 0 .. b, m + 1 <= b
    PROVE  m \in Nat /\ m + 1 \in 0 .. b
  OBVIOUS

\* What holds of 0 and of the successor of each number it holds of holds of every number.
LEMMA NumberInduction ==
    ASSUME NEW T, 0 \in T, \A n \in Nat : n \in T => n + 1 \in T
    PROVE  \A n \in Nat : n \in T
<1> SUFFICES ASSUME NEW n \in Nat, n \notin T PROVE FALSE OBVIOUS
<1> DEFINE A == T \cap (0 .. n)
           B == A \ {0}
           f == [x \in A |-> x + 1]
<1>1. IsFiniteSet(A)
  <2>1. IsFiniteSet(0 .. n) BY FS_Interval
  <2> QED BY <2>1, FS_Subset
<1>2. B \in SUBSET A /\ B # A OBVIOUS
<1>3. f \in Injection(A, B) BY DEF Injection, IsInjective
<1> HIDE DEF A, B, f
<1>4. /\ IsFiniteSet(B) /\ Cardinality(B) <= Cardinality(A)
      /\ Cardinality(A) # Cardinality(B)
    BY <1>1, <1>2, FS_Subset
<1>5. Cardinality(A) <= Cardinality(B) BY <1>3, <1>4, FS_Injection
<1> QED BY <1>1, <1>4, <1>5, FS_CardinalityType

\* The function that About recurs through, up to n.
Picks(f, r, notes, n) == f = [i \in 0 .. n |->
    IF i = 0 THEN <<>>
    ELSE IF IsFor(r, notes[i]) THEN Append(f[i - 1], notes[i]) ELSE f[i - 1]]

\* There is such a function, and About is its last value.
LEMMA AboutPicks ==
    ASSUME NEW r, NEW notes, Len(notes) \in Nat
    PROVE  \E f : Picks(f, r, notes, Len(notes)) /\ About(r, notes) = f[Len(notes)]
<1> DEFINE f == CHOOSE f : Picks(f, r, notes, Len(notes))
           T == {n \in Nat : \E g : Picks(g, r, notes, n)}
<1>1. \A n \in Nat : n \in T
  <2>1. 0 \in T
    <3>1. Picks([i \in 0 .. 0 |-> <<>>], r, notes, 0) BY DEF Picks
    <3> QED BY <3>1
  <2>2. ASSUME NEW n \in Nat, n \in T PROVE n + 1 \in T
    <3>1. PICK g : Picks(g, r, notes, n) BY <2>2
    <3> DEFINE h == [i \in 0 .. n + 1 |->
                       IF i = n + 1
                       THEN IF IsFor(r, notes[i]) THEN Append(g[n], notes[i]) ELSE g[n]
                       ELSE g[i]]
               k == [i \in 0 .. n + 1 |->
                       IF i = 0 THEN <<>>
                       ELSE IF IsFor(r, notes[i]) THEN Append(h[i - 1], notes[i]) ELSE h[i - 1]]
    <3>2. \A i \in 0 .. n : h[i] = g[i] OBVIOUS
    <3>3. \A i \in 0 .. n + 1 : h[i] = k[i]
      <4> TAKE i \in 0 .. n + 1
      <4>1. CASE i = n + 1 BY <4>1, <3>2
      <4>2. CASE i # n + 1
        <5>1. i \in 0 .. n /\ (i # 0 => i - 1 \in 0 .. n) BY <4>2
        <5>2. g[i] = IF i = 0 THEN <<>>
                     ELSE IF IsFor(r, notes[i]) THEN Append(g[i - 1], notes[i]) ELSE g[i - 1]
            BY <3>1, <5>1 DEF Picks
        <5>3. h[i] = g[i] /\ (i # 0 => h[i - 1] = g[i - 1]) BY <3>2, <5>1
        <5> HIDE DEF h
        <5> QED BY <5>2, <5>3
      <4> QED BY <4>1, <4>2
    <3>4. h = k BY <3>3
    <3>5. Picks(h, r, notes, n + 1)
      <4> HIDE DEF h
      <4> QED BY <3>4 DEF Picks
    <3> QED BY <3>5
  <2> HIDE DEF T
  <2> QED BY <2>1, <2>2, NumberInduction
<1>2. \E g : Picks(g, r, notes, Len(notes)) BY <1>1
<1>3. Picks(f, r, notes, Len(notes)) BY <1>2, Zenon
<1>4. About(r, notes) = f[Len(notes)] BY DEF About, Picks
<1> HIDE DEF f
<1> QED BY <1>3, <1>4

\* t is made of elements of the first n of s, in their order, and each passes for r.
PickedFrom(t, r, s, n) ==
    /\ \A i \in 1 .. Len(t) : IsFor(r, t[i]) /\ \E a \in 1 .. n : t[i] = s[a]
    /\ \A i, j \in 1 .. Len(t) : i < j => \E a, b \in 1 .. n : a < b /\ t[i] = s[a] /\ t[j] = s[b]

\* What About picks is notes of the turn, in their order.
LEMMA AboutPicked ==
    ASSUME NEW S, NEW r, NEW s \in Seq(S)
    PROVE  About(r, s) \in Seq(S) /\ PickedFrom(About(r, s), r, s, Len(s))
<1>1. Len(s) \in Nat /\ DOMAIN s = 1 .. Len(s) OBVIOUS
<1>2. PICK f : Picks(f, r, s, Len(s)) /\ About(r, s) = f[Len(s)] BY <1>1, AboutPicks
<1> DEFINE T == {n \in Nat : n <= Len(s) => f[n] \in Seq(S) /\ PickedFrom(f[n], r, s, n)}
<1>3. \A n \in Nat : n \in T
  <2>1. 0 \in T
    <3>1. f[0] = <<>> BY <1>1, <1>2 DEF Picks
    <3>2. <<>> \in Seq(S) /\ Len(<<>>) = 0 OBVIOUS
    <3>3. PickedFrom(<<>>, r, s, 0) BY <3>2 DEF PickedFrom
    <3> QED BY <3>1, <3>2, <3>3
  <2>2. ASSUME NEW n \in Nat, n \in T PROVE n + 1 \in T
    <3> SUFFICES ASSUME n + 1 <= Len(s) PROVE f[n + 1] \in Seq(S) /\ PickedFrom(f[n + 1], r, s, n + 1)
        OBVIOUS
    <3>1. n \in 0 .. Len(s) /\ n + 1 \in 0 .. Len(s) /\ n + 1 \in 1 .. Len(s) /\ n + 1 # 0 BY <1>1
    <3>2. f[n] \in Seq(S) /\ PickedFrom(f[n], r, s, n) BY <2>2, <1>1
    <3>3. s[n + 1] \in S BY <3>1
    <3>4. f[n + 1] = IF IsFor(r, s[n + 1]) THEN Append(f[n], s[n + 1]) ELSE f[n]
      <4>1. (n + 1) - 1 = n OBVIOUS
      <4> QED BY <3>1, <4>1, <1>2 DEF Picks
    <3>5. CASE ~IsFor(r, s[n + 1])
      <4>1. f[n + 1] = f[n] BY <3>4, <3>5
      <4>2. 1 .. n \subseteq 1 .. n + 1 BY <1>1
      <4> QED BY <3>2, <4>1, <4>2 DEF PickedFrom
    <3>6. CASE IsFor(r, s[n + 1])
      <4> DEFINE t == f[n]
                 u == Append(t, s[n + 1])
      <4>1. f[n + 1] = u BY <3>4, <3>6
      <4>2. /\ u \in Seq(S) /\ Len(u) = Len(t) + 1 /\ Len(t) \in Nat /\ u[Len(t) + 1] = s[n + 1]
            /\ \A i \in 1 .. Len(t) : u[i] = t[i]
          BY <3>2, <3>3
      <4> HIDE DEF u
      <4>3. \A i \in 1 .. Len(u) : IsFor(r, u[i]) /\ \E a \in 1 .. n + 1 : u[i] = s[a]
        <5> TAKE i \in 1 .. Len(u)
        <5>1. CASE i = Len(t) + 1 BY <5>1, <4>2, <3>6, <3>1
        <5>2. CASE i # Len(t) + 1
          <6>1. i \in 1 .. Len(t) BY <5>2, <4>2
          <6>2. PICK a \in 1 .. n : t[i] = s[a] BY <6>1, <3>2 DEF PickedFrom
          <6>3. IsFor(r, t[i]) BY <6>1, <3>2 DEF PickedFrom
          <6>4. a \in 1 .. n + 1 OBVIOUS
          <6> QED BY <6>1, <6>2, <6>3, <6>4, <4>2
        <5> QED BY <5>1, <5>2
      <4>4. \A i, j \in 1 .. Len(u) : i < j =>
              \E a, b \in 1 .. n + 1 : a < b /\ u[i] = s[a] /\ u[j] = s[b]
        <5> SUFFICES ASSUME NEW i \in 1 .. Len(u), NEW j \in 1 .. Len(u), i < j
                     PROVE  \E a, b \in 1 .. n + 1 : a < b /\ u[i] = s[a] /\ u[j] = s[b]
            OBVIOUS
        <5>1. i \in 1 .. Len(t) BY <4>2
        <5>2. CASE j = Len(t) + 1
          <6>1. PICK a \in 1 .. n : t[i] = s[a] BY <5>1, <3>2 DEF PickedFrom
          <6>2. a \in 1 .. n + 1 /\ n + 1 \in 1 .. n + 1 /\ a < n + 1 OBVIOUS
          <6> QED BY <6>1, <6>2, <5>1, <5>2, <4>2
        <5>3. CASE j # Len(t) + 1
          <6>1. j \in 1 .. Len(t) BY <5>3, <4>2
          <6>2. PICK a \in 1 .. n, b \in 1 .. n : a < b /\ t[i] = s[a] /\ t[j] = s[b]
              BY <5>1, <6>1, <3>2 DEF PickedFrom
          <6>3. a \in 1 .. n + 1 /\ b \in 1 .. n + 1 OBVIOUS
          <6> QED BY <5>1, <6>1, <6>2, <6>3, <4>2
        <5> QED BY <5>2, <5>3
      <4> QED BY <4>1, <4>2, <4>3, <4>4 DEF PickedFrom
    <3> QED BY <3>5, <3>6
  <2> HIDE DEF T
  <2> QED BY <2>1, <2>2, NumberInduction
<1> QED BY <1>1, <1>2, <1>3

\* Notes of a turn, its end the last of them.
KeptFor(r, t) ==
    /\ \A i \in DOMAIN t : t[i].turn = r /\ t[i].clean
    /\ \A i, j \in DOMAIN t : t[i].what = "completed" => j <= i

\* Of notes that are kept, those picked for a turn are about it, and its end is the last.
LEMMA AboutKept ==
    ASSUME NEW S, NEW r, r # None, NEW s \in Seq(S), EndedLast(s)
    PROVE  About(r, s) \in Seq(S) /\ KeptFor(r, About(r, s))
<1> DEFINE t == About(r, s)
<1>1. t \in Seq(S) /\ PickedFrom(t, r, s, Len(s)) BY AboutPicked
<1> HIDE DEF t
<1>2. DOMAIN t = 1 .. Len(t) /\ DOMAIN s = 1 .. Len(s) BY <1>1
<1>3. \A i \in DOMAIN t : t[i].turn = r /\ t[i].clean BY <1>1, <1>2 DEF PickedFrom, IsFor
<1>4. \A i, j \in DOMAIN t : t[i].what = "completed" => j <= i
  <2> SUFFICES ASSUME NEW i \in DOMAIN t, NEW j \in DOMAIN t, t[i].what = "completed", i < j
               PROVE  FALSE
      BY <1>1, <1>2
  <2>1. PICK a, b \in 1 .. Len(s) : a < b /\ t[i] = s[a] /\ t[j] = s[b]
      BY <1>1, <1>2 DEF PickedFrom
  <2>2. s[a].turn = r /\ s[b].turn = r /\ s[a].what = "completed" BY <2>1, <1>3
  <2> QED BY <2>1, <2>2, <1>2 DEF EndedLast
<1> QED BY <1>1, <1>3, <1>4 DEF t, KeptFor

-----------------------------------------------------------------------------
(* Steps of the gate that neither answer nor tell.                           *)

GateRest == /\ Awaited /\ Untouched /\ Racing /\ AnsweredAtMost /\ Counted /\ Accepted
            /\ Scopes /\ TurnAwaited /\ PolledTurns /\ ToldTo

\* What the owner answered stays answered, and a turn it told to the end stays so.
OwnerGrows ==
    /\ owner.answered \subseteq owner'.answered
    /\ \A t \in TurnRequests : owner.stage[t] = 3 => owner'.stage[t] = 3

\* What is known of the notes of a connection and of its scope survives such a step.
LEMMA KeptStays ==
    ASSUME OwnerGrows, NEW notes \in Seq(Note), Kept(notes)
    PROVE  Kept(notes)'
<1>1. \A i \in DOMAIN notes : notes[i].turn # None => notes[i].turn \in TurnRequests
  <2>1. \A i \in DOMAIN notes : notes[i] \in Note OBVIOUS
  <2> QED BY <2>1 DEF Note
<1> QED BY <1>1 DEF Kept, EndedLast, OwnerGrows

\* A connection closes, or changes in nothing a request or a turn depends on.
LEMMA QuietStep ==
    ASSUME GateInv, NEW c \in Clients \cup StateClients, NEW k,
           conn' = [conn EXCEPT ![c] = k],
           \/ k.scope = conn[c].scope /\ k.pending = conn[c].pending
           \/ k.scope = None /\ k.pending = {},
           offer' \subseteq offer, OwnerGrows,
           UNCHANGED <<work, readers, poll, answers, told>>
    PROVE  GateRest'
<1>1. conn \in [Clients \cup StateClients -> Connection] BY DEF GateInv, GateTypeOK
<1>2. \A d \in Clients \cup StateClients :
         /\ d # c => conn'[d] = conn[d]
         /\ conn'[d].pending \subseteq conn[d].pending
         /\ conn'[d].scope # None \/ conn'[d].pending # {} =>
               conn'[d].scope = conn[d].scope /\ conn'[d].pending = conn[d].pending
    BY <1>1
<1>3. \A d \in Clients : conn[d].scope # None => conn[d].scope.buffered \in Seq(Note)
    BY <1>1 DEF Connection, Scope
<1>4. Awaited' BY <1>2 DEF Awaited, GateInv
<1>5. Untouched' /\ Racing' /\ AnsweredAtMost' /\ PolledTurns' BY DEF GateInv, Untouched, Racing, AnsweredAtMost, PolledTurns
<1>6. Counted' BY DEF GateInv, Counted, RunningReads
<1>7. Accepted' BY DEF GateInv, Accepted, OwnerGrows
<1>8. Scopes'
  <2> SUFFICES ASSUME NEW d \in Clients, conn'[d].scope # None
               PROVE  Scoped(d, conn[d].scope)'
      BY DEF Scopes
  <2>1. conn'[d].scope = conn[d].scope /\ conn'[d].pending = conn[d].pending BY <1>2
  <2>2. Scoped(d, conn[d].scope) BY <2>1 DEF GateInv, Scopes
  <2>3. Kept(conn[d].scope.buffered)
      BY <2>2 DEF Scoped
  <2>4. Kept(conn[d].scope.buffered)'
    <3> DEFINE notes == conn[d].scope.buffered
    <3>1. PICK n \in Seq(Note) : n = notes BY <1>3, <2>1
    <3>2. Kept(n)' BY <3>1, <2>3, KeptStays
    <3> QED BY <3>1, <3>2, <2>1 DEF Kept, EndedLast
  <2> QED BY <2>1, <2>2, <2>4 DEF Scoped, NotEnded
<1>9. TurnAwaited'
  <2> SUFFICES ASSUME NEW d \in Clients, NEW r \in TurnRequests, r \in conn'[d].pending
               PROVE  conn'[d].scope # None /\ conn'[d].scope.by = r
      BY DEF TurnAwaited
  <2>1. r \in conn[d].pending /\ conn[d].scope # None /\ conn[d].scope.by = r
      BY <1>2 DEF GateInv, TurnAwaited
  <2> QED BY <2>1, <1>1, <1>2
<1>10. ToldTo' BY DEF GateInv, ToldTo, EndedLast
<1> QED BY <1>4, <1>5, <1>6, <1>7, <1>8, <1>9, <1>10 DEF GateRest

-----------------------------------------------------------------------------
(* Steps of the gate that ask and answer.                                    *)

\* A scope whose connection, notes and answer are what they were is still good.
LEMMA ScopeStays ==
    ASSUME GateInv, NEW d \in Clients, conn[d].scope # None,
           conn'[d].scope = conn[d].scope,
           conn[d].scope.turn = None => conn[d].scope.by \in conn'[d].pending,
           conn[d].scope.turn # None => answers'[conn[d].scope.by] = answers[conn[d].scope.by],
           told'[d] = told[d], OwnerGrows
    PROVE  Scoped(d, conn[d].scope)'
<1>1. Scoped(d, conn[d].scope) BY DEF GateInv, Scopes
<1>2. Kept(conn[d].scope.buffered) BY <1>1 DEF Scoped
<1>3. conn[d].scope.buffered \in Seq(Note) BY DEF GateInv, GateTypeOK, Connection, Scope
<1>4. PICK n \in Seq(Note) : n = conn[d].scope.buffered BY <1>3
<1>5. Kept(n)' BY <1>2, <1>4, KeptStays
<1>6. Kept(conn[d].scope.buffered)' BY <1>4, <1>5 DEF Kept, EndedLast
<1> QED BY <1>1, <1>6 DEF Scoped, NotEnded

\* Facts about the scope of a client that follow from the invariant.
LEMMA ScopeFacts ==
    ASSUME GateInv, NEW d \in Clients, conn[d].scope # None
    PROVE  LET s == conn[d].scope IN
           /\ s \in Scope /\ s.by \in TurnRequests /\ s.by \in Requests
           /\ s.buffered \in Seq(Note) /\ s.count \in 0 .. MaxNotes
           /\ s.turn \in TurnRequests \cup {None} /\ Scoped(d, s)
  BY DEF GateInv, GateTypeOK, Connection, Scope, Scopes, TurnRequests

\* A request on offer is asked: a connection waits for its answer, a turn opens a scope.
LEMMA AskStep ==
    ASSUME GateInv, NEW c \in Clients \cup StateClients, NEW k, NEW r \in offer,
           Asked[r].client = c, c \in Clients => Asked[r].kind \notin Read,
           conn' = [conn EXCEPT ![c] = k], k.pending = conn[c].pending \cup {r},
           k.scope = IF c \in Clients /\ Asked[r].kind = "turn" THEN NewScope(r) ELSE conn[c].scope,
           c \in Clients /\ Asked[r].kind = "turn" => conn[c].scope = None,
           offer' = offer \ {r}, OwnerGrows,
           UNCHANGED <<work, readers, poll, answers, told>>
    PROVE  GateRest'
<1>1. /\ conn \in [Clients \cup StateClients -> Connection]
      /\ offer \subseteq Requests
    BY DEF GateInv, GateTypeOK
<1>2. \A d \in Clients \cup StateClients : d # c => conn'[d] = conn[d] BY <1>1
<1>3. conn'[c] = k BY <1>1
<1>4. answers[r] = <<>> BY DEF GateInv, Untouched
<1>5. Awaited' BY <1>2, <1>3, <1>4 DEF Awaited, GateInv
<1>6. Untouched' /\ Racing' /\ AnsweredAtMost' /\ PolledTurns' BY DEF GateInv, Untouched, Racing, AnsweredAtMost, PolledTurns
<1>7. Counted' BY DEF GateInv, Counted, RunningReads
<1>8. Accepted' BY DEF GateInv, Accepted, OwnerGrows
<1>9. Scopes'
  <2> SUFFICES ASSUME NEW d \in Clients, conn'[d].scope # None
               PROVE  Scoped(d, conn[d].scope)'
      BY DEF Scopes
  <2>1. CASE d = c /\ Asked[r].kind = "turn"
    <3>1. conn'[d].scope = NewScope(r) BY <2>1, <1>3
    <3>2. conn'[d].scope.buffered = <<>> /\ conn'[d].scope.by = r
          /\ conn'[d].scope.turn = None /\ conn'[d].scope.count = 0
        BY <3>1 DEF NewScope
    <3>3. Kept(conn[d].scope.buffered)' BY <3>2 DEF Kept, EndedLast
    <3> QED BY <2>1, <3>2, <3>3, <1>3 DEF Scoped
  <2>2. CASE ~(d = c /\ Asked[r].kind = "turn")
    <3>1. conn'[d].scope = conn[d].scope /\ conn[d].pending \subseteq conn'[d].pending
        BY <2>2, <1>2, <1>3
    <3>2. Scoped(d, conn[d].scope) BY <3>1 DEF GateInv, Scopes
    <3>3. conn[d].scope.turn = None => conn[d].scope.by \in conn'[d].pending
        BY <3>1, <3>2 DEF Scoped
    <3> QED BY <3>1, <3>3, ScopeStays
  <2> QED BY <2>1, <2>2
<1>10. TurnAwaited'
  <2> SUFFICES ASSUME NEW d \in Clients, NEW q \in TurnRequests, q \in conn'[d].pending
               PROVE  conn'[d].scope # None /\ conn'[d].scope.by = q
      BY DEF TurnAwaited
  <2>1. CASE d = c /\ Asked[r].kind = "turn"
    <3>1. q \notin conn[c].pending BY <2>1 DEF GateInv, TurnAwaited
    <3>2. q = r BY <3>1, <2>1, <1>3
    <3>3. conn'[d].scope = NewScope(q) BY <3>2, <2>1, <1>3
    <3>4. NewScope(q) \in Scope
      <4>1. 0 \in 0 .. MaxNotes BY GateAssumption
      <4> QED BY <4>1 DEF NewScope, Scope
    <3>5. NewScope(q) # None BY <3>4, GateAssumption
    <3> QED BY <3>3, <3>5 DEF NewScope
  <2>2. CASE ~(d = c /\ Asked[r].kind = "turn")
    <3>1. conn'[d].scope = conn[d].scope BY <2>2, <1>2, <1>3
    <3>2. q \in conn[d].pending
      <4>1. q \in TurnRequests => Asked[q].kind = "turn" BY DEF TurnRequests
      <4> QED BY <4>1, <2>2, <1>2, <1>3
    <3> QED BY <3>1, <3>2 DEF GateInv, TurnAwaited
  <2> QED BY <2>1, <2>2
<1>11. ToldTo' BY DEF GateInv, ToldTo, EndedLast
<1> QED BY <1>5, <1>6, <1>7, <1>8, <1>9, <1>10, <1>11 DEF GateRest

\* An answer to a request that has none.
Answers1(r, a) == answers' = [answers EXCEPT ![r] = <<a>>]
LEMMA FirstAnswer ==
    ASSUME GateTypeOK, NEW r \in Requests, NEW a \in Answers, answers[r] = <<>>, Answer(r, a)
    PROVE  /\ Answers1(r, a)
           /\ answers' \in [Requests -> Seq(Answers)]
  BY DEF GateTypeOK, Answer, Answers1

\* What is not affected by an answer to a request that has none.
LEMMA AnswerStep ==
    ASSUME GateInv, NEW r \in Requests, NEW a \in Answers, answers[r] = <<>>, Answers1(r, a)
    PROVE  /\ \A q \in Requests : q # r => answers'[q] = answers[q]
           /\ answers'[r] = <<a>>
           /\ DataStays
           /\ \A q \in Requests : answers'[q] = <<"data">> => answers[q] = <<"data">> \/ (q = r /\ a = "data")
           /\ AnsweredAtMost'
<1>1. answers \in [Requests -> Seq(Answers)] BY DEF GateInv, GateTypeOK
<1>2. \A q \in Requests : q # r => answers'[q] = answers[q] BY <1>1 DEF Answers1
<1>3. answers'[r] = <<a>> BY <1>1 DEF Answers1
<1>4. <<>> # <<"data">> OBVIOUS
<1>5. a # "data" => <<a>> # <<"data">> OBVIOUS
<1>6. Len(<<a>>) <= 1 OBVIOUS
<1>7. AnsweredAtMost' BY <1>2, <1>3, <1>6 DEF GateInv, AnsweredAtMost
<1> QED BY <1>2, <1>3, <1>4, <1>5, <1>7 DEF DataStays

\* What a client was told stays in order while what was answered stays so.
LEMMA ToldStays ==
    ASSUME GateInv, told' = told,
           DataStays
    PROVE  ToldTo'
<1> SUFFICES ASSUME NEW d \in Clients
             PROVE  /\ \A i \in DOMAIN told[d] :
                          /\ told[d][i].clean /\ told[d][i].turn # None
                          /\ Asked[told[d][i].turn].client = d /\ answers'[told[d][i].turn] = <<"data">>
                    /\ EndedLast(told[d])
    BY DEF ToldTo, EndedLast
<1>1. told[d] \in Seq(Note) BY DEF GateInv, GateTypeOK
<1>2. EndedLast(told[d]) BY DEF GateInv, ToldTo
<1>3. ASSUME NEW i \in DOMAIN told[d]
      PROVE  /\ told[d][i].clean /\ told[d][i].turn # None
             /\ Asked[told[d][i].turn].client = d /\ answers'[told[d][i].turn] = <<"data">>
  <2>1. /\ told[d][i].clean /\ told[d][i].turn # None
        /\ Asked[told[d][i].turn].client = d /\ answers[told[d][i].turn] = <<"data">>
      BY DEF GateInv, ToldTo
  <2>2. told[d][i] \in Note BY <1>1
  <2>3. told[d][i].turn \in Requests BY <2>1, <2>2 DEF Note, TurnRequests
  <2> QED BY <2>1, <2>3 DEF DataStays
<1> QED BY <1>2, <1>3

\* A request of a connection is answered, and it was no turn that its scope waits for.
LEMMA ReplyStep ==
    ASSUME GateInv, NEW c \in Clients \cup StateClients, NEW k, NEW r \in Requests, NEW a \in Answers,
           Asked[r].client = c, conn' = [conn EXCEPT ![c] = k],
           k.pending = conn[c].pending \ {r}, k.scope = conn[c].scope,
           answers[r] = <<>>, Answers1(r, a),
           r \in conn[c].pending => c \in StateClients \/ Asked[r].kind # "turn",
           Asked[r].kind = "turn" /\ c \in Clients => a # "data",
           offer' \subseteq offer, OwnerGrows, UNCHANGED <<poll, told>>
    PROVE  Awaited' /\ AnsweredAtMost' /\ Accepted' /\ Scopes' /\ TurnAwaited' /\ PolledTurns' /\ ToldTo'
<1>1. conn \in [Clients \cup StateClients -> Connection] BY DEF GateInv, GateTypeOK
<1>2. \A d \in Clients \cup StateClients : d # c => conn'[d] = conn[d] BY <1>1
<1>3. conn'[c] = k BY <1>1
<1>4. /\ \A q \in Requests : q # r => answers'[q] = answers[q]
      /\ answers'[r] = <<a>>
      /\ DataStays
      /\ \A q \in Requests : answers'[q] = <<"data">> => answers[q] = <<"data">> \/ (q = r /\ a = "data")
      /\ AnsweredAtMost'
    BY AnswerStep
<1>5. \A q \in TurnRequests : q \in Requests /\ Asked[q].kind = "turn" BY DEF TurnRequests
<1>6. \A d \in Clients \cup StateClients : \A q \in conn'[d].pending :
         q \in conn[d].pending /\ q # r /\ q \in Requests
  <2>1. \A d \in Clients \cup StateClients : conn[d].pending \subseteq Requests BY <1>1 DEF Connection
  <2> QED BY <1>2, <1>3, <2>1 DEF GateInv, Awaited
<1>7. Awaited' BY <1>4, <1>6 DEF Awaited, GateInv
<1>8. Accepted' BY <1>4, <1>5 DEF GateInv, Accepted, OwnerGrows
<1>9. Scopes'
  <2> SUFFICES ASSUME NEW d \in Clients, conn'[d].scope # None
               PROVE  Scoped(d, conn[d].scope)'
      BY DEF Scopes
  <2>1. conn'[d].scope = conn[d].scope BY <1>2, <1>3
  <2> DEFINE s == conn[d].scope
  <2>2. s.by \in TurnRequests /\ s.by \in Requests /\ Scoped(d, s) BY <2>1, ScopeFacts
  <2>3. s.turn = None => s.by \in conn'[d].pending
    <3> SUFFICES ASSUME s.turn = None PROVE s.by \in conn'[d].pending OBVIOUS
    <3>1. s.by \in conn[d].pending BY <2>2 DEF Scoped
    <3>2. d \notin StateClients BY GateAssumption
    <3>3. d = c => s.by # r BY <3>1, <3>2, <2>2, <1>5
    <3> HIDE DEF s
    <3> QED BY <3>1, <3>3, <1>2, <1>3
  <2>4. s.turn # None => answers'[s.by] = answers[s.by]
    <3> SUFFICES ASSUME s.turn # None PROVE answers'[s.by] = answers[s.by] OBVIOUS
    <3>1. answers[s.by] = <<"data">> BY <2>2 DEF Scoped
    <3> HIDE DEF s
    <3> QED BY <3>1, <2>2, <1>4
  <2>5. told'[d] = told[d] OBVIOUS
  <2> QED BY <2>1, <2>3, <2>4, <2>5, ScopeStays
<1>10. TurnAwaited'
  <2> SUFFICES ASSUME NEW d \in Clients, NEW q \in TurnRequests, q \in conn'[d].pending
               PROVE  conn'[d].scope # None /\ conn'[d].scope.by = q
      BY DEF TurnAwaited
  <2>1. conn'[d].scope = conn[d].scope BY <1>2, <1>3
  <2> QED BY <2>1, <1>6 DEF GateInv, TurnAwaited
<1>11. PolledTurns' BY <1>4, <1>5 DEF GateInv, PolledTurns
<1>12. ToldTo' BY <1>4, ToldStays
<1> QED BY <1>4, <1>7, <1>8, <1>9, <1>10, <1>11, <1>12

\* An answer that no reader is behind leaves the readers as they are.
LEMMA ReadersStay ==
    ASSUME GateInv, NEW r \in Requests, NEW a \in Answers, answers[r] = <<>>, Answers1(r, a),
           work[r].race # "open", offer' \subseteq offer, r \notin offer',
           UNCHANGED <<work, readers>>
    PROVE  Untouched' /\ Racing' /\ Counted'
<1>1. \A q \in Requests : q # r => answers'[q] = answers[q] BY AnswerStep
<1>2. offer \subseteq Requests BY DEF GateInv, GateTypeOK
<1>3. Untouched' BY <1>1, <1>2 DEF GateInv, Untouched
<1>4. Racing' BY <1>1 DEF GateInv, Racing
<1>5. Counted' BY DEF GateInv, Counted, RunningReads
<1> QED BY <1>3, <1>4, <1>5

\* A request on offer is refused.
LEMMA DenyStep ==
    ASSUME GateInv, NEW r \in offer, NEW a \in Answers, a # "data", Answer(r, a),
           offer' = offer \ {r}, OwnerGrows, UNCHANGED <<conn, work, readers, poll, told>>
    PROVE  GateRest'
<1>1. r \in Requests /\ GateTypeOK /\ conn \in [Clients \cup StateClients -> Connection] BY DEF GateInv, GateTypeOK
<1>2. PICK c \in Clients \cup StateClients : c = Asked[r].client BY <1>1, GateAssumption
<1>3. answers[r] = <<>> /\ work[r].race # "open" BY <1>1 DEF GateInv, Untouched, Racing
<1>4. Answers1(r, a) BY <1>1, <1>3, FirstAnswer
<1>5. r \notin conn[c].pending BY <1>2 DEF GateInv, Awaited
<1>6. conn' = [conn EXCEPT ![c] = conn[c]] BY <1>1
<1>7. conn[c].pending = conn[c].pending \ {r} BY <1>5
<1>8. Awaited' /\ AnsweredAtMost' /\ Accepted' /\ Scopes' /\ TurnAwaited' /\ PolledTurns' /\ ToldTo'
    BY <1>1, <1>2, <1>3, <1>4, <1>5, <1>6, <1>7, ReplyStep
<1>9. Untouched' /\ Racing' /\ Counted' BY <1>1, <1>3, <1>4, ReadersStay
<1> QED BY <1>8, <1>9 DEF GateRest

\* A request a connection waits for is answered, and it is no turn of a client.
LEMMA RepliedStep ==
    ASSUME GateInv, NEW c \in Clients \cup StateClients, NEW r \in conn[c].pending, NEW a \in Answers,
           c \in StateClients \/ Asked[r].kind # "turn", Answer(r, a),
           conn' = [conn EXCEPT ![c] = [conn[c] EXCEPT !.pending = conn[c].pending \ {r}]],
           OwnerGrows, UNCHANGED <<offer, work, readers, poll, told>>
    PROVE  GateRest'
<1>1. GateTypeOK /\ conn[c] \in Connection BY DEF GateInv, GateTypeOK
<1>2. r \in Requests BY <1>1 DEF Connection
<1>3. Asked[r].client = c /\ answers[r] = <<>> /\ r \notin offer BY DEF GateInv, Awaited
<1>4. Answers1(r, a) BY <1>1, <1>2, <1>3, FirstAnswer
<1>5. work[r].race # "open" BY <1>2, <1>3, GateAssumption DEF GateInv, Awaited, Racing
<1>6. PICK k : k = [conn[c] EXCEPT !.pending = conn[c].pending \ {r}] OBVIOUS
<1>7. k.pending = conn[c].pending \ {r} /\ k.scope = conn[c].scope BY <1>1, <1>6 DEF Connection
<1>8. c \in Clients => Asked[r].kind # "turn" BY GateAssumption
<1>9. Awaited' /\ AnsweredAtMost' /\ Accepted' /\ Scopes' /\ TurnAwaited' /\ PolledTurns' /\ ToldTo'
    BY <1>2, <1>3, <1>4, <1>6, <1>7, <1>8, ReplyStep
<1>10. Untouched' /\ Racing' /\ Counted' BY <1>2, <1>3, <1>4, <1>5, ReadersStay
<1> QED BY <1>9, <1>10 DEF GateRest

-----------------------------------------------------------------------------
(* Steps of the readers.                                                     *)

\* A connection keeps its scope and what it waits for, and nothing is answered or told.
LEMMA SameStep ==
    ASSUME GateInv, NEW c \in Clients \cup StateClients, NEW k, conn' = [conn EXCEPT ![c] = k],
           k.pending = conn[c].pending, k.scope = conn[c].scope,
           offer' \subseteq offer, OwnerGrows, UNCHANGED <<poll, answers, told>>
    PROVE  Awaited' /\ AnsweredAtMost' /\ Accepted' /\ Scopes' /\ TurnAwaited' /\ PolledTurns' /\ ToldTo'
<1>1. conn \in [Clients \cup StateClients -> Connection] BY DEF GateInv, GateTypeOK
<1>2. \A d \in Clients \cup StateClients : conn'[d].pending = conn[d].pending /\ conn'[d].scope = conn[d].scope
    BY <1>1
<1>3. Awaited' BY <1>2 DEF GateInv, Awaited
<1>4. AnsweredAtMost' /\ PolledTurns' BY DEF GateInv, AnsweredAtMost, PolledTurns
<1>5. Accepted' BY DEF GateInv, Accepted, OwnerGrows
<1>6. Scopes'
  <2> SUFFICES ASSUME NEW d \in Clients, conn'[d].scope # None
               PROVE  Scoped(d, conn[d].scope)'
      BY DEF Scopes
  <2>1. conn'[d].scope = conn[d].scope /\ conn'[d].pending = conn[d].pending BY <1>2
  <2>2. Scoped(d, conn[d].scope) BY <2>1 DEF GateInv, Scopes
  <2> QED BY <2>1, <2>2, ScopeStays DEF Scoped
<1>7. TurnAwaited' BY <1>2 DEF GateInv, TurnAwaited
<1>8. ToldTo'
  <2>1. DataStays BY DEF DataStays
  <2> QED BY <2>1, ToldStays
<1> QED BY <1>3, <1>4, <1>5, <1>6, <1>7, <1>8

\* A reader starts for a request on offer.
LEMMA PageStep ==
    ASSUME GateInv, NEW c \in Clients, NEW r \in offer, Asked[r].client = c, Asked[r].kind \in Read,
           readers[Asked[r].kind] < MaxReaders,
           conn' = [conn EXCEPT ![c] = [conn[c] EXCEPT !.pages = conn[c].pages \cup {r}]],
           readers' = [readers EXCEPT ![Asked[r].kind] = readers[Asked[r].kind] + 1],
           work' = [work EXCEPT ![r] = [call |-> "running", race |-> "open"]],
           offer' = offer \ {r}, OwnerGrows, UNCHANGED <<poll, answers, told>>
    PROVE  GateRest'
<1>1. /\ conn[c] \in Connection /\ offer \subseteq Requests /\ r \in Requests
      /\ work \in [Requests -> [call : {"none", "running", "ended"}, race : {"open", "decided"}]]
      /\ readers \in [Read -> Nat]
    BY DEF GateInv, GateTypeOK
<1>2. PICK k : k = [conn[c] EXCEPT !.pages = conn[c].pages \cup {r}] OBVIOUS
<1>3. k.pending = conn[c].pending /\ k.scope = conn[c].scope BY <1>1, <1>2 DEF Connection
<1>4. /\ \A q \in Requests : q # r => work'[q] = work[q]
      /\ work'[r].call = "running" /\ work'[r].race = "open"
    BY <1>1
<1>5. answers[r] = <<>> /\ work[r].call = "none" BY DEF GateInv, Untouched
<1>6. Awaited' /\ AnsweredAtMost' /\ Accepted' /\ Scopes' /\ TurnAwaited' /\ PolledTurns' /\ ToldTo'
    BY <1>2, <1>3, SameStep
<1>7. Untouched' BY <1>1, <1>4 DEF GateInv, Untouched
<1>8. Racing' BY <1>1, <1>4, <1>5 DEF GateInv, Racing
<1>9. Counted'
  <2> SUFFICES ASSUME NEW kind \in Read
               PROVE  /\ IsFiniteSet(RunningReads(kind)')
                      /\ readers'[kind] = Cardinality(RunningReads(kind)') /\ readers'[kind] <= MaxReaders
      BY DEF Counted
  <2>1. /\ IsFiniteSet(RunningReads(kind)) /\ readers[kind] = Cardinality(RunningReads(kind))
        /\ readers[kind] <= MaxReaders
      BY DEF GateInv, Counted
  <2>2. CASE kind = Asked[r].kind
    <3>1. RunningReads(kind)' = RunningReads(kind) \cup {r} BY <1>1, <1>4, <2>2 DEF RunningReads
    <3>2. r \notin RunningReads(kind) BY <1>5 DEF RunningReads
    <3>3. readers'[kind] = readers[kind] + 1 BY <1>1, <2>2
    <3>4. readers[kind] + 1 <= MaxReaders BY <1>1, <2>2, GateAssumption
    <3> QED BY <2>1, <3>1, <3>2, <3>3, <3>4, FS_AddElement
  <2>3. CASE kind # Asked[r].kind
    <3>1. RunningReads(kind)' = RunningReads(kind) BY <1>1, <1>4, <2>3 DEF RunningReads
    <3>2. readers'[kind] = readers[kind] BY <1>1, <2>3
    <3> QED BY <2>1, <3>1, <3>2
  <2> QED BY <2>2, <2>3
<1> QED BY <1>6, <1>7, <1>8, <1>9 DEF GateRest

\* A reader that ends gives up its place.
LEMMA PlaceStep ==
    ASSUME GateInv, NEW r \in Requests, work[r].call = "running",
           work' = [work EXCEPT ![r] = [call |-> "ended", race |-> "decided"]], PlaceFreed(r),
           offer' = offer, \A q \in Requests : q # r => answers'[q] = answers[q]
    PROVE  Untouched' /\ Racing' /\ Counted' /\ readers' \in [Read -> Nat]
<1>1. /\ offer \subseteq Requests /\ readers \in [Read -> Nat]
      /\ work \in [Requests -> [call : {"none", "running", "ended"}, race : {"open", "decided"}]]
    BY DEF GateInv, GateTypeOK
<1>2. Asked[r].kind \in Read BY DEF GateInv, Racing
<1>3. /\ \A q \in Requests : q # r => work'[q] = work[q]
      /\ work'[r].call = "ended" /\ work'[r].race = "decided"
    BY <1>1
<1>4. r \notin offer BY DEF GateInv, Untouched
<1>5. Untouched' BY <1>1, <1>3, <1>4 DEF GateInv, Untouched
<1>6. Racing' BY <1>1, <1>3 DEF GateInv, Racing
<1>7. \A kind \in Read : /\ IsFiniteSet(RunningReads(kind)')
                         /\ readers'[kind] = Cardinality(RunningReads(kind)')
                         /\ readers'[kind] <= MaxReaders /\ readers'[kind] \in Nat
  <2> TAKE kind \in Read
  <2>1. /\ IsFiniteSet(RunningReads(kind)) /\ readers[kind] = Cardinality(RunningReads(kind))
        /\ readers[kind] <= MaxReaders
      BY DEF GateInv, Counted
  <2>2. CASE kind = Asked[r].kind
    <3>1. RunningReads(kind)' = RunningReads(kind) \ {r} BY <1>1, <1>3, <2>2 DEF RunningReads
    <3>2. r \in RunningReads(kind) BY <2>2 DEF RunningReads
    <3>3. readers'[kind] = readers[kind] - 1 BY <1>1, <2>2 DEF PlaceFreed
    <3>4. /\ IsFiniteSet(RunningReads(kind)')
          /\ Cardinality(RunningReads(kind)') = Cardinality(RunningReads(kind)) - 1
        BY <2>1, <3>1, <3>2, FS_RemoveElement
    <3>5. Cardinality(RunningReads(kind)') \in Nat BY <3>4, FS_CardinalityType
    <3>6. readers[kind] \in Nat /\ MaxReaders \in Nat BY <1>1, GateAssumption
    <3> QED BY <2>1, <3>3, <3>4, <3>5, <3>6
  <2>3. CASE kind # Asked[r].kind
    <3>1. RunningReads(kind)' = RunningReads(kind) BY <1>1, <1>3, <2>3 DEF RunningReads
    <3>2. readers'[kind] = readers[kind] BY <1>1, <2>3 DEF PlaceFreed
    <3> QED BY <1>1, <2>1, <3>1, <3>2
  <2> QED BY <2>2, <2>3
<1>8. Counted' BY <1>7 DEF Counted
<1>9. readers' \in [Read -> Nat] BY <1>1, <1>7 DEF PlaceFreed
<1> QED BY <1>5, <1>6, <1>8, <1>9

\* The race of a page is decided: it is answered if its client is there.
LEMMA RaceStep ==
    ASSUME GateInv, NEW r \in Requests, work[r].race = "open", NEW a \in Answers, RaceDecided(r, a),
           offer' = offer, OwnerGrows, UNCHANGED <<poll, told>>
    PROVE  /\ Awaited' /\ AnsweredAtMost' /\ Accepted' /\ Scopes' /\ TurnAwaited' /\ PolledTurns' /\ ToldTo'
           /\ \A q \in Requests : q # r => answers'[q] = answers[q]
           /\ conn' \in [Clients \cup StateClients -> Connection]
           /\ answers' \in [Requests -> Seq(Answers)]
<1>1. PICK c \in Clients : c = Asked[r].client BY DEF GateInv, Racing
<1>2. answers[r] = <<>> /\ Asked[r].kind \in Read /\ r \notin conn[c].pending
    BY DEF GateInv, Racing, Awaited
<1>3. conn[c] \in Connection /\ conn \in [Clients \cup StateClients -> Connection] /\ GateTypeOK
      /\ answers \in [Requests -> Seq(Answers)]
    BY DEF GateInv, GateTypeOK
<1>4. PICK k : k = [conn[c] EXCEPT !.pages = @ \ {r}] OBVIOUS
<1>5. k.pending = conn[c].pending /\ k.pending = conn[c].pending \ {r} /\ k.scope = conn[c].scope
      /\ k \in Connection
    BY <1>2, <1>3, <1>4 DEF Connection
<1>6. conn' = [conn EXCEPT ![c] = k] BY <1>1, <1>4 DEF RaceDecided, Sets
<1>7. conn' \in [Clients \cup StateClients -> Connection] BY <1>3, <1>5, <1>6
<1>8. Asked[r].kind # "turn" BY <1>2 DEF Read
<1>9. CASE IsOpen(c)
  <2>1. Answer(r, a) BY <1>1, <1>9 DEF RaceDecided
  <2>2. Answers1(r, a) /\ answers' \in [Requests -> Seq(Answers)] BY <1>2, <1>3, <2>1, FirstAnswer
  <2>3. Awaited' /\ AnsweredAtMost' /\ Accepted' /\ Scopes' /\ TurnAwaited' /\ PolledTurns' /\ ToldTo'
      BY <1>1, <1>2, <1>5, <1>6, <1>8, <2>2, ReplyStep
  <2>4. \A q \in Requests : q # r => answers'[q] = answers[q] BY <1>2, <2>2, AnswerStep
  <2> QED BY <1>7, <2>2, <2>3, <2>4
<1>10. CASE ~IsOpen(c)
  <2>1. answers' = answers BY <1>1, <1>10 DEF RaceDecided
  <2>2. Awaited' /\ AnsweredAtMost' /\ Accepted' /\ Scopes' /\ TurnAwaited' /\ PolledTurns' /\ ToldTo'
      BY <1>5, <1>6, <2>1, SameStep
  <2> QED BY <1>3, <1>7, <2>1, <2>2
<1> QED BY <1>9, <1>10

\* The owner's side of the state is not touched.
LEMMA OwnerSame ==
    ASSUME owner' = owner
    PROVE  OwnerGrows
  BY DEF OwnerGrows

\* The reader's end keeps the invariant.
LEMMA ReaderEndsKeeps ==
    ASSUME GateInv, NEW r \in Requests, NEW body \in {"clean", "extra", "bad"}, ReaderEnds(r, body)
    PROVE  GateInv'
<1>1. GateTypeOK BY DEF GateInv
<1>2. PICK a \in Answers : a = IF Asked[r].kind = "page" THEN PageAnswer(body) ELSE SectionAnswer(body)
    BY DEF Answers, PageAnswer, SectionAnswer
<1>3. work[r].call = "running" /\ PlaceFreed(r) /\ offer' = offer /\ OwnerGrows
      /\ work' = [work EXCEPT ![r] = [call |-> "ended", race |-> "decided"]]
    BY OwnerSame DEF ReaderEnds
<1>4. /\ Awaited' /\ AnsweredAtMost' /\ Accepted' /\ Scopes' /\ TurnAwaited' /\ PolledTurns' /\ ToldTo'
      /\ \A q \in Requests : q # r => answers'[q] = answers[q]
      /\ conn' \in [Clients \cup StateClients -> Connection]
      /\ answers' \in [Requests -> Seq(Answers)]
  <2>1. CASE work[r].race = "open"
    <3>1. RaceDecided(r, a) BY <1>2, <2>1 DEF ReaderEnds
    <3>2. poll' = poll /\ told' = told BY DEF ReaderEnds
    <3> QED BY <1>3, <2>1, <3>1, <3>2, RaceStep
  <2>2. CASE work[r].race # "open"
    <3>1. UNCHANGED <<conn, answers, poll, told, offer, owner>> BY <2>2 DEF ReaderEnds
    <3>2. PICK c \in Clients \cup StateClients : c = Asked[r].client BY GateAssumption
    <3>3. conn \in [Clients \cup StateClients -> Connection] BY <1>1 DEF GateTypeOK
    <3>4. conn' = [conn EXCEPT ![c] = conn[c]] BY <3>1, <3>3
    <3>5. Awaited' /\ AnsweredAtMost' /\ Accepted' /\ Scopes' /\ TurnAwaited' /\ PolledTurns' /\ ToldTo'
        BY <1>3, <3>1, <3>4, SameStep
    <3> QED BY <1>1, <3>1, <3>5 DEF GateTypeOK
  <2> QED BY <2>1, <2>2
<1>5. Untouched' /\ Racing' /\ Counted' /\ readers' \in [Read -> Nat] BY <1>3, <1>4, PlaceStep
<1>6. GateTypeOK'
  <2>1. work' \in [Requests -> [call : {"none", "running", "ended"}, race : {"open", "decided"}]]
      BY <1>1, <1>3 DEF GateTypeOK
  <2>2. \A c \in Clients : conn'[c].scope = conn[c].scope
    <3>1. CASE work[r].race = "open"
      <4>1. conn' = [conn EXCEPT ![Asked[r].client] = [conn[Asked[r].client] EXCEPT !.pages = @ \ {r}]]
          BY <3>1 DEF ReaderEnds, RaceDecided, Sets
      <4> QED BY <4>1, <1>1 DEF GateTypeOK, Connection
    <3>2. CASE work[r].race # "open" BY <3>2 DEF ReaderEnds
    <3> QED BY <3>1, <3>2
  <2>3. UNCHANGED <<offer, poll, same, owner, strays, told>> BY DEF ReaderEnds
  <2> QED BY <1>1, <1>4, <1>5, <2>1, <2>2, <2>3 DEF GateTypeOK
<1> QED BY <1>4, <1>5, <1>6 DEF GateInv

\* The deadline of a page keeps the invariant.
LEMMA PageDeadlineKeeps ==
    ASSUME GateInv, NEW r \in Requests, PageDeadline(r)
    PROVE  GateInv'
<1>1. GateTypeOK BY DEF GateInv
<1>2. "error" \in Answers /\ offer' = offer /\ OwnerGrows BY OwnerSame DEF Answers, PageDeadline
<1>3. /\ work[r].race = "open" /\ RaceDecided(r, "error")
      /\ work' = [work EXCEPT ![r].race = "decided"]
      /\ UNCHANGED <<offer, readers, poll, same, owner, strays, told>>
    BY DEF PageDeadline
<1>4. /\ Awaited' /\ AnsweredAtMost' /\ Accepted' /\ Scopes' /\ TurnAwaited' /\ PolledTurns' /\ ToldTo'
      /\ \A q \in Requests : q # r => answers'[q] = answers[q]
      /\ conn' \in [Clients \cup StateClients -> Connection]
      /\ answers' \in [Requests -> Seq(Answers)]
    BY <1>2, <1>3, RaceStep
<1>5. work \in [Requests -> [call : {"none", "running", "ended"}, race : {"open", "decided"}]]
      /\ offer \subseteq Requests
    BY <1>1 DEF GateTypeOK
<1>6. /\ \A q \in Requests : work'[q].call = work[q].call /\ (q # r => work'[q] = work[q])
      /\ work'[r].race = "decided"
      /\ work' \in [Requests -> [call : {"none", "running", "ended"}, race : {"open", "decided"}]]
    BY <1>3, <1>5
<1>7. r \notin offer BY <1>3 DEF GateInv, Untouched, Racing
<1>8. Untouched' BY <1>2, <1>4, <1>5, <1>6, <1>7 DEF GateInv, Untouched
<1>9. Racing' BY <1>4, <1>6 DEF GateInv, Racing
<1>10. Counted'
  <2>1. \A kind \in Read : RunningReads(kind)' = RunningReads(kind) BY <1>6 DEF RunningReads
  <2> QED BY <1>3, <2>1 DEF GateInv, Counted
<1>11. GateTypeOK'
  <2>1. \A c \in Clients : conn'[c].scope = conn[c].scope
    <3>1. conn' = [conn EXCEPT ![Asked[r].client] = [conn[Asked[r].client] EXCEPT !.pages = @ \ {r}]]
        BY <1>3 DEF RaceDecided, Sets
    <3> QED BY <3>1, <1>1 DEF GateTypeOK, Connection
  <2> QED BY <1>1, <1>3, <1>4, <1>6, <2>1 DEF GateTypeOK
<1> QED BY <1>4, <1>8, <1>9, <1>10, <1>11 DEF GateInv

-----------------------------------------------------------------------------
(* What clients send.                                                        *)

\* The typing of a connection that takes a new record.
LEMMA ConnTyped ==
    ASSUME GateTypeOK, NEW c \in Clients \cup StateClients, NEW k \in Connection,
           \/ k.scope = conn[c].scope \/ k.scope = None
           \/ Len(k.scope.buffered) <= MaxBuffered,
           conn' = [conn EXCEPT ![c] = k]
    PROVE  /\ conn' \in [Clients \cup StateClients -> Connection]
           /\ \A d \in Clients : conn'[d].scope # None => Len(conn'[d].scope.buffered) <= MaxBuffered
<1>1. conn \in [Clients \cup StateClients -> Connection] BY DEF GateTypeOK
<1> QED BY <1>1 DEF GateTypeOK

\* A closed connection waits for nothing.
LEMMA GoneTyped ==
    ASSUME NEW k
    PROVE  Gone(k) \in Connection /\ Gone(k).scope = None /\ Gone(k).pending = {}
<1>1. Idle \in Connection /\ Idle.scope = None /\ Idle.pending = {} BY DEF Idle, Connection
<1> QED BY <1>1 DEF Gone, Connection

\* A connection that only closes keeps the invariant.
LEMMA ClosesStep ==
    ASSUME GateInv, NEW c \in Clients \cup StateClients, NEW k, conn' = [conn EXCEPT ![c] = Gone(k)],
           offer' \subseteq offer, OwnerGrows, UNCHANGED <<work, readers, poll, answers, told>>,
           same' \in BOOLEAN, strays' \in 0..MaxStrays,
           owner' \in [got : SUBSET Requests, answered : SUBSET Requests, saved : SUBSET TurnRequests,
                       stage : [TurnRequests -> 0..3]]
    PROVE  GateInv'
<1>1. PICK g \in Connection : g = Gone(k) /\ g.scope = None /\ g.pending = {} BY GoneTyped
<1>2. GateTypeOK BY DEF GateInv
<1>3. conn' = [conn EXCEPT ![c] = g] BY <1>1
<1>4. GateRest' BY <1>1, <1>3, QuietStep
<1>5. /\ conn' \in [Clients \cup StateClients -> Connection]
      /\ \A d \in Clients : conn'[d].scope # None => Len(conn'[d].scope.buffered) <= MaxBuffered
    BY <1>1, <1>2, <1>3, ConnTyped
<1>6. GateTypeOK' BY <1>2, <1>5 DEF GateTypeOK
<1> QED BY <1>4, <1>6 DEF GateInv, GateRest

\* A connection that changes, but neither its scope nor what it waits for, keeps the invariant.
LEMMA ShiftStep ==
    ASSUME GateInv, NEW c \in Clients \cup StateClients, NEW k \in Connection,
           conn' = [conn EXCEPT ![c] = k], k.scope = conn[c].scope, k.pending = conn[c].pending,
           offer' \subseteq offer, OwnerGrows, UNCHANGED <<work, readers, poll, answers, told>>,
           same' \in BOOLEAN, strays' \in 0..MaxStrays,
           owner' \in [got : SUBSET Requests, answered : SUBSET Requests, saved : SUBSET TurnRequests,
                       stage : [TurnRequests -> 0..3]]
    PROVE  GateInv'
<1>1. GateTypeOK BY DEF GateInv
<1>2. GateRest' BY QuietStep
<1>3. /\ conn' \in [Clients \cup StateClients -> Connection]
      /\ \A d \in Clients : conn'[d].scope # None => Len(conn'[d].scope.buffered) <= MaxBuffered
    BY <1>1, ConnTyped
<1>4. GateTypeOK' BY <1>1, <1>3 DEF GateTypeOK
<1> QED BY <1>2, <1>4 DEF GateInv, GateRest

\* Connecting keeps the invariant.
LEMMA ConnectKeeps ==
    ASSUME GateInv, NEW c \in Clients \cup StateClients, Connect(c)
    PROVE  GateInv'
<1>1. GateTypeOK /\ OwnerGrows BY OwnerSame DEF GateInv, Connect
<1>2. UNCHANGED <<offer, work, readers, poll, same, owner, strays, answers, told>> BY DEF Connect
<1>3. PICK k : k = IF same THEN [Idle EXCEPT !.link = "open"] ELSE Gone(Idle) OBVIOUS
<1>4. k \in Connection /\ k.scope = None /\ k.pending = {}
  <2>1. CASE same
    <3>1. Idle \in Connection /\ Idle.scope = None /\ Idle.pending = {} BY DEF Idle, Connection
    <3>2. k = [Idle EXCEPT !.link = "open"] BY <1>3, <2>1
    <3> QED BY <3>1, <3>2 DEF Connection
  <2>2. CASE ~same BY <1>3, <2>2, GoneTyped
  <2> QED BY <2>1, <2>2
<1>5. conn' = [conn EXCEPT ![c] = k] BY <1>3 DEF Connect, Sets
<1>6. GateRest' BY <1>1, <1>2, <1>4, <1>5, QuietStep
<1>7. /\ conn' \in [Clients \cup StateClients -> Connection]
      /\ \A d \in Clients : conn'[d].scope # None => Len(conn'[d].scope.buffered) <= MaxBuffered
    BY <1>1, <1>4, <1>5, ConnTyped
<1>8. GateTypeOK' BY <1>1, <1>2, <1>7 DEF GateTypeOK
<1> QED BY <1>6, <1>8 DEF GateInv, GateRest

\* The owner's handshake keeps the invariant.
LEMMA OwnerReadyKeeps ==
    ASSUME GateInv, NEW c \in Clients \cup StateClients, OwnerReady(c)
    PROVE  GateInv'
<1>1. GateTypeOK /\ conn[c] \in Connection BY DEF GateInv, GateTypeOK
<1>2. UNCHANGED <<offer, work, readers, poll, same, strays, answers, told>> BY DEF OwnerReady
<1>3. CASE same
  <2>1. PICK sent : sent = {conn[c].queue[i] : i \in DOMAIN conn[c].queue} OBVIOUS
  <2>2. sent \subseteq Requests
    <3>1. conn[c].queue \in Seq(Requests) BY <1>1 DEF Connection
    <3>2. \A i \in DOMAIN conn[c].queue : conn[c].queue[i] \in Requests BY <3>1
    <3> QED BY <2>1, <3>2
  <2>3. owner' = [owner EXCEPT !.got = @ \cup sent] BY <1>3, <2>1 DEF OwnerReady
  <2>4. OwnerGrows /\ owner' \in [got : SUBSET Requests, answered : SUBSET Requests,
                                  saved : SUBSET TurnRequests, stage : [TurnRequests -> 0..3]]
      BY <1>1, <2>2, <2>3 DEF OwnerGrows, GateTypeOK
  <2>5. PICK k : k = [conn[c] EXCEPT !.up = TRUE, !.queue = <<>>] OBVIOUS
  <2>6. k \in Connection /\ k.scope = conn[c].scope /\ k.pending = conn[c].pending
    <3>1. <<>> \in Seq(Requests) /\ conn[c] \in Connection BY <1>1
    <3> QED BY <2>5, <3>1 DEF Connection
  <2>7. conn' = [conn EXCEPT ![c] = k] BY <1>3, <2>5 DEF OwnerReady, Sets
  <2>8. same' \in BOOLEAN /\ strays' \in 0..MaxStrays BY <1>1, <1>2 DEF GateTypeOK
  <2> QED BY <1>2, <2>4, <2>6, <2>7, <2>8, ShiftStep
<1>4. CASE ~same
  <2>1. conn' = [conn EXCEPT ![c] = Gone(conn[c])] /\ owner' = owner BY <1>4 DEF OwnerReady, Sets
  <2>2. /\ same' \in BOOLEAN /\ strays' \in 0..MaxStrays
        /\ owner' \in [got : SUBSET Requests, answered : SUBSET Requests,
                                  saved : SUBSET TurnRequests, stage : [TurnRequests -> 0..3]]
      BY <1>1, <1>2, <2>1 DEF GateTypeOK
  <2>3. OwnerGrows BY <2>1, OwnerSame
  <2> QED BY <1>2, <2>1, <2>2, <2>3, ClosesStep
<1> QED BY <1>3, <1>4

\* Closing keeps the invariant.
LEMMA DisconnectKeeps ==
    ASSUME GateInv, NEW c \in Clients \cup StateClients, Disconnect(c)
    PROVE  GateInv'
<1>1. conn' = [conn EXCEPT ![c] = Gone(conn[c])] BY DEF Disconnect, Sets
<1>2. UNCHANGED <<offer, work, readers, poll, same, owner, strays, answers, told>> BY DEF Disconnect
<1>3. /\ same' \in BOOLEAN /\ strays' \in 0..MaxStrays
      /\ owner' \in [got : SUBSET Requests, answered : SUBSET Requests,
                     saved : SUBSET TurnRequests, stage : [TurnRequests -> 0..3]]
    BY <1>2 DEF GateInv, GateTypeOK
<1>4. OwnerGrows BY <1>2, OwnerSame
<1> QED BY <1>1, <1>2, <1>3, <1>4, ClosesStep

\* Nothing a client depends on changes.
LEMMA StillStep ==
    ASSUME GateInv, UNCHANGED <<conn, offer, work, readers, poll, answers, told>>, OwnerGrows,
           same' \in BOOLEAN, strays' \in 0..MaxStrays,
           owner' \in [got : SUBSET Requests, answered : SUBSET Requests, saved : SUBSET TurnRequests,
                       stage : [TurnRequests -> 0..3]]
    PROVE  GateInv'
<1>1. GateTypeOK' BY DEF GateInv, GateTypeOK
<1>2. Awaited' /\ Untouched' /\ Racing' /\ AnsweredAtMost' /\ TurnAwaited' /\ PolledTurns' /\ ToldTo'
    BY DEF GateInv, Awaited, Untouched, Racing, AnsweredAtMost, TurnAwaited, PolledTurns, ToldTo, EndedLast
<1>3. Counted' BY DEF GateInv, Counted, RunningReads
<1>4. Accepted' BY DEF GateInv, Accepted, OwnerGrows
<1>5. Scopes'
  <2> SUFFICES ASSUME NEW d \in Clients, conn[d].scope # None
               PROVE  Scoped(d, conn[d].scope)'
      BY DEF Scopes
  <2>1. Scoped(d, conn[d].scope) BY DEF GateInv, Scopes
  <2> QED BY <2>1, ScopeStays DEF Scoped
<1> QED BY <1>1, <1>2, <1>3, <1>4, <1>5 DEF GateInv

\* Another socket at the owner's path keeps the invariant.
LEMMA ReplacedKeeps ==
    ASSUME GateInv, Replaced
    PROVE  GateInv'
<1>1. UNCHANGED <<conn, offer, work, readers, poll, owner, strays, answers, told>> /\ same' = FALSE
    BY DEF Replaced
<1>2. OwnerGrows BY <1>1, OwnerSame
<1>3. owner' \in [got : SUBSET Requests, answered : SUBSET Requests, saved : SUBSET TurnRequests,
                  stage : [TurnRequests -> 0..3]]
    BY <1>1 DEF GateInv, GateTypeOK
<1>4. strays' \in 0..MaxStrays BY <1>1 DEF GateInv, GateTypeOK
<1> QED BY <1>1, <1>2, <1>3, <1>4, StillStep

\* A turn saved by the owner keeps the invariant.
LEMMA TurnSavedKeeps ==
    ASSUME GateInv, NEW r \in TurnRequests, TurnSaved(r)
    PROVE  GateInv'
<1>1. UNCHANGED <<conn, offer, work, readers, poll, same, strays, answers, told>>
      /\ owner' = [owner EXCEPT !.saved = @ \cup {r}]
    BY DEF TurnSaved
<1>2. owner \in [got : SUBSET Requests, answered : SUBSET Requests, saved : SUBSET TurnRequests,
                 stage : [TurnRequests -> 0..3]] /\ same \in BOOLEAN
      /\ strays \in 0..MaxStrays
    BY DEF GateInv, GateTypeOK
<1>3. OwnerGrows BY <1>1, <1>2 DEF OwnerGrows
<1>4. owner' \in [got : SUBSET Requests, answered : SUBSET Requests, saved : SUBSET TurnRequests,
                  stage : [TurnRequests -> 0..3]]
    BY <1>1, <1>2
<1> QED BY <1>1, <1>2, <1>3, <1>4, StillStep

OwnerTyped == owner' \in [got : SUBSET Requests, answered : SUBSET Requests, saved : SUBSET TurnRequests,
                          stage : [TurnRequests -> 0..3]]

\* The owner is given a request, or nothing.
LEMMA OwnerGets ==
    ASSUME GateTypeOK, NEW r \in Requests, owner' = owner \/ owner' = [owner EXCEPT !.got = @ \cup {r}]
    PROVE  OwnerTyped /\ OwnerGrows
<1>1. owner \in [got : SUBSET Requests, answered : SUBSET Requests, saved : SUBSET TurnRequests,
                 stage : [TurnRequests -> 0..3]]
    BY DEF GateTypeOK
<1>2. CASE owner' = owner BY <1>1, <1>2 DEF OwnerTyped, OwnerGrows
<1>3. CASE owner' = [owner EXCEPT !.got = @ \cup {r}] BY <1>1, <1>3 DEF OwnerTyped, OwnerGrows
<1> QED BY <1>2, <1>3

\* A request that goes to the owner changes nothing but the queue, or the connection closes.
LEMMA ForwardStep ==
    ASSUME GateTypeOK, NEW c \in Clients \cup StateClients, NEW r \in Requests, NEW k \in Connection,
           Forward(c, k, r)
    PROVE  /\ OwnerTyped /\ OwnerGrows
           /\ \E j \in Connection :
                 /\ conn' = [conn EXCEPT ![c] = j]
                 /\ j = Gone(k) \/ (j.scope = k.scope /\ j.pending = k.pending)
<1>1. owner' = owner \/ owner' = [owner EXCEPT !.got = @ \cup {r}] BY DEF Forward
<1>2. OwnerTyped /\ OwnerGrows BY <1>1, OwnerGets
<1>3. PICK j : j \in {k, Gone(k), [k EXCEPT !.queue = Append(@, r)]} /\ conn' = [conn EXCEPT ![c] = j]
    BY DEF Forward, Sets
<1>4. CASE j = k BY <1>2, <1>3, <1>4
<1>5. CASE j = Gone(k) BY <1>2, <1>3, <1>5, GoneTyped
<1>6. CASE j = [k EXCEPT !.queue = Append(@, r)]
  <2>1. Append(k.queue, r) \in Seq(Requests) BY DEF Connection
  <2>2. j \in Connection /\ j.scope = k.scope /\ j.pending = k.pending BY <1>6, <2>1 DEF Connection
  <2> QED BY <1>2, <1>3, <2>2
<1> QED BY <1>3, <1>4, <1>5, <1>6

\* The step of a client's request that is passed on, or queued, or too many.
LEMMA PassedStep ==
    ASSUME GateInv, NEW c \in Clients, NEW r \in offer, Asked[r].client = c, ~Refused(c, r), ~SafePage(r),
           Passed(c, r), offer' = offer \ {r}, UNCHANGED <<poll, same, strays, told>>
    PROVE  GateInv'
<1>1. /\ GateTypeOK /\ r \in Requests /\ conn[c] \in Connection /\ offer' \subseteq offer
      /\ same' \in BOOLEAN /\ strays' \in 0..MaxStrays
    BY DEF GateInv, GateTypeOK
<1>2. UNCHANGED <<work, readers, answers>> BY DEF Passed
<1>3. Asked[r].kind \notin Read /\ (Asked[r].kind = "turn" => conn[c].scope = None)
    BY DEF Refused, SafePage, SafeApp, SafeTurn, Read
<1>4. PICK s : s = IF Asked[r].kind = "turn" THEN NewScope(r) ELSE conn[c].scope OBVIOUS
<1>5. s \in Scope \cup {None} /\ (s # conn[c].scope => s.buffered = <<>>)
  <2>1. CASE Asked[r].kind = "turn"
    <3>1. 0 \in 0 .. MaxNotes /\ r \in TurnRequests BY <1>1, <2>1, GateAssumption DEF TurnRequests
    <3> QED BY <1>4, <2>1, <3>1 DEF NewScope, Scope
  <2>2. CASE Asked[r].kind # "turn" BY <1>1, <1>4, <2>2 DEF Connection
  <2> QED BY <2>1, <2>2
<1>6. PICK k : k = [conn[c] EXCEPT !.pending = conn[c].pending \cup {r}, !.scope = s] OBVIOUS
<1>7. k \in Connection /\ k.pending = conn[c].pending \cup {r} /\ k.scope = s
    BY <1>1, <1>5, <1>6 DEF Connection
<1>8. Forward(c, k, r) BY <1>4, <1>6 DEF Passed
<1>9. PICK j \in Connection :
         /\ conn' = [conn EXCEPT ![c] = j]
         /\ j = Gone(k) \/ (j.scope = k.scope /\ j.pending = k.pending)
    BY <1>1, <1>7, <1>8, ForwardStep
<1>10. OwnerTyped /\ OwnerGrows BY <1>1, <1>7, <1>8, ForwardStep
<1>11. CASE j = Gone(k) BY <1>1, <1>2, <1>9, <1>10, <1>11, ClosesStep DEF OwnerTyped
<1>12. CASE j.scope = k.scope /\ j.pending = k.pending
  <2>1. GateRest' BY <1>2, <1>3, <1>4, <1>7, <1>9, <1>10, <1>12, AskStep
  <2>2. j.scope = conn[c].scope \/ Len(j.scope.buffered) <= MaxBuffered
    <3>1. Len(<<>>) = 0 OBVIOUS
    <3> QED BY <3>1, <1>5, <1>7, <1>12, GateAssumption
  <2>3. /\ conn' \in [Clients \cup StateClients -> Connection]
        /\ \A d \in Clients : conn'[d].scope # None => Len(conn'[d].scope.buffered) <= MaxBuffered
      BY <1>1, <1>9, <2>2, ConnTyped
  <2>4. GateTypeOK' BY <1>1, <1>2, <1>10, <2>3 DEF GateTypeOK, OwnerTyped
  <2> QED BY <2>1, <2>4 DEF GateInv, GateRest
<1> QED BY <1>9, <1>11, <1>12

\* A request that is refused or answered at once, the connection as it was.
LEMMA DeniedStep ==
    ASSUME GateInv, NEW r \in offer, NEW a \in Answers, a # "data", Answer(r, a),
           offer' = offer \ {r}, UNCHANGED <<conn, work, readers, owner, poll, same, strays, told>>
    PROVE  GateInv'
<1>1. GateTypeOK /\ r \in Requests /\ answers[r] = <<>> BY DEF GateInv, GateTypeOK, Untouched
<1>2. GateRest' BY DenyStep, OwnerSame
<1>3. answers' \in [Requests -> Seq(Answers)] BY <1>1, FirstAnswer
<1>4. GateTypeOK' BY <1>1, <1>3 DEF GateTypeOK
<1> QED BY <1>2, <1>4 DEF GateInv, GateRest

\* A request of a client keeps the invariant.
LEMMA ClientSendsKeeps ==
    ASSUME GateInv, NEW c \in Clients, NEW r \in Requests, ClientSends(c, r)
    PROVE  GateInv'
<1>1. /\ r \in offer /\ Asked[r].client = c /\ offer' = offer \ {r} /\ offer' \subseteq offer
      /\ UNCHANGED <<poll, same, strays, told>>
    BY DEF ClientSends
<1>2. /\ GateTypeOK /\ conn[c] \in Connection
      /\ same' \in BOOLEAN /\ strays' \in 0..MaxStrays
    BY <1>1 DEF GateInv, GateTypeOK
<1>3. "denied" \in Answers /\ "error" \in Answers BY DEF Answers
<1>4. CASE Asked[r].kind = "initialized"
  <2>1. Forward(c, conn[c], r) /\ UNCHANGED <<work, readers, answers>> BY <1>4 DEF ClientSends
  <2>2. PICK j \in Connection :
         /\ conn' = [conn EXCEPT ![c] = j]
         /\ j = Gone(conn[c]) \/ (j.scope = conn[c].scope /\ j.pending = conn[c].pending)
      BY <1>2, <2>1, ForwardStep
  <2>3. OwnerTyped /\ OwnerGrows BY <1>2, <2>1, ForwardStep
  <2>4. CASE j = Gone(conn[c]) BY <1>1, <1>2, <2>1, <2>2, <2>3, <2>4, ClosesStep DEF OwnerTyped
  <2>5. CASE j.scope = conn[c].scope /\ j.pending = conn[c].pending
      BY <1>1, <1>2, <2>1, <2>2, <2>3, <2>5, ShiftStep DEF OwnerTyped
  <2> QED BY <2>2, <2>4, <2>5
<1>5. CASE Denied(c, r) BY <1>1, <1>3, <1>5, DeniedStep DEF Denied
<1>6. CASE Sets(c, Gone(conn[c])) /\ UNCHANGED <<work, readers, owner, answers>>
  <2>1. OwnerTyped /\ OwnerGrows BY <1>2, <1>6, OwnerGets
  <2> QED BY <1>1, <1>2, <1>6, <2>1, ClosesStep DEF OwnerTyped, Sets
<1>7. CASE SafePage(r) /\ Page(c, r) /\ UNCHANGED owner
  <2>1. CASE readers[Asked[r].kind] >= MaxReaders
    <3>1. Answer(r, "error") /\ UNCHANGED <<conn, work, readers>> BY <1>7, <2>1 DEF Page
    <3> QED BY <1>1, <1>3, <1>7, <3>1, DeniedStep
  <2>2. CASE ~(readers[Asked[r].kind] >= MaxReaders)
    <3>1. /\ Sets(c, [conn[c] EXCEPT !.pages = @ \cup {r}])
          /\ readers' = [readers EXCEPT ![Asked[r].kind] = @ + 1]
          /\ work' = [work EXCEPT ![r] = [call |-> "running", race |-> "open"]]
          /\ UNCHANGED answers
        BY <1>7, <2>2 DEF Page
    <3>2. Asked[r].kind \in Read BY <1>7 DEF SafePage
    <3>3. readers[Asked[r].kind] \in Nat /\ MaxReaders \in Nat BY <1>2, <3>2, GateAssumption DEF GateTypeOK
    <3>4. readers[Asked[r].kind] < MaxReaders BY <2>2, <3>3
    <3>5. GateRest' BY <1>1, <1>7, <3>1, <3>2, <3>4, PageStep, OwnerSame DEF Sets
    <3>6. PICK k : k = [conn[c] EXCEPT !.pages = @ \cup {r}] OBVIOUS
    <3>7. k \in Connection /\ k.scope = conn[c].scope BY <1>2, <3>6 DEF Connection
    <3>8. /\ conn' \in [Clients \cup StateClients -> Connection]
          /\ \A d \in Clients : conn'[d].scope # None => Len(conn'[d].scope.buffered) <= MaxBuffered
        BY <1>2, <3>1, <3>6, <3>7, ConnTyped DEF Sets
    <3>9. work' \in [Requests -> [call : {"none", "running", "ended"}, race : {"open", "decided"}]]
        BY <1>2, <3>1 DEF GateTypeOK
    <3>10. readers' \in [Read -> Nat] BY <1>2, <3>1, <3>2 DEF GateTypeOK
    <3>11. GateTypeOK' BY <1>1, <1>2, <1>7, <3>1, <3>8, <3>9, <3>10 DEF GateTypeOK
    <3> QED BY <3>5, <3>11 DEF GateInv, GateRest
  <2> QED BY <2>1, <2>2
<1>8. CASE ~Refused(c, r) /\ ~SafePage(r) /\ Passed(c, r) BY <1>1, <1>8, PassedStep
<1> QED BY <1>4, <1>5, <1>6, <1>7, <1>8 DEF ClientSends

\* A request on the state socket keeps the invariant.
LEMMA StateSendsKeeps ==
    ASSUME GateInv, NEW c \in StateClients, NEW r \in Requests, StateSends(c, r)
    PROVE  GateInv'
<1>1. /\ r \in offer /\ Asked[r].client = c /\ offer' = offer \ {r} /\ offer' \subseteq offer
      /\ UNCHANGED <<work, readers, poll, same, strays, told>>
    BY DEF StateSends
<1>2. /\ GateTypeOK /\ conn[c] \in Connection
      /\ same' \in BOOLEAN /\ strays' \in 0..MaxStrays
    BY <1>1 DEF GateInv, GateTypeOK
<1>3. "denied" \in Answers /\ c \notin Clients BY GateAssumption DEF Answers
<1>4. owner' = owner \/ owner' = [owner EXCEPT !.got = @ \cup {r}] BY DEF StateSends
<1>5. OwnerTyped /\ OwnerGrows BY <1>2, <1>4, OwnerGets
<1>6. CASE Sets(c, Gone(conn[c])) /\ UNCHANGED answers
    BY <1>1, <1>2, <1>5, <1>6, ClosesStep DEF OwnerTyped, Sets
<1>7. CASE Answer(r, "denied") /\ UNCHANGED <<conn, owner>> BY <1>1, <1>3, <1>7, DeniedStep
<1>8. ASSUME NEW k, k \in {[conn[c] EXCEPT !.pending = @ \cup {r}],
                           [conn[c] EXCEPT !.queue = Append(@, r), !.pending = @ \cup {r}]},
             Sets(c, k), UNCHANGED answers
      PROVE  GateInv'
  <2>1. Append(conn[c].queue, r) \in Seq(Requests) BY <1>2 DEF Connection
  <2>2. k \in Connection /\ k.pending = conn[c].pending \cup {r} /\ k.scope = conn[c].scope
    <3>1. CASE k = [conn[c] EXCEPT !.pending = @ \cup {r}] BY <1>2, <3>1 DEF Connection
    <3>2. CASE k = [conn[c] EXCEPT !.queue = Append(@, r), !.pending = @ \cup {r}]
        BY <1>2, <2>1, <3>2 DEF Connection
    <3> QED BY <1>8, <3>1, <3>2
  <2>3. conn' = [conn EXCEPT ![c] = k] BY <1>8 DEF Sets
  <2>4. GateRest' BY <1>1, <1>3, <1>5, <1>8, <2>2, <2>3, AskStep
  <2>5. /\ conn' \in [Clients \cup StateClients -> Connection]
        /\ \A d \in Clients : conn'[d].scope # None => Len(conn'[d].scope.buffered) <= MaxBuffered
      BY <1>2, <2>2, <2>3, ConnTyped
  <2>6. GateTypeOK' BY <1>1, <1>2, <1>5, <1>8, <2>5 DEF GateTypeOK, OwnerTyped
  <2> QED BY <2>4, <2>6 DEF GateInv, GateRest
<1>9. CASE ~Holds(conn[c], Asked[r].id) /\ Asked[r].safe
  <2>1. UNCHANGED answers BY <1>9 DEF StateSends
  <2>2. Sets(c, Gone(conn[c])) \/ Sets(c, [conn[c] EXCEPT !.pending = @ \cup {r}])
        \/ Sets(c, [conn[c] EXCEPT !.queue = Append(@, r), !.pending = @ \cup {r}])
      BY <1>9 DEF StateSends, Sets
  <2> QED BY <1>6, <1>8, <2>1, <2>2
<1> QED BY <1>6, <1>7, <1>9 DEF StateSends

\* An answer on the state socket keeps the invariant.
LEMMA StateAnswersKeeps ==
    ASSUME GateInv, NEW c \in StateClients, NEW r \in Requests, NEW body \in {"error", "odd", "result"},
           StateAnswers(c, r, body)
    PROVE  GateInv'
<1>1. /\ r \in conn[c].pending /\ owner' = [owner EXCEPT !.answered = @ \cup {r}]
      /\ UNCHANGED <<offer, work, readers, poll, same, strays, told>>
    BY DEF StateAnswers
<1>2. /\ GateTypeOK /\ conn[c] \in Connection
      /\ same' \in BOOLEAN /\ strays' \in 0..MaxStrays
    BY <1>1 DEF GateInv, GateTypeOK
<1>3. OwnerTyped /\ OwnerGrows BY <1>1, <1>2 DEF OwnerTyped, OwnerGrows, GateTypeOK
<1>4. PICK k : k = [conn[c] EXCEPT !.pending = conn[c].pending \ {r}] OBVIOUS
<1>5. CASE Sets(c, Gone(k)) /\ UNCHANGED answers
    BY <1>1, <1>2, <1>3, <1>5, ClosesStep DEF OwnerTyped, Sets
<1>6. CASE Sets(c, k) /\ Answer(r, IF body = "error" THEN "error" ELSE "data")
  <2>1. PICK a \in Answers : a = IF body = "error" THEN "error" ELSE "data" BY DEF Answers
  <2>2. conn' = [conn EXCEPT ![c] = k] BY <1>6 DEF Sets
  <2>3. GateRest' BY <1>1, <1>3, <1>4, <1>6, <2>1, <2>2, RepliedStep
  <2>4. k \in Connection /\ k.scope = conn[c].scope BY <1>2, <1>4 DEF Connection
  <2>5. /\ conn' \in [Clients \cup StateClients -> Connection]
        /\ \A d \in Clients : conn'[d].scope # None => Len(conn'[d].scope.buffered) <= MaxBuffered
      BY <1>2, <2>2, <2>4, ConnTyped
  <2>6. answers[r] = <<>> BY <1>1 DEF GateInv, Awaited
  <2>7. answers' \in [Requests -> Seq(Answers)] BY <1>2, <1>6, <2>1, <2>6, FirstAnswer
  <2>8. GateTypeOK' BY <1>1, <1>2, <1>3, <2>5, <2>7 DEF GateTypeOK, OwnerTyped
  <2> QED BY <2>3, <2>8 DEF GateInv, GateRest
<1> QED BY <1>4, <1>5, <1>6 DEF StateAnswers

-----------------------------------------------------------------------------
(* What the owner says.                                                      *)

\* What does not depend on scopes and notes, when a client's scope or the notes it was told
\* change and nothing is answered.
LEMMA NoteRest ==
    ASSUME GateInv, NEW c \in Clients, NEW k, conn' = [conn EXCEPT ![c] = k],
           k.pending = conn[c].pending, OwnerGrows, UNCHANGED <<offer, work, readers, answers>>
    PROVE  Awaited' /\ Untouched' /\ Racing' /\ AnsweredAtMost' /\ Counted' /\ Accepted'
<1>1. conn \in [Clients \cup StateClients -> Connection] BY DEF GateInv, GateTypeOK
<1>2. \A d \in Clients \cup StateClients : conn'[d].pending = conn[d].pending BY <1>1
<1>3. Awaited' BY <1>2 DEF GateInv, Awaited
<1>4. Untouched' /\ Racing' /\ AnsweredAtMost' BY DEF GateInv, Untouched, Racing, AnsweredAtMost
<1>5. Counted' BY DEF GateInv, Counted, RunningReads
<1>6. Accepted' BY DEF GateInv, Accepted, OwnerGrows
<1> QED BY <1>3, <1>4, <1>5, <1>6

\* The scopes of the other clients are as they were.
LEMMA OtherScopes ==
    ASSUME GateInv, NEW c \in Clients, NEW k, conn' = [conn EXCEPT ![c] = k], OwnerGrows,
           DataStays,
           \A d \in Clients : d # c => told'[d] = told[d],
           NEW d \in Clients, d # c, conn'[d].scope # None
    PROVE  Scoped(d, conn[d].scope)'
<1>1. conn'[d] = conn[d] BY DEF GateInv, GateTypeOK
<1>2. conn[d].scope # None BY <1>1
<1>3. conn[d].scope.by \in Requests /\ Scoped(d, conn[d].scope) BY <1>2, ScopeFacts
<1>4. conn[d].scope.turn # None => answers'[conn[d].scope.by] = answers[conn[d].scope.by]
    BY <1>3 DEF Scoped, DataStays
<1>5. conn[d].scope.turn = None => conn[d].scope.by \in conn'[d].pending BY <1>1, <1>3 DEF Scoped
<1> QED BY <1>1, <1>2, <1>4, <1>5, ScopeStays

\* A note of a turn the owner gives as its next one comes before the end of that turn.
NextNote(c, n) ==
    /\ n \in Note /\ n.clean
    /\ n.turn # None => owner.stage[n.turn] < 3 /\ Asked[n.turn].client = c
    /\ n.turn # None /\ n.what = "completed" => owner'.stage[n.turn] = 3

\* A kept note more keeps what is known of the kept notes.
LEMMA KeptAppend ==
    ASSUME NEW c, NEW n, NextNote(c, n), OwnerGrows, NEW s \in Seq(Note), Kept(s)
    PROVE  Kept(Append(s, n))' /\ Append(s, n) \in Seq(Note) /\ Len(Append(s, n)) = Len(s) + 1
<1> DEFINE u == Append(s, n)
<1>1. n \in Note BY DEF NextNote
<1>2. /\ u \in Seq(Note) /\ Len(u) = Len(s) + 1 /\ Len(s) \in Nat /\ u[Len(s) + 1] = n
      /\ DOMAIN u = 1 .. Len(s) + 1 /\ DOMAIN s = 1 .. Len(s)
      /\ \A i \in 1 .. Len(s) : u[i] = s[i]
    BY <1>1
<1> HIDE DEF u
<1>3. \A i \in DOMAIN u : i = Len(s) + 1 \/ i \in DOMAIN s BY <1>2
<1>4. \A i \in DOMAIN s : s[i] \in Note BY <1>2
<1>5. \A i \in DOMAIN u : u[i].clean BY <1>2, <1>3 DEF Kept, NextNote
<1>6. ASSUME NEW i \in DOMAIN u, u[i].what = "completed", u[i].turn # None
      PROVE  owner'.stage[u[i].turn] = 3
  <2>1. CASE i = Len(s) + 1 BY <1>2, <1>6, <2>1 DEF NextNote
  <2>2. CASE i \in DOMAIN s
    <3>1. s[i].turn \in TurnRequests /\ owner.stage[s[i].turn] = 3
        BY <1>2, <1>4, <1>6, <2>2 DEF Kept, Note
    <3> QED BY <1>2, <2>2, <3>1 DEF OwnerGrows
  <2> QED BY <1>3, <2>1, <2>2
<1>7. ASSUME NEW i \in DOMAIN u, NEW j \in DOMAIN u,
             u[i].what = "completed", u[i].turn # None, i < j
      PROVE  u[j].turn # u[i].turn
  <2>1. i \in DOMAIN s BY <1>2, <1>7
  <2>2. u[i] = s[i] /\ owner.stage[s[i].turn] = 3 BY <1>2, <1>7, <2>1 DEF Kept
  <2>3. CASE j = Len(s) + 1
    <3>1. u[j] = n BY <1>2, <2>3
    <3>2. n.turn = s[i].turn => owner.stage[s[i].turn] < 3 BY <1>7, <2>2 DEF NextNote
    <3> QED BY <2>2, <3>1, <3>2
  <2>4. CASE j \in DOMAIN s BY <1>2, <1>7, <2>1, <2>4 DEF Kept, EndedLast
  <2> QED BY <1>3, <2>3, <2>4
<1>8. Kept(u)' BY <1>5, <1>6, <1>7 DEF Kept, EndedLast
<1> QED BY <1>2, <1>8 DEF u

\* Notes more are about a turn of the client it was given, in their order, after none that
\* ended it: what the client was told stays in order.
LEMMA ToldMore ==
    ASSUME GateInv, NEW c \in Clients, NEW notes \in Seq(Note), NEW r \in TurnRequests, Tell(c, notes),
           Asked[r].client = c, answers'[r] = <<"data">>, DataStays, KeptFor(r, notes), NotEnded(c, r)
    PROVE  /\ ToldTo' /\ told' \in [Clients -> Seq(Note)]
           /\ (\A i \in DOMAIN notes : notes[i].what # "completed") => NotEnded(c, r)'
           /\ \A d \in Clients : d # c => told'[d] = told[d]
<1> DEFINE s == told[c]
           u == s \o notes
<1>1. told \in [Clients -> Seq(Note)] BY DEF GateInv, GateTypeOK
<1>2. s \in Seq(Note) /\ told'[c] = u /\ \A d \in Clients : d # c => told'[d] = told[d]
    BY <1>1 DEF Tell
<1>3. /\ u \in Seq(Note) /\ Len(u) = Len(s) + Len(notes) /\ Len(s) \in Nat /\ Len(notes) \in Nat
      /\ \A i \in 1 .. Len(s) + Len(notes) : u[i] = IF i <= Len(s) THEN s[i] ELSE notes[i - Len(s)]
    BY <1>2, ConcatProperties
<1>4. told' \in [Clients -> Seq(Note)] BY <1>1, <1>2, <1>3 DEF Tell
<1>5. /\ \A i \in DOMAIN s : /\ s[i].clean /\ s[i].turn # None /\ Asked[s[i].turn].client = c
                             /\ answers[s[i].turn] = <<"data">>
      /\ EndedLast(s)
    BY DEF GateInv, ToldTo
<1> HIDE DEF u, s
<1>6. ASSUME NEW i \in DOMAIN u
      PROVE  \/ i \in DOMAIN s /\ u[i] = s[i]
             \/ i > Len(s) /\ i - Len(s) \in DOMAIN notes /\ u[i] = notes[i - Len(s)]
  <2>1. i \in 1 .. Len(s) + Len(notes) BY <1>3
  <2>2. CASE i <= Len(s) BY <1>2, <1>3, <2>1, <2>2
  <2>3. CASE ~(i <= Len(s))
    <3>1. i - Len(s) \in 1 .. Len(notes) BY <1>3, <2>1, <2>3
    <3> QED BY <1>3, <2>1, <2>3, <3>1
  <2> QED BY <2>2, <2>3
<1>7. \A i \in DOMAIN s : s[i].turn \in Requests
  <2>1. \A i \in DOMAIN s : s[i] \in Note BY <1>2
  <2> QED BY <1>5, <2>1 DEF Note, TurnRequests
<1>8. r # None /\ r \in Requests BY GateAssumption DEF TurnRequests
<1>9. ASSUME NEW i \in DOMAIN u
      PROVE  u[i].clean /\ u[i].turn # None /\ Asked[u[i].turn].client = c /\ answers'[u[i].turn] = <<"data">>
  <2>1. CASE i \in DOMAIN s /\ u[i] = s[i]
    <3>1. s[i].turn \in Requests /\ answers[s[i].turn] = <<"data">> BY <1>5, <1>7, <2>1
    <3> QED BY <1>5, <2>1, <3>1 DEF DataStays
  <2>2. CASE i - Len(s) \in DOMAIN notes /\ u[i] = notes[i - Len(s)] BY <1>8, <2>2 DEF KeptFor
  <2> QED BY <1>6, <2>1, <2>2
<1>10. ASSUME NEW i \in DOMAIN u, NEW j \in DOMAIN u, u[i].what = "completed", u[i].turn # None, i < j
       PROVE  u[j].turn # u[i].turn
  <2>1. i \in Int /\ j \in Int BY <1>3
  <2>2. CASE i \in DOMAIN s /\ u[i] = s[i]
    <3>1. CASE j \in DOMAIN s /\ u[j] = s[j] BY <1>5, <1>10, <2>2, <3>1 DEF EndedLast
    <3>2. CASE j - Len(s) \in DOMAIN notes /\ u[j] = notes[j - Len(s)]
        BY <1>10, <2>2, <3>2 DEF s, KeptFor, NotEnded
    <3> QED BY <1>6, <3>1, <3>2
  <2>3. CASE i > Len(s) /\ i - Len(s) \in DOMAIN notes /\ u[i] = notes[i - Len(s)]
    <3>1. j > Len(s) BY <1>3, <1>10, <2>1, <2>3
    <3>2. j - Len(s) \in DOMAIN notes
      <4>1. j \notin DOMAIN s BY <1>2, <2>1, <3>1, <1>3
      <4> QED BY <1>6, <4>1
    <3>3. j - Len(s) <= i - Len(s) BY <1>10, <2>3, <3>2 DEF KeptFor
    <3> QED BY <1>3, <1>10, <2>1, <3>3
  <2> QED BY <1>6, <2>2, <2>3
<1>11. ToldTo'
  <2> SUFFICES ASSUME NEW d \in Clients
               PROVE  /\ \A i \in DOMAIN told'[d] :
                            /\ told'[d][i].clean /\ told'[d][i].turn # None
                            /\ Asked[told'[d][i].turn].client = d /\ answers'[told'[d][i].turn] = <<"data">>
                      /\ EndedLast(told'[d])
      BY DEF ToldTo, EndedLast
  <2>1. CASE d = c
    <3>1. EndedLast(u) BY <1>10 DEF EndedLast
    <3> QED BY <1>2, <1>9, <2>1, <3>1
  <2>2. CASE d # c
    <3>1. told'[d] = told[d] /\ told[d] \in Seq(Note) BY <1>1, <1>2, <2>2
    <3>2. \A i \in DOMAIN told[d] : told[d][i] \in Note BY <3>1
    <3>3. /\ \A i \in DOMAIN told[d] : /\ told[d][i].clean /\ told[d][i].turn # None
                                       /\ Asked[told[d][i].turn].client = d /\ answers[told[d][i].turn] = <<"data">>
          /\ EndedLast(told[d])
        BY DEF GateInv, ToldTo
    <3>4. \A i \in DOMAIN told[d] : told[d][i].turn \in Requests BY <3>2, <3>3 DEF Note, TurnRequests
    <3> QED BY <3>1, <3>3, <3>4 DEF DataStays
  <2> QED BY <2>1, <2>2
<1>12. ASSUME \A i \in DOMAIN notes : notes[i].what # "completed"
       PROVE  NotEnded(c, r)'
  <2> SUFFICES ASSUME NEW i \in DOMAIN told'[c], told'[c][i].turn = r
               PROVE  told'[c][i].what # "completed"
      BY DEF NotEnded
  <2>1. i \in DOMAIN u /\ told'[c][i] = u[i] BY <1>2
  <2>2. CASE i \in DOMAIN s /\ u[i] = s[i] BY <2>1, <2>2 DEF s, NotEnded
  <2>3. CASE i - Len(s) \in DOMAIN notes /\ u[i] = notes[i - Len(s)] BY <1>12, <2>1, <2>3
  <2> QED BY <1>6, <2>1, <2>2, <2>3
<1> QED BY <1>2, <1>4, <1>11, <1>12

\* A notification that is noted keeps the invariant.
LEMMA NotedStep ==
    ASSUME GateInv, NEW c \in Clients, NEW n, NextNote(c, n), Noted(c, n), OwnerGrows, OwnerTyped,
           UNCHANGED <<offer, work, readers, same, poll, answers>>, strays' \in 0..MaxStrays
    PROVE  GateInv'
<1>1. /\ GateTypeOK /\ conn[c] \in Connection /\ conn \in [Clients \cup StateClients -> Connection]
      /\ same' \in BOOLEAN
    BY DEF GateInv, GateTypeOK
<1> DEFINE s == conn[c].scope
<1>2. CASE UNCHANGED <<conn, told>> BY <1>1, <1>2, StillStep DEF OwnerTyped
<1>3. CASE s # None /\ s.turn = None /\ Len(s.buffered) < MaxBuffered /\ told' = told
           /\ Sets(c, [conn[c] EXCEPT !.scope.buffered = Append(@, n)])
  <2>1. s \in Scope /\ s.buffered \in Seq(Note) /\ Scoped(c, s) BY <1>3, ScopeFacts
  <2>2. Kept(s.buffered) BY <2>1 DEF Scoped
  <2>3. PICK b \in Seq(Note) : b = s.buffered BY <2>1
  <2>4. PICK u : u = Append(b, n) OBVIOUS
  <2>5. Kept(u)' /\ u \in Seq(Note) /\ Len(u) = Len(b) + 1 BY <2>2, <2>3, <2>4, KeptAppend
  <2>6. PICK z : z = [s EXCEPT !.buffered = u] OBVIOUS
  <2>7. /\ z \in Scope /\ z.by = s.by /\ z.turn = s.turn /\ z.count = s.count /\ z.buffered = u
      BY <2>1, <2>5, <2>6 DEF Scope
  <2>8. PICK k : k = [conn[c] EXCEPT !.scope = z] OBVIOUS
  <2>9. k \in Connection /\ k.pending = conn[c].pending /\ k.scope = z BY <1>1, <2>7, <2>8 DEF Connection
  <2>10. conn' = [conn EXCEPT ![c] = k] BY <1>1, <1>3, <2>3, <2>4, <2>6, <2>8 DEF Sets, Connection
  <2>11. Len(z.buffered) <= MaxBuffered
    <3>1. Len(b) \in Nat /\ MaxBuffered \in Nat BY <2>3, GateAssumption
    <3> QED BY <1>3, <2>3, <2>5, <2>7, <3>1
  <2>12. /\ conn' \in [Clients \cup StateClients -> Connection]
         /\ \A d \in Clients : conn'[d].scope # None => Len(conn'[d].scope.buffered) <= MaxBuffered
      BY <1>1, <2>9, <2>10, <2>11, ConnTyped
  <2>13. GateTypeOK' BY <1>1, <1>3, <2>12 DEF GateTypeOK, OwnerTyped
  <2>14. Awaited' /\ Untouched' /\ Racing' /\ AnsweredAtMost' /\ Counted' /\ Accepted'
      BY <2>9, <2>10, NoteRest
  <2>15. conn'[c] = k BY <1>1, <2>10
  <2>16. Scopes'
    <3> SUFFICES ASSUME NEW d \in Clients, conn'[d].scope # None
                 PROVE  Scoped(d, conn[d].scope)'
        BY DEF Scopes
    <3>1. CASE d = c
      <4>1. conn'[d].scope = z /\ conn'[d].pending = conn[c].pending BY <2>9, <2>15, <3>1
      <4>2. Kept(conn[d].scope.buffered)'
        <5>1. conn'[d].scope.buffered = u BY <4>1, <2>7
        <5> QED BY <5>1, <2>5 DEF Kept, EndedLast
      <4> QED BY <1>3, <2>1, <2>7, <3>1, <4>1, <4>2 DEF Scoped
    <3>2. CASE d # c
      <4>1. DataStays BY DEF DataStays
      <4> QED BY <1>3, <2>10, <3>2, <4>1, OtherScopes
    <3> QED BY <3>1, <3>2
  <2>17. TurnAwaited'
    <3>1. z # None BY <2>7, GateAssumption
    <3>2. \A d \in Clients : conn'[d].pending = conn[d].pending /\ (d # c => conn'[d] = conn[d])
        BY <1>1, <2>9, <2>10
    <3> QED BY <1>3, <2>7, <2>9, <2>15, <3>1, <3>2 DEF GateInv, TurnAwaited
  <2>18. PolledTurns' BY DEF GateInv, PolledTurns
  <2>19. ToldTo'
    <3>1. DataStays BY DEF DataStays
    <3> QED BY <1>3, <3>1, ToldStays
  <2> QED BY <2>13, <2>14, <2>16, <2>17, <2>18, <2>19 DEF GateInv
<1>4. CASE Sets(c, Gone(conn[c])) /\ told' = told
    BY <1>1, <1>4, ClosesStep DEF OwnerTyped, Sets
<1>5. CASE /\ s # None /\ s.turn # None /\ IsFor(s.turn, n) /\ s.count + 1 <= MaxNotes /\ Tell(c, <<n>>)
           /\ Sets(c, [conn[c] EXCEPT !.scope = IF n.what = "completed" THEN None
                                                ELSE [s EXCEPT !.count = @ + 1]])
  <2>1. s \in Scope /\ s.buffered \in Seq(Note) /\ s.by \in TurnRequests /\ s.by \in Requests /\ s.count \in 0 .. MaxNotes /\ Scoped(c, s)
      BY <1>5, ScopeFacts
  <2>2. /\ s.turn = s.by /\ answers[s.by] = <<"data">> /\ Asked[s.by].client = c /\ Kept(s.buffered)
        /\ NotEnded(c, s.by)
      BY <1>5, <2>1 DEF Scoped
  <2>3. PICK r \in TurnRequests : r = s.by BY <2>1
  <2>4. n \in Note /\ n.turn = r /\ n.clean BY <1>5, <2>2, <2>3 DEF IsFor, NextNote
  <2>5. <<n>> \in Seq(Note) /\ DOMAIN <<n>> = {1} /\ <<n>>[1] = n BY <2>4
  <2>6. \A i \in DOMAIN <<n>> : <<n>>[i].turn = r /\ <<n>>[i].clean BY <2>4, <2>5
  <2>7. \A i, j \in DOMAIN <<n>> : <<n>>[i].what = "completed" => j <= i BY <2>5
  <2>8. \A i \in DOMAIN <<n>> : <<n>>[i].what = n.what BY <2>5
  <2>9. answers'[r] = <<"data">> /\ DataStays BY <2>2, <2>3 DEF DataStays
  <2>10. PICK m \in Seq(Note) : m = <<n>> BY <2>5
  <2>11. /\ ToldTo' /\ told' \in [Clients -> Seq(Note)]
         /\ (\A i \in DOMAIN m : m[i].what # "completed") => NotEnded(c, r)'
         /\ \A d \in Clients : d # c => told'[d] = told[d]
    <3>1. KeptFor(r, m) BY <2>6, <2>7, <2>10 DEF KeptFor
    <3>2. Asked[r].client = c /\ NotEnded(c, r) /\ Tell(c, m) BY <1>5, <2>2, <2>3, <2>10
    <3> QED BY <2>9, <3>1, <3>2, ToldMore
  <2>12. PICK z : z = IF n.what = "completed" THEN None ELSE [s EXCEPT !.count = s.count + 1] OBVIOUS
  <2>13. z # None => /\ n.what # "completed" /\ z.by = s.by /\ z.turn = s.turn
                     /\ z.buffered = s.buffered /\ z.count \in 0 .. MaxNotes /\ z \in Scope
    <3> SUFFICES ASSUME z # None
                 PROVE  /\ n.what # "completed" /\ z.by = s.by /\ z.turn = s.turn
                        /\ z.buffered = s.buffered /\ z.count \in 0 .. MaxNotes /\ z \in Scope
        OBVIOUS
    <3>1. z = [s EXCEPT !.count = s.count + 1] /\ n.what # "completed" BY <2>12
    <3>2. s.count + 1 \in 0 .. MaxNotes
      <4>1. MaxNotes \in Nat BY GateAssumption
      <4>2. PICK v \in 0 .. MaxNotes : v = s.count BY <2>1
      <4>3. v + 1 <= MaxNotes BY <1>5, <4>2
      <4>4. v \in Nat /\ v + 1 \in 0 .. MaxNotes BY <4>1, <4>2, <4>3, UpTo
      <4> QED BY <4>2, <4>4
    <3> HIDE DEF s
    <3> QED BY <2>1, <3>1, <3>2 DEF Scope
  <2>14. PICK k : k = [conn[c] EXCEPT !.scope = z] OBVIOUS
  <2>15. z \in Scope \cup {None} BY <2>13
  <2>16. k \in Connection /\ k.pending = conn[c].pending /\ k.scope = z BY <1>1, <2>14, <2>15 DEF Connection
  <2>17. conn' = [conn EXCEPT ![c] = k] BY <1>1, <1>5, <2>12, <2>14 DEF Sets, Connection
  <2>18. k.scope = None \/ Len(k.scope.buffered) <= MaxBuffered
      BY <1>1, <1>5, <2>13, <2>16 DEF GateTypeOK
  <2>19. /\ conn' \in [Clients \cup StateClients -> Connection]
         /\ \A d \in Clients : conn'[d].scope # None => Len(conn'[d].scope.buffered) <= MaxBuffered
      BY <1>1, <2>16, <2>17, <2>18, ConnTyped
  <2>20. GateTypeOK' BY <1>1, <2>11, <2>19 DEF GateTypeOK, OwnerTyped
  <2>21. Awaited' /\ Untouched' /\ Racing' /\ AnsweredAtMost' /\ Counted' /\ Accepted'
      BY <2>16, <2>17, NoteRest
  <2>22. conn'[c] = k BY <1>1, <2>17
  <2>23. Scopes'
    <3> SUFFICES ASSUME NEW d \in Clients, conn'[d].scope # None
                 PROVE  Scoped(d, conn[d].scope)'
        BY DEF Scopes
    <3>1. CASE d = c
      <4>1. conn'[d].scope = z /\ z # None BY <2>16, <2>22, <3>1
      <4>2. Kept(conn[d].scope.buffered)'
        <5>1. PICK b \in Seq(Note) : b = s.buffered BY <2>1
        <5>2. Kept(b)' BY <2>2, <5>1, KeptStays
        <5>3. conn'[d].scope.buffered = b BY <2>13, <4>1, <5>1
        <5> QED BY <5>2, <5>3 DEF Kept, EndedLast
      <4>3. NotEnded(c, r)'
          BY <2>8, <2>10, <2>11, <2>13, <4>1
      <4>4. z.turn # None /\ z.turn = z.by /\ z.by = r /\ Asked[z.by].client = d
          BY <1>5, <2>2, <2>3, <2>13, <3>1, <4>1
      <4> QED BY <2>9, <3>1, <4>1, <4>2, <4>3, <4>4 DEF Scoped
    <3>2. CASE d # c BY <2>9, <2>11, <2>17, <3>2, OtherScopes
    <3> QED BY <3>1, <3>2
  <2>24. TurnAwaited'
    <3>1. \A q \in TurnRequests : q \notin conn[c].pending
      <4> SUFFICES ASSUME NEW q \in TurnRequests, q \in conn[c].pending PROVE FALSE OBVIOUS
      <4>1. q = r BY <2>3 DEF GateInv, TurnAwaited
      <4>2. answers[r] = <<>> BY <4>1 DEF GateInv, Awaited
      <4>3. <<>> # <<"data">> OBVIOUS
      <4> QED BY <2>2, <2>3, <4>2, <4>3
    <3>2. \A d \in Clients : conn'[d].pending = conn[d].pending /\ (d # c => conn'[d] = conn[d])
        BY <1>1, <2>16, <2>17
    <3> QED BY <3>1, <3>2 DEF GateInv, TurnAwaited
  <2>25. PolledTurns' BY DEF GateInv, PolledTurns
  <2> QED BY <2>11, <2>20, <2>21, <2>23, <2>24, <2>25 DEF GateInv
<1>6. n.clean BY DEF NextNote
<1>7. s # None => s.buffered \in Seq(Note) /\ s.count \in 0 .. MaxNotes BY ScopeFacts
<1>8. MaxBuffered \in Nat /\ MaxNotes \in Nat BY GateAssumption
<1>9. CASE s = None BY <1>2, <1>9 DEF Noted
<1>10. CASE s # None /\ s.turn = None
  <2>1. CASE Len(s.buffered) >= MaxBuffered
    <3>1. Sets(c, conn[c]) /\ told' = told BY <1>6, <1>10, <2>1 DEF Noted
    <3>2. conn' = conn BY <1>1, <3>1 DEF Sets
    <3> QED BY <1>2, <3>1, <3>2
  <2>2. CASE ~(Len(s.buffered) >= MaxBuffered)
    <3>1. Len(s.buffered) < MaxBuffered BY <1>7, <1>8, <1>10, <2>2
    <3> QED BY <1>3, <1>6, <1>10, <2>2, <3>1 DEF Noted
  <2> QED BY <2>1, <2>2
<1>11. CASE s # None /\ s.turn # None
  <2>1. CASE ~IsFor(s.turn, n) BY <1>2, <1>6, <1>11, <2>1 DEF Noted
  <2>2. CASE IsFor(s.turn, n) /\ s.count + 1 > MaxNotes BY <1>4, <1>6, <1>11, <2>2 DEF Noted
  <2>3. CASE IsFor(s.turn, n) /\ ~(s.count + 1 > MaxNotes)
    <3>1. s.count + 1 <= MaxNotes BY <1>7, <1>8, <1>11, <2>3
    <3> QED BY <1>5, <1>6, <1>11, <2>3, <3>1 DEF Noted
  <2> QED BY <2>1, <2>2, <2>3
<1> QED BY <1>9, <1>10, <1>11

\* The owner's side hangs up on a client whose socket was replaced.
LEMMA UnheardStep ==
    ASSUME GateInv, NEW c \in Clients, Unheard(c), OwnerGrows, OwnerTyped,
           UNCHANGED <<offer, work, readers, same, strays>>
    PROVE  GateInv'
<1>1. conn' = [conn EXCEPT ![c] = Gone(conn[c])] /\ UNCHANGED <<answers, told, poll>>
    BY DEF Unheard, Sets
<1>2. same' \in BOOLEAN /\ strays' \in 0..MaxStrays BY DEF GateInv, GateTypeOK
<1> QED BY <1>1, <1>2, ClosesStep DEF OwnerTyped

\* A note of a turn keeps the invariant.
LEMMA OwnerNotesKeeps ==
    ASSUME GateInv, NEW c \in Clients, NEW r \in TurnRequests, OwnerNotes(c, r)
    PROVE  GateInv'
<1>1. /\ Asked[r].client = c /\ owner.stage[r] < 3 /\ owner' = [owner EXCEPT !.stage[r] = @ + 1]
      /\ UNCHANGED <<offer, work, readers, same, strays>>
    BY DEF OwnerNotes
<1>2. owner \in [got : SUBSET Requests, answered : SUBSET Requests, saved : SUBSET TurnRequests,
                 stage : [TurnRequests -> 0..3]] /\ strays' \in 0..MaxStrays
    BY <1>1 DEF GateInv, GateTypeOK
<1>3. PICK m \in 0 .. 2 : m = owner.stage[r]
  <2>1. owner.stage[r] \in 0 .. 3 BY <1>2
  <2> QED BY <1>1, <2>1
<1>4. owner' = [owner EXCEPT !.stage = [owner.stage EXCEPT ![r] = m + 1]] BY <1>1, <1>3
<1>5. m + 1 \in 0 .. 3 OBVIOUS
<1>6. OwnerTyped BY <1>2, <1>4, <1>5 DEF OwnerTyped
<1>7. /\ owner'.stage[r] = m + 1 /\ owner'.answered = owner.answered
      /\ \A t \in TurnRequests : t # r => owner'.stage[t] = owner.stage[t]
    BY <1>2, <1>4
<1>8. OwnerGrows BY <1>3, <1>7 DEF OwnerGrows
<1>9. PICK what : what = <<"started", "item", "completed">>[m + 1] OBVIOUS
<1>10. what \in Whats /\ (what = "completed" => m + 1 = 3)
  <2>1. CASE m = 0 BY <1>9, <2>1 DEF Whats
  <2>2. CASE m = 1 BY <1>9, <2>2 DEF Whats
  <2>3. CASE m = 2 BY <1>9, <2>3 DEF Whats
  <2> QED BY <2>1, <2>2, <2>3
<1>11. PICK n : n = [turn |-> r, what |-> what, clean |-> TRUE] OBVIOUS
<1>12. n \in Note /\ n.turn = r /\ n.what = what /\ n.clean BY <1>10, <1>11 DEF Note
<1>13. NextNote(c, n) BY <1>1, <1>7, <1>10, <1>12 DEF NextNote
<1>14. Unheard(c) \/ (Noted(c, n) /\ UNCHANGED <<answers, poll>>) BY <1>3, <1>9, <1>11 DEF OwnerNotes
<1>15. CASE Unheard(c) BY <1>1, <1>6, <1>8, <1>15, UnheardStep
<1>16. CASE Noted(c, n) /\ UNCHANGED <<answers, poll>>
    BY <1>1, <1>2, <1>6, <1>8, <1>13, <1>16, NotedStep
<1> QED BY <1>14, <1>15, <1>16

\* A note of something else keeps the invariant.
LEMMA OwnerStraysKeeps ==
    ASSUME GateInv, NEW c \in Clients, NEW n \in Note, OwnerStrays(c, n)
    PROVE  GateInv'
<1>1. /\ strays < MaxStrays /\ strays' = strays + 1 /\ Noted(c, n) /\ (n.turn = None \/ ~n.clean)
      /\ UNCHANGED <<offer, work, readers, poll, same, owner, answers>>
    BY DEF OwnerStrays
<1>2. GateTypeOK BY DEF GateInv
<1>3. OwnerGrows /\ OwnerTyped BY <1>1, <1>2, OwnerSame DEF OwnerTyped, GateTypeOK
<1>4. strays' \in 0..MaxStrays /\ same' \in BOOLEAN BY <1>1, <1>2, GateAssumption DEF GateTypeOK
<1>5. CASE n.clean
  <2>1. NextNote(c, n) BY <1>1, <1>5 DEF NextNote
  <2> QED BY <1>1, <1>3, <1>4, <2>1, NotedStep
<1>6. CASE ~n.clean
  <2>1. UNCHANGED <<conn, told>> BY <1>1, <1>6 DEF Noted
  <2> QED BY <1>1, <1>3, <1>4, <2>1, StillStep DEF OwnerTyped
<1> QED BY <1>5, <1>6

-----------------------------------------------------------------------------
(* What the owner answers.                                                   *)

\* A turn that waits for its answer has the scope of its client to itself, has been told
\* nothing of, and is the one turn its client waits for.
LEMMA TurnWaits ==
    ASSUME GateInv, NEW c \in Clients, NEW r \in TurnRequests, r \in conn[c].pending
    PROVE  LET s == conn[c].scope IN
           /\ s # None /\ s \in Scope /\ s.by = r /\ s.turn = None /\ s.count = 0
           /\ s.buffered \in Seq(Note) /\ Kept(s.buffered)
           /\ r \in Requests /\ r # None /\ Asked[r].client = c /\ Asked[r].kind = "turn"
           /\ answers[r] = <<>> /\ r \notin offer
           /\ \A q \in TurnRequests : q \in conn[c].pending => q = r
           /\ \A i \in DOMAIN told[c] : told[c][i].turn # r
<1> DEFINE s == conn[c].scope
<1>1. s # None /\ s.by = r /\ (\A q \in TurnRequests : q \in conn[c].pending => q = r)
    BY DEF GateInv, TurnAwaited
<1>2. s \in Scope /\ s.buffered \in Seq(Note) /\ Scoped(c, s) BY <1>1, ScopeFacts
<1>3. answers[r] = <<>> /\ r \notin offer /\ Asked[r].client = c BY DEF GateInv, Awaited
<1>4. <<>> # <<"data">> OBVIOUS
<1>5. s.turn = None BY <1>1, <1>2, <1>3, <1>4 DEF Scoped
<1>6. s.count = 0 /\ Kept(s.buffered) BY <1>2, <1>5 DEF Scoped
<1>7. r \in Requests /\ r # None /\ Asked[r].kind = "turn" BY GateAssumption DEF TurnRequests
<1>8. ASSUME NEW i \in DOMAIN told[c], told[c][i].turn = r PROVE FALSE
  <2>1. answers[told[c][i].turn] = <<"data">> BY DEF GateInv, ToldTo
  <2> QED BY <2>1, <1>3, <1>4, <1>8
<1> QED BY <1>1, <1>2, <1>3, <1>5, <1>6, <1>7, <1>8

\* The answer to a turn: what does not depend on the scope it leaves.
LEMMA TurnReply ==
    ASSUME GateInv, NEW c \in Clients, NEW r \in TurnRequests, r \in conn[c].pending, NEW a \in Answers, NEW k,
           conn' = [conn EXCEPT ![c] = k], k.pending \subseteq conn[c].pending \ {r}, Answer(r, a),
           r \in owner'.answered, OwnerGrows, UNCHANGED <<offer, work, readers>>
    PROVE  /\ Awaited' /\ Untouched' /\ Racing' /\ AnsweredAtMost' /\ Counted' /\ Accepted' /\ TurnAwaited'
           /\ answers' \in [Requests -> Seq(Answers)] /\ answers'[r] = <<a>>
           /\ DataStays
<1>1. /\ GateTypeOK /\ conn \in [Clients \cup StateClients -> Connection]
      /\ \A d \in Clients \cup StateClients : conn[d].pending \subseteq Requests
    BY DEF GateInv, GateTypeOK, Connection
<1>2. /\ r \in Requests /\ Asked[r].client = c /\ Asked[r].kind = "turn" /\ answers[r] = <<>> /\ r \notin offer
      /\ \A q \in TurnRequests : q \in conn[c].pending => q = r
    BY TurnWaits
<1>3. Answers1(r, a) /\ answers' \in [Requests -> Seq(Answers)] BY <1>1, <1>2, FirstAnswer
<1>4. /\ \A q \in Requests : q # r => answers'[q] = answers[q]
      /\ answers'[r] = <<a>>
      /\ DataStays
      /\ \A q \in Requests : answers'[q] = <<"data">> => answers[q] = <<"data">> \/ (q = r /\ a = "data")
      /\ AnsweredAtMost'
    BY <1>2, <1>3, AnswerStep
<1>5. \A d \in Clients \cup StateClients : d # c => conn'[d] = conn[d] BY <1>1
<1>6. conn'[c] = k BY <1>1
<1>7. \A d \in Clients \cup StateClients : \A q \in conn'[d].pending :
         q \in conn[d].pending /\ q # r /\ q \in Requests
    BY <1>1, <1>2, <1>5, <1>6 DEF GateInv, Awaited
<1>8. Awaited' BY <1>4, <1>7 DEF GateInv, Awaited
<1>9. work[r].race # "open" BY <1>2 DEF GateInv, Racing, Read
<1>10. Untouched' /\ Racing' /\ Counted' BY <1>2, <1>3, <1>9, ReadersStay
<1>11. Accepted'
  <2>1. \A q \in TurnRequests : q \in Requests BY DEF TurnRequests
  <2> QED BY <1>4, <2>1 DEF GateInv, Accepted, OwnerGrows
<1>12. TurnAwaited'
  <2> SUFFICES ASSUME NEW d \in Clients, NEW q \in TurnRequests, q \in conn'[d].pending
               PROVE  conn'[d].scope # None /\ conn'[d].scope.by = q
      BY DEF TurnAwaited
  <2>1. d # c BY <1>2, <1>7
  <2> QED BY <1>5, <1>7, <2>1 DEF GateInv, TurnAwaited
<1> QED BY <1>3, <1>4, <1>8, <1>10, <1>11, <1>12

\* A turn is polled for that was given to its client.
LEMMA PolledStay ==
    ASSUME GateInv, DataStays,
           \A t \in TurnRequests : poll'[t].phase # "off" =>
              poll[t].phase # "off" \/ (Asked[t].client \in Clients /\ answers'[t] = <<"data">>)
    PROVE  PolledTurns'
<1>1. \A t \in TurnRequests : t \in Requests BY DEF TurnRequests
<1> QED BY <1>1 DEF GateInv, PolledTurns, DataStays

\* The scope an answer leaves is that of its turn, whose end was not told.
LeftScope(c, r, a, s) ==
    /\ a = "data" /\ s.by = r /\ s.turn = r /\ s.buffered = <<>> /\ NotEnded(c, r)'

\* A poll may start, for the turn.
PollStarts(r) ==
    /\ poll' \in [TurnRequests -> [phase : {"off", "reading", "resting"}, tries : 0..MaxPolls]]
    /\ \A t \in TurnRequests : poll'[t].phase # "off" => poll[t].phase # "off" \/ t = r

\* The answer to a turn leaves its client without a scope, or with that turn's scope while
\* its end was not told; such a step keeps the invariant.
LEMMA TurnLeft ==
    ASSUME GateInv, NEW c \in Clients, NEW r \in TurnRequests, r \in conn[c].pending, NEW a \in Answers,
           Answer(r, a), NEW k \in Connection, conn' = [conn EXCEPT ![c] = k],
           k.pending \subseteq conn[c].pending \ {r}, r \in owner'.answered, OwnerGrows, OwnerTyped,
           UNCHANGED <<offer, work, readers, same, strays>>,
           ToldTo', told' \in [Clients -> Seq(Note)], \A d \in Clients : d # c => told'[d] = told[d],
           k.scope # None => LeftScope(c, r, a, k.scope), PollStarts(r), poll' = poll \/ a = "data"
    PROVE  GateInv'
<1>1. GateTypeOK /\ conn \in [Clients \cup StateClients -> Connection] BY DEF GateInv, GateTypeOK
<1>2. r # None /\ r \in Requests /\ Asked[r].client = c BY TurnWaits
<1>3. /\ Awaited' /\ Untouched' /\ Racing' /\ AnsweredAtMost' /\ Counted' /\ Accepted' /\ TurnAwaited'
      /\ answers' \in [Requests -> Seq(Answers)] /\ answers'[r] = <<a>>
      /\ DataStays
    BY TurnReply
<1>4. PolledTurns'
  <2>1. \A t \in TurnRequests : poll'[t].phase # "off" =>
           poll[t].phase # "off" \/ (Asked[t].client \in Clients /\ answers'[t] = <<"data">>)
      BY <1>2, <1>3 DEF PollStarts
  <2> QED BY <1>3, <2>1, PolledStay
<1>5. Scopes'
  <2> SUFFICES ASSUME NEW d \in Clients, conn'[d].scope # None
               PROVE  Scoped(d, conn[d].scope)'
      BY DEF Scopes
  <2>1. CASE d = c
    <3>1. conn'[d].scope = k.scope /\ k.scope # None BY <1>1, <2>1
    <3>2. LeftScope(c, r, a, k.scope) BY <3>1
    <3>3. Kept(conn[d].scope.buffered)' BY <3>1, <3>2 DEF Kept, EndedLast, LeftScope
    <3> QED BY <1>2, <1>3, <2>1, <3>1, <3>2, <3>3 DEF Scoped, LeftScope
  <2>2. CASE d # c BY <1>3, <2>2, OtherScopes
  <2> QED BY <2>1, <2>2
<1>6. k.scope = None \/ Len(k.scope.buffered) <= MaxBuffered
  <2>1. Len(<<>>) = 0 OBVIOUS
  <2> QED BY <2>1, GateAssumption DEF LeftScope
<1>7. /\ conn' \in [Clients \cup StateClients -> Connection]
      /\ \A d \in Clients : conn'[d].scope # None => Len(conn'[d].scope.buffered) <= MaxBuffered
    BY <1>1, <1>6, ConnTyped
<1>8. GateTypeOK' BY <1>1, <1>3, <1>7 DEF GateTypeOK, OwnerTyped, PollStarts
<1> QED BY <1>3, <1>4, <1>5, <1>8 DEF GateInv

\* The first notes of a sequence are as the sequence is.
LEMMA FirstNotes ==
    ASSUME NEW s \in Seq(Note), NEW n \in Nat, n < Len(s)
    PROVE  LET t == SubSeq(s, 1, n) IN
           /\ t \in Seq(Note) /\ DOMAIN t = 1 .. n /\ \A i \in 1 .. n : t[i] = s[i] /\ i \in DOMAIN s
<1>1. Len(s) \in Nat /\ DOMAIN s = 1 .. Len(s) OBVIOUS
<1>2. /\ SubSeq(s, 1, n) \in Seq(Note) /\ Len(SubSeq(s, 1, n)) = n
      /\ \A i \in 1 .. n : SubSeq(s, 1, n)[i] = s[i]
  <2>1. \A i \in 1 .. n : s[i] \in Note BY <1>1
  <2> QED BY <1>1, <2>1, SubSeqProperties
<1> QED BY <1>1, <1>2

\* A turn that is known keeps the invariant.
LEMMA TurnKnownKeeps ==
    ASSUME GateInv, NEW c \in Clients, NEW r \in TurnRequests, r \in conn[c].pending, Answer(r, "data"),
           NEW k, k = [conn[c] EXCEPT !.pending = conn[c].pending \ {r}], TurnKnown(c, k, r),
           r \in owner'.answered, OwnerGrows, OwnerTyped, UNCHANGED <<offer, work, readers, same, strays>>
    PROVE  GateInv'
<1>1. /\ GateTypeOK /\ conn[c] \in Connection /\ "data" \in Answers /\ MaxNotes \in Nat
      /\ poll \in [TurnRequests -> [phase : {"off", "reading", "resting"}, tries : 0..MaxPolls]]
    BY GateAssumption DEF GateInv, GateTypeOK, Answers
<1>2. PICK s : s = conn[c].scope OBVIOUS
<1>3. /\ s # None /\ s \in Scope /\ s.by = r /\ s.count = 0 /\ s.buffered \in Seq(Note) /\ Kept(s.buffered)
      /\ r \in Requests /\ r # None /\ Asked[r].client = c
      /\ \A i \in DOMAIN told[c] : told[c][i].turn # r
    BY <1>2, TurnWaits
<1>4. k \in Connection /\ k.scope = s /\ k.pending = conn[c].pending \ {r}
  <2>1. conn[c].pending \ {r} \subseteq Requests BY <1>1 DEF Connection
  <2> QED BY <1>1, <1>2, <2>1 DEF Connection
<1>5. PICK notes : notes = About(r, s.buffered) OBVIOUS
<1>6. /\ notes \in Seq(Note) /\ Len(notes) \in Nat /\ DOMAIN notes = 1 .. Len(notes)
      /\ \A i \in DOMAIN notes : notes[i].turn = r /\ notes[i].clean
      /\ \A i, j \in DOMAIN notes : notes[i].what = "completed" => j <= i
  <2>1. EndedLast(s.buffered) BY <1>3 DEF Kept
  <2>2. /\ notes \in Seq(Note)
        /\ \A i \in DOMAIN notes : notes[i].turn = r /\ notes[i].clean
        /\ \A i, j \in DOMAIN notes : notes[i].what = "completed" => j <= i
    <3>1. PICK b \in Seq(Note) : b = s.buffered BY <1>3
    <3>2. EndedLast(b) BY <2>1, <3>1
    <3>3. r # None BY <1>3
    <3>4. About(r, b) \in Seq(Note) /\ KeptFor(r, About(r, b)) BY <3>2, <3>3, AboutKept
    <3>5. notes \in Seq(Note) /\ KeptFor(r, notes) BY <1>5, <3>1, <3>4
    <3> QED BY <3>5 DEF KeptFor
  <2> QED BY <2>2
<1>7. /\ answers'[r] = <<"data">>
      /\ DataStays
  <2>1. PICK g : /\ conn' = [conn EXCEPT ![c] = g]
                 /\ g = Gone(k) \/ \E z : g = [k EXCEPT !.scope = z]
    <3>1. CASE conn' = [conn EXCEPT ![c] = Gone(k)] BY <3>1
    <3>2. CASE \E z : conn' = [conn EXCEPT ![c] = [k EXCEPT !.scope = z]] BY <3>2
    <3> QED BY <3>1, <3>2, Zenon DEF TurnKnown, Sets
  <2>2. g.pending \subseteq conn[c].pending \ {r}
    <3>1. CASE g = Gone(k) BY <3>1, GoneTyped
    <3>2. CASE \E z : g = [k EXCEPT !.scope = z] BY <1>4, <3>2 DEF Connection
    <3> QED BY <2>1, <3>1, <3>2
  <2>3. conn' = [conn EXCEPT ![c] = g] BY <2>1
  <2> QED BY <1>1, <2>2, <2>3, TurnReply
<1>8. ASSUME NEW m \in Seq(Note), Tell(c, m), KeptFor(r, m)
      PROVE  /\ ToldTo' /\ told' \in [Clients -> Seq(Note)] /\ \A d \in Clients : d # c => told'[d] = told[d]
             /\ (\A i \in DOMAIN m : m[i].what # "completed") => NotEnded(c, r)'
  <2>1. NotEnded(c, r) BY <1>3 DEF NotEnded
  <2>2. Asked[r].client = c BY <1>3
  <2> QED BY <1>7, <1>8, <2>1, <2>2, ToldMore
<1>9. CASE /\ Len(notes) > MaxNotes /\ Sets(c, Gone(k)) /\ Tell(c, SubSeq(notes, 1, MaxNotes)) /\ UNCHANGED poll
  <2>1. PICK m : m = SubSeq(notes, 1, MaxNotes) OBVIOUS
  <2>2. /\ m \in Seq(Note) /\ DOMAIN m = 1 .. MaxNotes
        /\ \A i \in 1 .. MaxNotes : m[i] = notes[i] /\ i \in DOMAIN notes
    <3>1. MaxNotes < Len(notes) BY <1>1, <1>6, <1>9
    <3> QED BY <1>1, <1>6, <2>1, <3>1, FirstNotes
  <2>3. ToldTo' /\ told' \in [Clients -> Seq(Note)] /\ \A d \in Clients : d # c => told'[d] = told[d]
    <3>1. \A i \in DOMAIN m : m[i].turn = r /\ m[i].clean BY <1>6, <2>2
    <3>2. \A i, j \in DOMAIN m : m[i].what = "completed" => j <= i BY <1>6, <2>2
    <3>3. KeptFor(r, m) BY <3>1, <3>2 DEF KeptFor
    <3> QED BY <1>8, <1>9, <2>1, <2>2, <3>3
  <2>4. PICK g \in Connection : g = Gone(k) /\ g.scope = None /\ g.pending = {} BY GoneTyped
  <2>5. conn' = [conn EXCEPT ![c] = g] BY <1>9, <2>4 DEF Sets
  <2>6. PollStarts(r) /\ poll' = poll BY <1>1, <1>9 DEF PollStarts
  <2>7. "data" \in Answers BY <1>1
  <2> QED BY <2>3, <2>4, <2>5, <2>6, <2>7, TurnLeft
<1>10. CASE Len(notes) <= MaxNotes
  <2>1. PICK polls : polls = (Polling /\ ~Ends(notes)) OBVIOUS
  <2>2. PICK m : m = IF polls /\ Len(notes) = 0 THEN <<Started(r)>> ELSE notes OBVIOUS
  <2>3. PICK z : z = IF Ends(notes) THEN None
                     ELSE [s EXCEPT !.turn = r, !.buffered = <<>>, !.count = Len(notes)]
      OBVIOUS
  <2>4. PICK g : g = [k EXCEPT !.scope = z] OBVIOUS
  <2>5. /\ conn' = [conn EXCEPT ![c] = g] /\ Tell(c, m)
        /\ poll' = IF polls THEN [poll EXCEPT ![r] = [phase |-> "reading", tries |-> 1]] ELSE poll
    <3>1. 0 + Len(notes) = Len(notes) /\ ~(Len(notes) > MaxNotes) BY <1>1, <1>6, <1>10
    <3>2. /\ Sets(c, [k EXCEPT !.scope = IF Ends(notes) THEN None
                          ELSE [s EXCEPT !.turn = r, !.buffered = <<>>, !.count = Len(notes)]])
          /\ Tell(c, IF polls /\ Len(notes) = 0 THEN <<Started(r)>> ELSE notes)
          /\ poll' = IF polls THEN [poll EXCEPT ![r] = [phase |-> "reading", tries |-> 1]] ELSE poll
        BY <1>3, <1>4, <1>5, <2>1, <3>1 DEF TurnKnown
    <3> QED BY <2>2, <2>3, <2>4, <3>2 DEF Sets
  <2>6. z # None => /\ z \in Scope /\ z.by = r /\ z.turn = r /\ z.buffered = <<>>
                    /\ \A i \in DOMAIN notes : notes[i].what # "completed"
    <3> SUFFICES ASSUME z # None
                 PROVE  /\ z \in Scope /\ z.by = r /\ z.turn = r /\ z.buffered = <<>>
                        /\ \A i \in DOMAIN notes : notes[i].what # "completed"
        OBVIOUS
    <3>1. ~Ends(notes) /\ z = [s EXCEPT !.turn = r, !.buffered = <<>>, !.count = Len(notes)] BY <2>3
    <3>2. <<>> \in Seq(Note) OBVIOUS
    <3>3. Len(notes) \in 0 .. MaxNotes BY <1>1, <1>6, <1>10
    <3>4. z \in Scope /\ z.by = r /\ z.turn = r /\ z.buffered = <<>> BY <1>3, <3>1, <3>2, <3>3 DEF Scope
    <3> QED BY <3>1, <3>4 DEF Ends
  <2>7. g \in Connection /\ g.scope = z /\ g.pending = conn[c].pending \ {r}
    <3>1. z \in Scope \cup {None} BY <2>6
    <3> QED BY <1>4, <2>4, <3>1 DEF Connection
  <2>8. /\ m \in Seq(Note) /\ KeptFor(r, m)
        /\ (\A i \in DOMAIN notes : notes[i].what # "completed") => \A i \in DOMAIN m : m[i].what # "completed"
    <3>1. CASE m = notes BY <1>6, <3>1 DEF KeptFor
    <3>2. CASE m = <<Started(r)>>
      <4>1. Started(r) \in Note /\ Started(r).turn = r /\ Started(r).clean /\ Started(r).what = "started"
          BY DEF Started, Note, Whats
      <4>2. m \in Seq(Note) /\ DOMAIN m = {1} /\ m[1] = Started(r) BY <3>2, <4>1
      <4> QED BY <4>1, <4>2 DEF KeptFor
    <3> QED BY <2>2, <3>1, <3>2
  <2>9. /\ ToldTo' /\ told' \in [Clients -> Seq(Note)] /\ \A d \in Clients : d # c => told'[d] = told[d]
        /\ z # None => NotEnded(c, r)'
      BY <1>8, <2>5, <2>6, <2>8
  <2>10. PollStarts(r)
    <3>1. 1 \in 0 .. MaxPolls BY GateAssumption
    <3>2. CASE polls BY <1>1, <2>5, <3>1, <3>2 DEF PollStarts
    <3>3. CASE ~polls BY <1>1, <2>5, <3>3 DEF PollStarts
    <3> QED BY <3>2, <3>3
  <2>11. g.scope # None => LeftScope(c, r, "data", g.scope) BY <2>6, <2>7, <2>9 DEF LeftScope
  <2>12. g \in Connection /\ g.pending \subseteq conn[c].pending \ {r} /\ conn' = [conn EXCEPT ![c] = g]
      BY <2>5, <2>7
  <2>13. /\ ToldTo' /\ told' \in [Clients -> Seq(Note)] /\ \A d \in Clients : d # c => told'[d] = told[d]
         /\ "data" \in Answers
      BY <1>1, <2>9
  <2> QED BY <2>10, <2>11, <2>12, <2>13, TurnLeft
<1>11. Len(notes) <= MaxNotes \/ Len(notes) > MaxNotes BY <1>1, <1>6
<1>12. Len(notes) > MaxNotes => Sets(c, Gone(k)) /\ Tell(c, SubSeq(notes, 1, MaxNotes)) /\ UNCHANGED poll
  <2>1. 0 + Len(notes) = Len(notes) /\ MaxNotes - 0 = MaxNotes BY <1>1, <1>6
  <2> QED BY <1>3, <1>4, <1>5, <2>1 DEF TurnKnown
<1> QED BY <1>9, <1>10, <1>11, <1>12

\* An answer of the owner keeps the invariant.
LEMMA OwnerAnswersKeeps ==
    ASSUME GateInv, NEW c \in Clients, NEW r \in Requests, NEW body, OwnerAnswers(c, r, body)
    PROVE  GateInv'
<1>1. /\ r \in conn[c].pending /\ owner' = [owner EXCEPT !.answered = @ \cup {r}]
      /\ UNCHANGED <<offer, work, readers, same, strays>>
      /\ Unheard(c) \/ Responded(c, r, body)
    BY DEF OwnerAnswers
<1>2. /\ GateTypeOK /\ conn[c] \in Connection /\ same' \in BOOLEAN /\ strays' \in 0..MaxStrays
      /\ "data" \in Answers /\ "error" \in Answers
    BY <1>1 DEF GateInv, GateTypeOK, Answers
<1>3. OwnerTyped /\ OwnerGrows /\ r \in owner'.answered BY <1>1, <1>2 DEF OwnerTyped, OwnerGrows, GateTypeOK
<1>4. CASE Unheard(c) BY <1>1, <1>3, <1>4, UnheardStep
<1>5. PICK k : k = [conn[c] EXCEPT !.pending = conn[c].pending \ {r}] OBVIOUS
<1>6. k \in Connection /\ k.scope = conn[c].scope /\ k.pending = conn[c].pending \ {r}
    BY <1>2, <1>5 DEF Connection
<1>7. CASE Sets(c, Gone(k)) /\ UNCHANGED <<answers, told, poll>>
    BY <1>1, <1>2, <1>3, <1>7, ClosesStep DEF OwnerTyped, Sets
<1>8. CASE Asked[r].kind = "turn" /\ TurnAnswered(c, k, r, body)
  <2>1. r \in TurnRequests BY <1>8 DEF TurnRequests
  <2>2. conn[c].scope # None /\ conn[c].scope.by = r BY <1>1, <2>1, TurnWaits
  <2>3. CASE body = "result"
    <3>1. Answer(r, "data") /\ TurnKnown(c, k, r) BY <1>6, <1>8, <2>2, <2>3 DEF TurnAnswered
    <3> QED BY <1>1, <1>3, <1>5, <2>1, <3>1, TurnKnownKeeps
  <2>4. CASE body # "result"
    <3>1. Answer(r, "error") /\ Sets(c, [k EXCEPT !.scope = None]) /\ UNCHANGED <<told, poll>>
        BY <1>8, <2>4 DEF TurnAnswered
    <3>2. PICK g : g = [k EXCEPT !.scope = None] OBVIOUS
    <3>3. g \in Connection /\ g.scope = None /\ g.pending = conn[c].pending \ {r}
        BY <1>6, <3>2 DEF Connection
    <3>4. conn' = [conn EXCEPT ![c] = g] BY <3>1, <3>2 DEF Sets
    <3>5. DataStays
        BY <1>1, <1>2, <1>3, <2>1, <3>1, <3>3, <3>4, TurnReply
    <3>6. ToldTo' BY <3>1, <3>5, ToldStays
    <3>7. told' \in [Clients -> Seq(Note)] /\ PollStarts(r) /\ poll' = poll
        BY <1>2, <3>1 DEF GateTypeOK, PollStarts
    <3>8. \A d \in Clients : d # c => told'[d] = told[d] BY <3>1
    <3> QED BY <1>1, <1>2, <1>3, <2>1, <3>1, <3>3, <3>4, <3>6, <3>7, <3>8, TurnLeft
  <2> QED BY <2>3, <2>4
<1>9. CASE /\ Asked[r].kind # "turn" /\ Sets(c, k) /\ Answer(r, Projected(Asked[r].kind, body))
           /\ UNCHANGED <<told, poll>>
  <2>1. PICK a \in Answers : a = Projected(Asked[r].kind, body) BY DEF Projected, Answers
  <2>2. conn' = [conn EXCEPT ![c] = k] BY <1>9 DEF Sets
  <2>3. GateRest' BY <1>1, <1>3, <1>5, <1>9, <2>1, <2>2, RepliedStep
  <2>4. /\ conn' \in [Clients \cup StateClients -> Connection]
        /\ \A d \in Clients : conn'[d].scope # None => Len(conn'[d].scope.buffered) <= MaxBuffered
      BY <1>2, <1>6, <2>2, ConnTyped
  <2>5. answers[r] = <<>> BY <1>1 DEF GateInv, Awaited
  <2>6. answers' \in [Requests -> Seq(Answers)] BY <1>2, <1>9, <2>1, <2>5, FirstAnswer
  <2>7. GateTypeOK' BY <1>1, <1>2, <1>3, <1>9, <2>4, <2>6 DEF GateTypeOK, OwnerTyped
  <2> QED BY <2>3, <2>7 DEF GateInv, GateRest
<1> QED BY <1>1, <1>4, <1>5, <1>7, <1>8, <1>9 DEF Responded

-----------------------------------------------------------------------------
(* The poll of the saved turn.                                               *)

\* A step of the poll alone keeps the invariant.
LEMMA PolledStep ==
    ASSUME GateInv, UNCHANGED <<conn, offer, work, readers, same, owner, strays, answers, told>>,
           poll' \in [TurnRequests -> [phase : {"off", "reading", "resting"}, tries : 0..MaxPolls]],
           PolledTurns'
    PROVE  GateInv'
<1>1. GateTypeOK' BY DEF GateInv, GateTypeOK
<1>2. Awaited' /\ Untouched' /\ Racing' /\ AnsweredAtMost' /\ TurnAwaited' /\ ToldTo' /\ Accepted'
    BY DEF GateInv, Awaited, Untouched, Racing, AnsweredAtMost, TurnAwaited, ToldTo, EndedLast, Accepted
<1>3. Counted' BY DEF GateInv, Counted, RunningReads
<1>4. OwnerGrows BY OwnerSame
<1>5. Scopes'
  <2> SUFFICES ASSUME NEW d \in Clients, conn[d].scope # None
               PROVE  Scoped(d, conn[d].scope)'
      BY DEF Scopes
  <2>1. Scoped(d, conn[d].scope) BY DEF GateInv, Scopes
  <2> QED BY <1>4, <2>1, ScopeStays DEF Scoped
<1> QED BY <1>1, <1>2, <1>3, <1>5 DEF GateInv

\* The page of a poll keeps the invariant.
LEMMA PollAnsweredKeeps ==
    ASSUME GateInv, NEW r \in TurnRequests, NEW seen \in BOOLEAN, NEW item \in BOOLEAN,
           PollAnswered(r, seen, item)
    PROVE  GateInv'
<1>1. poll[r].phase = "reading" /\ UNCHANGED <<offer, work, readers, same, owner, strays, answers>>
    BY DEF PollAnswered
<1>2. /\ GateTypeOK /\ r \in Requests /\ r # None
      /\ poll \in [TurnRequests -> [phase : {"off", "reading", "resting"}, tries : 0..MaxPolls]]
    BY GateAssumption DEF GateInv, GateTypeOK, TurnRequests
<1>3. PICK c \in Clients : c = Asked[r].client BY <1>1 DEF GateInv, PolledTurns
<1>4. answers[r] = <<"data">> BY <1>1 DEF GateInv, PolledTurns
<1>5. /\ DataStays
      /\ OwnerGrows /\ OwnerTyped
    BY <1>1, <1>2, OwnerSame DEF OwnerTyped, GateTypeOK, DataStays
<1>6. ASSUME NEW p \in {"off", "resting"}, poll' = [poll EXCEPT ![r].phase = p]
      PROVE  /\ poll' \in [TurnRequests -> [phase : {"off", "reading", "resting"}, tries : 0..MaxPolls]]
             /\ PolledTurns'
  <2>1. poll' \in [TurnRequests -> [phase : {"off", "reading", "resting"}, tries : 0..MaxPolls]]
      BY <1>2, <1>6
  <2>2. \A t \in TurnRequests : poll'[t].phase # "off" =>
              poll[t].phase # "off" \/ (Asked[t].client \in Clients /\ answers'[t] = <<"data">>)
      BY <1>1, <1>2, <1>3, <1>4, <1>6
  <2>3. PolledTurns' BY <1>5, <2>2, PolledStay
  <2> QED BY <2>1, <2>3
<1>7. CASE seen /\ InScope(r)
  <2>1. PICK m : m = IF item THEN <<[turn |-> r, what |-> "item", clean |-> TRUE]>>
                                  \o <<[turn |-> r, what |-> "completed", clean |-> TRUE]>>
                     ELSE <<[turn |-> r, what |-> "completed", clean |-> TRUE]>>
      OBVIOUS
  <2>2. PICK g : g = [conn[c] EXCEPT !.scope = None] OBVIOUS
  <2>3. Tell(c, m) /\ conn' = [conn EXCEPT ![c] = g] /\ poll' = [poll EXCEPT ![r].phase = "off"]
      BY <1>3, <1>7, <2>1, <2>2 DEF PollAnswered, Sets, PollEnds
  <2>4. conn[c].scope # None /\ conn[c].scope.by = r BY <1>3, <1>7 DEF InScope
  <2>5. Scoped(c, conn[c].scope) BY <2>4, ScopeFacts
  <2>6. r \notin conn[c].pending
    <3>1. <<>> # <<"data">> OBVIOUS
    <3> QED BY <1>4, <3>1 DEF GateInv, Awaited
  <2>7. NotEnded(c, r)
      BY <2>4, <2>5, <2>6 DEF Scoped
  <2>8. m \in Seq(Note) /\ KeptFor(r, m)
    <3>1. PICK e \in Note : e = [turn |-> r, what |-> "completed", clean |-> TRUE] BY DEF Note, Whats
    <3>2. PICK x \in Note : x = [turn |-> r, what |-> "item", clean |-> TRUE] BY DEF Note, Whats
    <3>3. e.turn = r /\ e.clean /\ x.turn = r /\ x.clean /\ x.what # "completed" BY <3>1, <3>2
    <3>4. CASE m = <<e>>
      <4>1. m \in Seq(Note) /\ DOMAIN m = {1} /\ m[1] = e BY <3>4
      <4> QED BY <3>3, <4>1 DEF KeptFor
    <3>5. CASE m = <<x>> \o <<e>>
      <4>1. PICK a \in Seq(Note), b \in Seq(Note) : a = <<x>> /\ b = <<e>> /\ Len(a) = 1 /\ Len(b) = 1
        <5>1. <<x>> \in Seq(Note) /\ Len(<<x>>) = 1 OBVIOUS
        <5>2. <<e>> \in Seq(Note) /\ Len(<<e>>) = 1 OBVIOUS
        <5> QED BY <5>1, <5>2
      <4>2. /\ m \in Seq(Note) /\ Len(m) = 1 + 1
            /\ \A i \in 1 .. 1 + 1 : m[i] = IF i <= 1 THEN a[i] ELSE b[i - 1]
          BY <3>5, <4>1, ConcatProperties
      <4>3. DOMAIN m = {1, 2} /\ m[1] = a[1] /\ m[2] = b[1] BY <4>2
      <4> QED BY <3>3, <4>1, <4>2, <4>3 DEF KeptFor
    <3> QED BY <2>1, <3>1, <3>2, <3>4, <3>5
  <2>9. ToldTo' /\ told' \in [Clients -> Seq(Note)] /\ \A d \in Clients : d # c => told'[d] = told[d]
    <3>1. answers'[r] = <<"data">> BY <1>1, <1>4
    <3> QED BY <1>3, <1>5, <2>3, <2>7, <2>8, <3>1, ToldMore DEF KeptFor
  <2>10. conn[c] \in Connection BY <1>2 DEF GateTypeOK
  <2>11. g \in Connection /\ g.scope = None /\ g.pending = conn[c].pending BY <2>2, <2>10 DEF Connection
  <2>12. Awaited' /\ Untouched' /\ Racing' /\ AnsweredAtMost' /\ Counted' /\ Accepted'
      BY <1>1, <1>5, <2>3, <2>11, NoteRest
  <2>13. \A d \in Clients : conn'[d].pending = conn[d].pending /\ (d # c => conn'[d] = conn[d])
      BY <1>2, <2>3, <2>11 DEF GateTypeOK
  <2>14. conn'[c].scope = None BY <1>2, <2>3, <2>11 DEF GateTypeOK
  <2>15. Scopes'
    <3> SUFFICES ASSUME NEW d \in Clients, conn'[d].scope # None
                 PROVE  Scoped(d, conn[d].scope)'
        BY DEF Scopes
    <3>1. d # c BY <2>14
    <3> QED BY <1>5, <2>3, <2>9, <3>1, OtherScopes
  <2>16. TurnAwaited'
    <3>1. \A q \in TurnRequests : q \notin conn[c].pending BY <2>4, <2>6 DEF GateInv, TurnAwaited
    <3> QED BY <2>13, <3>1 DEF GateInv, TurnAwaited
  <2>17. /\ conn' \in [Clients \cup StateClients -> Connection]
         /\ \A d \in Clients : conn'[d].scope # None => Len(conn'[d].scope.buffered) <= MaxBuffered
      BY <1>2, <2>3, <2>11, ConnTyped
  <2>18. poll' \in [TurnRequests -> [phase : {"off", "reading", "resting"}, tries : 0..MaxPolls]]
         /\ PolledTurns'
      BY <1>6, <2>3
  <2>19. GateTypeOK' BY <1>1, <1>2, <1>5, <2>9, <2>17, <2>18 DEF GateTypeOK, OwnerTyped
  <2> QED BY <2>9, <2>12, <2>15, <2>16, <2>18, <2>19 DEF GateInv
<1>8. CASE poll' = [poll EXCEPT ![r].phase = "resting"] /\ UNCHANGED <<conn, told>>
  <2>1. poll' \in [TurnRequests -> [phase : {"off", "reading", "resting"}, tries : 0..MaxPolls]]
        /\ PolledTurns'
      BY <1>6, <1>8
  <2> QED BY <1>1, <1>2, <1>5, <1>8, <2>1, PolledStep
<1> QED BY <1>7, <1>8 DEF PollAnswered

\* A turn whose end is too large to tell keeps the invariant.
LEMMA PollTooLargeKeeps ==
    ASSUME GateInv, NEW r \in TurnRequests, PollTooLarge(r)
    PROVE  GateInv'
<1>1. poll[r].phase = "reading" /\ UNCHANGED <<conn, offer, work, readers, same, owner, strays, answers>>
    BY DEF PollTooLarge
<1>2. /\ GateTypeOK /\ r \in Requests /\ r # None
      /\ poll \in [TurnRequests -> [phase : {"off", "reading", "resting"}, tries : 0..MaxPolls]]
    BY GateAssumption DEF GateInv, GateTypeOK, TurnRequests
<1>3. PICK c \in Clients : c = Asked[r].client BY <1>1 DEF GateInv, PolledTurns
<1>4. answers[r] = <<"data">> /\ answers'[r] = <<"data">> BY <1>1 DEF GateInv, PolledTurns
<1>5. DataStays /\ OwnerGrows /\ OwnerTyped
    BY <1>1, <1>2, OwnerSame DEF OwnerTyped, GateTypeOK, DataStays
<1>6. PICK x \in Note : x = [turn |-> r, what |-> "item", clean |-> TRUE] BY DEF Note, Whats
<1>7. PICK m : m = <<x>> OBVIOUS
<1>8. Tell(c, m) /\ poll' = [poll EXCEPT ![r].phase = "resting"]
    BY <1>3, <1>6, <1>7 DEF PollTooLarge
<1>9. conn[c].scope # None /\ conn[c].scope.by = r BY <1>3 DEF PollTooLarge, InScope
<1>10. r \notin conn[c].pending
  <2>1. <<>> # <<"data">> OBVIOUS
  <2> QED BY <1>4, <2>1 DEF GateInv, Awaited
<1>11. Scoped(c, conn[c].scope) BY <1>9, ScopeFacts
<1>12. NotEnded(c, r) BY <1>9, <1>10, <1>11 DEF Scoped
<1>13. m \in Seq(Note) /\ KeptFor(r, m) /\ \A i \in DOMAIN m : m[i].what # "completed"
  <2>1. m \in Seq(Note) /\ DOMAIN m = {1} /\ m[1] = x BY <1>7
  <2> QED BY <1>6, <2>1 DEF KeptFor
<1>14. /\ ToldTo' /\ told' \in [Clients -> Seq(Note)] /\ \A d \in Clients : d # c => told'[d] = told[d]
       /\ NotEnded(c, r)'
    BY <1>3, <1>4, <1>5, <1>8, <1>12, <1>13, ToldMore DEF KeptFor
<1>15. Awaited' /\ Untouched' /\ Racing' /\ AnsweredAtMost' /\ TurnAwaited' /\ Accepted'
    BY <1>1 DEF GateInv, Awaited, Untouched, Racing, AnsweredAtMost, TurnAwaited, Accepted
<1>16. Counted' BY <1>1 DEF GateInv, Counted, RunningReads
<1>17. Scopes'
  <2> SUFFICES ASSUME NEW d \in Clients, conn'[d].scope # None
               PROVE  Scoped(d, conn[d].scope)'
      BY DEF Scopes
  <2>1. conn[d].scope # None /\ Scoped(d, conn[d].scope) BY <1>1 DEF GateInv, Scopes
  <2>2. CASE d = c
    <3>1. conn[c].scope.turn # None BY <1>9, <1>10, <1>11 DEF Scoped
    <3>2. PICK n \in Seq(Note) : n = conn[c].scope.buffered BY <1>9, ScopeFacts
    <3>3. Kept(n)' BY <1>5, <1>11, <3>2, KeptStays DEF Scoped
    <3>4. Kept(conn[c].scope.buffered)' BY <1>1, <3>2, <3>3 DEF Kept, EndedLast
    <3> QED BY <1>1, <1>4, <1>9, <1>11, <1>14, <2>2, <3>1, <3>4 DEF Scoped, NotEnded
  <2>3. CASE d # c
    <3>1. conn' = [conn EXCEPT ![c] = conn[c]] BY <1>1, <1>2 DEF GateTypeOK
    <3> QED BY <1>1, <1>5, <1>14, <2>1, <2>3, <3>1, OtherScopes
  <2> QED BY <2>2, <2>3
<1>18. /\ poll' \in [TurnRequests -> [phase : {"off", "reading", "resting"}, tries : 0..MaxPolls]]
       /\ PolledTurns'
  <2>1. poll' \in [TurnRequests -> [phase : {"off", "reading", "resting"}, tries : 0..MaxPolls]]
      BY <1>2, <1>8
  <2>2. \A t \in TurnRequests : poll'[t].phase # "off" =>
              poll[t].phase # "off" \/ (Asked[t].client \in Clients /\ answers'[t] = <<"data">>)
      BY <1>2, <1>3, <1>4, <1>8
  <2>3. PolledTurns' BY <1>5, <2>2, PolledStay
  <2> QED BY <2>1, <2>3
<1>19. GateTypeOK' BY <1>1, <1>2, <1>14, <1>18 DEF GateTypeOK
<1> QED BY <1>14, <1>15, <1>16, <1>17, <1>18, <1>19 DEF GateInv

\* Another attempt of a poll, or its end, keeps the invariant.
LEMMA PollAgainKeeps ==
    ASSUME GateInv, NEW r \in TurnRequests, PollAgain(r)
    PROVE  GateInv'
<1>1. poll[r].phase = "resting" /\ UNCHANGED <<conn, offer, work, readers, same, owner, strays, answers, told>>
    BY DEF PollAgain
<1>2. poll \in [TurnRequests -> [phase : {"off", "reading", "resting"}, tries : 0..MaxPolls]]
    BY DEF GateInv, GateTypeOK
<1>3. poll' \in [TurnRequests -> [phase : {"off", "reading", "resting"}, tries : 0..MaxPolls]]
      /\ \A t \in TurnRequests : t # r => poll'[t] = poll[t]
  <2>1. CASE poll[r].tries < MaxPolls
             /\ poll' = [poll EXCEPT ![r] = [phase |-> "reading", tries |-> poll[r].tries + 1]]
    <3>1. MaxPolls \in Nat BY GateAssumption
    <3>2. PICK m \in 0 .. MaxPolls : m = poll[r].tries BY <1>2
    <3>3. m + 1 \in 0 .. MaxPolls BY <2>1, <3>1, <3>2
    <3>4. poll' = [poll EXCEPT ![r] = [phase |-> "reading", tries |-> m + 1]] BY <2>1, <3>2
    <3> QED BY <1>2, <3>3, <3>4
  <2>2. CASE PollEnds(r) BY <1>2, <2>2 DEF PollEnds
  <2> QED BY <2>1, <2>2 DEF PollAgain
<1>4. PolledTurns' BY <1>1, <1>3 DEF GateInv, PolledTurns
<1> QED BY <1>1, <1>3, <1>4, PolledStep

-----------------------------------------------------------------------------
(* The gate as a whole.                                                      *)

\* The gate starts in its invariant.
LEMMA GateStarts == GateInit => GateInv
<1> SUFFICES ASSUME GateInit PROVE GateInv OBVIOUS
<1>1. /\ Idle \in Connection /\ Idle.scope = None /\ Idle.pending = {}
      /\ 0 \in Nat /\ 0 \in 0..MaxPolls /\ 0 \in 0..MaxStrays /\ MaxReaders \in Nat
  <2>1. <<>> \in Seq(Requests) OBVIOUS
  <2> QED BY <2>1, GateAssumption DEF Idle, Connection
<1>2. GateTypeOK
  <2>1. /\ conn \in [Clients \cup StateClients -> Connection]
        /\ \A c \in Clients : conn[c].scope = None
      BY <1>1 DEF GateInit
  <2>2. offer \subseteq Requests BY GateAssumption DEF GateInit
  <2>3. /\ work \in [Requests -> [call : {"none", "running", "ended"}, race : {"open", "decided"}]]
        /\ readers \in [Read -> Nat] /\ same \in BOOLEAN /\ strays \in 0..MaxStrays
        /\ poll \in [TurnRequests -> [phase : {"off", "reading", "resting"}, tries : 0..MaxPolls]]
      BY <1>1 DEF GateInit
  <2>4. owner \in [got : SUBSET Requests, answered : SUBSET Requests, saved : SUBSET TurnRequests,
                   stage : [TurnRequests -> 0..3]]
      BY DEF GateInit
  <2>5. answers \in [Requests -> Seq(Answers)] /\ told \in [Clients -> Seq(Note)]
    <3>1. <<>> \in Seq(Answers) /\ <<>> \in Seq(Note) OBVIOUS
    <3> QED BY <3>1 DEF GateInit
  <2> QED BY <2>1, <2>2, <2>3, <2>4, <2>5 DEF GateTypeOK
<1>3. \A c \in Clients \cup StateClients : conn[c].pending = {} /\ conn[c].scope = None
    BY <1>1 DEF GateInit
<1>4. Awaited /\ Scopes /\ TurnAwaited BY <1>3 DEF Awaited, Scopes, TurnAwaited
<1>5. \A r \in Requests : answers[r] = <<>> /\ work[r].call = "none" /\ work[r].race = "decided"
    BY DEF GateInit
<1>6. Untouched /\ Racing BY <1>2, <1>5 DEF Untouched, Racing, GateTypeOK
<1>7. AnsweredAtMost
  <2>1. Len(<<>>) <= 1 OBVIOUS
  <2> QED BY <1>5, <2>1 DEF AnsweredAtMost
<1>8. Counted
  <2>1. \A kind \in Read : RunningReads(kind) = {} BY <1>5 DEF RunningReads
  <2>2. \A kind \in Read : readers[kind] = 0 BY DEF GateInit
  <2>3. IsFiniteSet({}) /\ Cardinality({}) = 0 BY FS_EmptySet
  <2>4. 0 <= MaxReaders BY <1>1
  <2> QED BY <2>1, <2>2, <2>3, <2>4 DEF Counted
<1>9. Accepted /\ PolledTurns
  <2>1. <<>> # <<"data">> OBVIOUS
  <2>2. \A r \in TurnRequests : r \in Requests BY DEF TurnRequests
  <2> QED BY <1>5, <2>1, <2>2 DEF Accepted, PolledTurns, GateInit
<1>10. ToldTo
  <2>1. \A c \in Clients : told[c] = <<>> BY DEF GateInit
  <2> QED BY <2>1 DEF ToldTo, EndedLast
<1> QED BY <1>2, <1>4, <1>6, <1>7, <1>8, <1>9, <1>10 DEF GateInv

\* What a step of the gate does to answers: one more, or none; the owner answers no less.
Steady == /\ answers' = answers \/ \E q \in Requests : \E a \in Answers : Answer(q, a)
          /\ owner.answered \subseteq owner'.answered

\* Where nothing is answered twice, an answer with data stays the answer.
LEMMA SteadyData ==
    ASSUME GateTypeOK, AnsweredAtMost', Steady, NEW q \in Requests, answers[q] = <<"data">>
    PROVE  answers'[q] = <<"data">>
<1>1. answers \in [Requests -> Seq(Answers)] BY DEF GateTypeOK
<1>2. CASE answers' = answers BY <1>2
<1>3. ASSUME NEW r \in Requests, NEW a \in Answers, Answer(r, a) PROVE answers'[q] = <<"data">>
  <2>1. CASE r = q
    <3>1. answers'[q] = Append(answers[q], a) BY <1>1, <1>3, <2>1 DEF Answer
    <3>2. answers[q] \in Seq(Answers) /\ Len(answers[q]) = 1 BY <1>1
    <3>3. Len(answers'[q]) = 2 BY <3>1, <3>2
    <3>4. ~(2 <= 1) OBVIOUS
    <3>5. Len(answers'[q]) <= 1 BY DEF AnsweredAtMost
    <3> QED BY <3>3, <3>4, <3>5
  <2>2. CASE r # q BY <1>1, <1>3, <2>2 DEF Answer
  <2> QED BY <2>1, <2>2
<1> QED BY <1>2, <1>3 DEF Steady

\* A step that leaves the answers, or gives one, is steady if the owner's answers stay.
LEMMA SteadyStep ==
    ASSUME GateTypeOK,
           answers' = answers \/ \E q \in Requests : \E a \in Answers : Answer(q, a),
           \/ owner' = owner
           \/ \E q \in SUBSET Requests : owner' = [owner EXCEPT !.got = @ \cup q]
           \/ \E q \in Requests : owner' = [owner EXCEPT !.answered = @ \cup {q}]
           \/ \E q \in Requests : owner' = [owner EXCEPT !.saved = @ \cup {q}]
           \/ \E q \in TurnRequests : owner' = [owner EXCEPT !.stage[q] = @ + 1]
    PROVE  Steady
<1>1. owner \in [got : SUBSET Requests, answered : SUBSET Requests, saved : SUBSET TurnRequests,
                 stage : [TurnRequests -> 0..3]]
    BY DEF GateTypeOK
<1>2. owner.answered \subseteq owner'.answered
  <2>1. CASE owner' = owner BY <2>1
  <2>2. CASE \E q \in SUBSET Requests : owner' = [owner EXCEPT !.got = @ \cup q] BY <1>1, <2>2
  <2>3. CASE \E q \in Requests : owner' = [owner EXCEPT !.answered = @ \cup {q}] BY <1>1, <2>3
  <2>4. CASE \E q \in Requests : owner' = [owner EXCEPT !.saved = @ \cup {q}] BY <1>1, <2>4
  <2>5. CASE \E q \in TurnRequests : owner' = [owner EXCEPT !.stage[q] = @ + 1] BY <1>1, <2>5
  <2> QED BY <2>1, <2>2, <2>3, <2>4, <2>5
<1> QED BY <1>2 DEF Steady

\* A step of the gate keeps its invariant and is steady.
GateKeeps == GateInv' /\ Steady

\* A client connects or is closed.
LEMMA LinkOfClient ==
    ASSUME GateInv, NEW c \in Clients \cup StateClients, Connect(c) \/ OwnerReady(c) \/ Disconnect(c)
    PROVE  GateKeeps
<1>1. GateTypeOK /\ conn[c] \in Connection BY DEF GateInv, GateTypeOK
<1>2. CASE Connect(c)
  <2>1. answers' = answers /\ owner' = owner BY <1>2 DEF Connect
  <2> QED BY <1>1, <1>2, <2>1, SteadyStep, ConnectKeeps DEF GateKeeps
<1>3. CASE Disconnect(c)
  <2>1. answers' = answers /\ owner' = owner BY <1>3 DEF Disconnect
  <2> QED BY <1>1, <1>3, <2>1, SteadyStep, DisconnectKeeps DEF GateKeeps
<1>4. CASE OwnerReady(c)
  <2>1. PICK sent : sent = {conn[c].queue[i] : i \in DOMAIN conn[c].queue} OBVIOUS
  <2>2. sent \in SUBSET Requests
    <3>1. conn[c].queue \in Seq(Requests) BY <1>1 DEF Connection
    <3>2. \A i \in DOMAIN conn[c].queue : conn[c].queue[i] \in Requests BY <3>1
    <3> QED BY <2>1, <3>2
  <2>3. answers' = answers /\ (owner' = owner \/ owner' = [owner EXCEPT !.got = @ \cup sent])
      BY <1>4, <2>1 DEF OwnerReady
  <2>4. Steady BY <1>1, <2>2, <2>3, SteadyStep
  <2> QED BY <1>4, <2>4, OwnerReadyKeeps DEF GateKeeps
<1> QED BY <1>2, <1>3, <1>4

\* A client asks.
LEMMA ClientAsks ==
    ASSUME GateInv, NEW c \in Clients, NEW r \in Requests, ClientSends(c, r)
    PROVE  GateKeeps
<1>1. GateTypeOK /\ "denied" \in Answers /\ "error" \in Answers /\ {r} \in SUBSET Requests
    BY DEF GateInv, Answers
<1>2. \/ answers' = answers \/ Answer(r, "denied") \/ Answer(r, "error")
    BY DEF ClientSends, Denied, Page, Passed
<1>3. ASSUME NEW k, Forward(c, k, r) PROVE owner' = owner \/ owner' = [owner EXCEPT !.got = @ \cup {r}]
    BY <1>3 DEF Forward
<1>4. owner' = owner \/ owner' = [owner EXCEPT !.got = @ \cup {r}]
    BY <1>3 DEF ClientSends, Denied, Passed
<1>5. Steady BY <1>1, <1>2, <1>4, SteadyStep
<1> QED BY <1>5, ClientSendsKeeps DEF GateKeeps

\* The state socket asks and is answered.
LEMMA StateAsks ==
    ASSUME GateInv, NEW c \in StateClients, NEW r \in Requests,
           StateSends(c, r) \/ \E b \in {"error", "odd", "result"} : StateAnswers(c, r, b)
    PROVE  GateKeeps
<1>1. GateTypeOK /\ Answers = {"denied", "error", "data"} /\ {r} \in SUBSET Requests
    BY DEF GateInv, Answers
<1>2. CASE StateSends(c, r)
  <2>1. /\ answers' = answers \/ Answer(r, "denied")
        /\ owner' = owner \/ owner' = [owner EXCEPT !.got = @ \cup {r}]
      BY <1>2 DEF StateSends
  <2>2. Steady BY <1>1, <2>1, SteadyStep
  <2> QED BY <1>2, <2>2, StateSendsKeeps DEF GateKeeps
<1>3. ASSUME NEW b \in {"error", "odd", "result"}, StateAnswers(c, r, b) PROVE GateKeeps
  <2>1. /\ answers' = answers \/ Answer(r, "error") \/ Answer(r, "data")
        /\ owner' = [owner EXCEPT !.answered = @ \cup {r}]
      BY <1>3 DEF StateAnswers
  <2>2. Steady BY <1>1, <2>1, SteadyStep
  <2> QED BY <1>3, <2>2, StateAnswersKeeps DEF GateKeeps
<1> QED BY <1>2, <1>3

\* The owner answers, notes and strays.
LEMMA OwnerSays ==
    ASSUME GateInv, NEW c \in Clients,
           \/ \E r \in TurnRequests : OwnerNotes(c, r)
           \/ \E n \in Note : OwnerStrays(c, n)
           \/ \E r \in Requests : \E body \in {"secret", "error", "odd", "result"} : OwnerAnswers(c, r, body)
    PROVE  GateKeeps
<1>1. GateTypeOK /\ Answers = {"data", "error", "denied"} BY DEF GateInv, Answers
<1>2. ASSUME NEW r \in TurnRequests, OwnerNotes(c, r) PROVE GateKeeps
  <2>1. answers' = answers /\ owner' = [owner EXCEPT !.stage[r] = @ + 1]
      BY <1>2 DEF OwnerNotes, Unheard
  <2>2. Steady BY <1>1, <2>1, SteadyStep
  <2> QED BY <1>2, <2>2, OwnerNotesKeeps DEF GateKeeps
<1>3. ASSUME NEW n \in Note, OwnerStrays(c, n) PROVE GateKeeps
  <2>1. answers' = answers /\ owner' = owner BY <1>3 DEF OwnerStrays
  <2>2. Steady BY <1>1, <2>1, SteadyStep
  <2> QED BY <1>3, <2>2, OwnerStraysKeeps DEF GateKeeps
<1>4. ASSUME NEW r \in Requests, NEW body, OwnerAnswers(c, r, body) PROVE GateKeeps
  <2>1. owner' = [owner EXCEPT !.answered = @ \cup {r}] /\ (Unheard(c) \/ Responded(c, r, body))
      BY <1>4 DEF OwnerAnswers
  <2>2. answers' = answers \/ \E a \in Answers : Answer(r, a)
    <3>1. Projected(Asked[r].kind, body) \in Answers BY DEF Projected, Answers
    <3>2. CASE Unheard(c) BY <3>2 DEF Unheard
    <3>3. CASE Responded(c, r, body) BY <1>1, <3>1, <3>3 DEF Responded, TurnAnswered
    <3> QED BY <2>1, <3>2, <3>3
  <2>3. Steady BY <1>1, <2>1, <2>2, SteadyStep
  <2> QED BY <1>4, <2>3, OwnerAnswersKeeps DEF GateKeeps
<1> QED BY <1>2, <1>3, <1>4

\* A reader ends, or its deadline passes.
LEMMA ReaderSteps ==
    ASSUME GateInv, NEW r \in Requests,
           PageDeadline(r) \/ \E body \in {"clean", "extra", "bad"} : ReaderEnds(r, body)
    PROVE  GateKeeps
<1>1. GateTypeOK /\ Answers = {"data", "error", "denied"} BY DEF GateInv, Answers
<1>2. CASE PageDeadline(r)
  <2>1. (answers' = answers \/ Answer(r, "error")) /\ owner' = owner BY <1>2 DEF PageDeadline, RaceDecided
  <2>2. Steady BY <1>1, <2>1, SteadyStep
  <2> QED BY <1>2, <2>2, PageDeadlineKeeps DEF GateKeeps
<1>3. ASSUME NEW body \in {"clean", "extra", "bad"}, ReaderEnds(r, body) PROVE GateKeeps
  <2>1. PageAnswer(body) \in Answers /\ SectionAnswer(body) \in Answers
      BY DEF PageAnswer, SectionAnswer, Answers
  <2>2. (answers' = answers \/ \E a \in Answers : Answer(r, a)) /\ owner' = owner
      BY <1>3, <2>1 DEF ReaderEnds, RaceDecided
  <2>3. Steady BY <1>1, <2>2, SteadyStep
  <2> QED BY <1>3, <2>3, ReaderEndsKeeps DEF GateKeeps
<1> QED BY <1>2, <1>3

\* A turn is saved, a poll goes on or ends.
LEMMA SavedSteps ==
    ASSUME GateInv, NEW r \in TurnRequests,
           \/ TurnSaved(r) \/ PollAgain(r) \/ PollTooLarge(r)
           \/ \E seen \in BOOLEAN : \E item \in BOOLEAN : PollAnswered(r, seen, item)
    PROVE  GateKeeps
<1>1. GateTypeOK /\ r \in Requests BY DEF GateInv, TurnRequests
<1>2. CASE TurnSaved(r)
  <2>1. answers' = answers /\ owner' = [owner EXCEPT !.saved = @ \cup {r}] BY <1>2 DEF TurnSaved
  <2>2. Steady BY <1>1, <2>1, SteadyStep
  <2> QED BY <1>2, <2>2, TurnSavedKeeps DEF GateKeeps
<1>3. CASE PollAgain(r)
  <2>1. answers' = answers /\ owner' = owner BY <1>3 DEF PollAgain
  <2>2. Steady BY <1>1, <2>1, SteadyStep
  <2> QED BY <1>3, <2>2, PollAgainKeeps DEF GateKeeps
<1>4. ASSUME NEW seen \in BOOLEAN, NEW item \in BOOLEAN, PollAnswered(r, seen, item) PROVE GateKeeps
  <2>1. answers' = answers /\ owner' = owner BY <1>4 DEF PollAnswered
  <2>2. Steady BY <1>1, <2>1, SteadyStep
  <2> QED BY <1>4, <2>2, PollAnsweredKeeps DEF GateKeeps
<1>5. CASE PollTooLarge(r)
  <2>1. answers' = answers /\ owner' = owner BY <1>5 DEF PollTooLarge
  <2>2. Steady BY <1>1, <2>1, SteadyStep
  <2> QED BY <1>5, <2>2, PollTooLargeKeeps DEF GateKeeps
<1> QED BY <1>2, <1>3, <1>4, <1>5

\* Each step of the gate keeps its invariant and is steady.
LEMMA GateStepKeeps == GateInv /\ GateStep => GateKeeps
<1> SUFFICES ASSUME GateInv, GateStep PROVE GateKeeps OBVIOUS
<1>1. ASSUME NEW c \in Clients \ {Submitter}, Connect(c) PROVE GateKeeps BY <1>1, LinkOfClient
<1>2. ASSUME NEW c \in Clients \ {Submitter}, \E r \in Requests : ClientSends(c, r) PROVE GateKeeps
    BY <1>2, ClientAsks
<1>3. ASSUME NEW c \in Clients \ {Submitter},
             (\E r \in TurnRequests : OwnerNotes(c, r)) \/ \E n \in Note : OwnerStrays(c, n)
      PROVE  GateKeeps
    BY <1>3, OwnerSays
<1>4. ASSUME NEW c \in Clients, OwnerReady(c) \/ Disconnect(c) PROVE GateKeeps BY <1>4, LinkOfClient
<1>5. ASSUME NEW c \in Clients, NEW r \in Requests,
             \/ OwnerAnswers(c, r, "secret") \/ OwnerAnswers(c, r, "error")
             \/ OwnerAnswers(c, r, "odd") \/ OwnerAnswers(c, r, "result")
      PROVE  GateKeeps
  <2>1. \E body \in {"secret", "error", "odd", "result"} : OwnerAnswers(c, r, body) BY <1>5
  <2> QED BY <2>1, OwnerSays
<1>6. ASSUME NEW c \in StateClients, Connect(c) \/ OwnerReady(c) \/ Disconnect(c) PROVE GateKeeps
    BY <1>6, LinkOfClient
<1>7. ASSUME NEW c \in StateClients, NEW r \in Requests,
             StateSends(c, r) \/ \E b \in {"error", "odd", "result"} : StateAnswers(c, r, b)
      PROVE  GateKeeps
    BY <1>7, StateAsks
<1>8. ASSUME NEW r \in Requests,
             PageDeadline(r) \/ \E body \in {"clean", "extra", "bad"} : ReaderEnds(r, body)
      PROVE  GateKeeps
    BY <1>8, ReaderSteps
<1>9. ASSUME NEW r \in TurnRequests,
             \/ TurnSaved(r) \/ PollAgain(r) \/ PollTooLarge(r)
             \/ \E seen \in BOOLEAN : \E item \in BOOLEAN : PollAnswered(r, seen, item)
      PROVE  GateKeeps
    BY <1>9, SavedSteps
<1>10. CASE Replaced
  <2>1. answers' = answers /\ owner' = owner /\ GateTypeOK BY <1>10 DEF Replaced, GateInv
  <2>2. Steady BY <2>1, SteadyStep
  <2> QED BY <1>10, <2>2, ReplacedKeeps DEF GateKeeps
<1> QED BY <1>1, <1>2, <1>3, <1>4, <1>5, <1>6, <1>7, <1>8, <1>9, <1>10, Zenon DEF GateStep

-----------------------------------------------------------------------------
(* The scoped IPC gate.                                                      *)

\* One text is put to the owner.
OneText == \A l, m \in Links : submitted[l] + (IF l = m THEN 0 ELSE submitted[m]) <= 1

\* A frame was given to the owner's side when it might be.
PassedWell(p) == CASE Framed[p.frame].kind = "initialize" -> p.client = "unknown"
                   [] Framed[p.frame].kind = "follow" -> p.client = "known"
                   [] Framed[p.frame].kind = "text" ->
                         p.client = "known" /\ p.peer # None /\ p.peer = Framed[p.frame].to
                   [] OTHER -> FALSE

\* A link hears of success for a turn the owner accepted.
Heard(l) == ipc[l].text = "success" =>
    l = submit.for /\ answers[SubmitTurn] = <<"data">> /\ SubmitTurn \in owner.answered

\* The three parts of TextOnce.
LEMMA TextParts == TextOnce <=> OneText /\ (\A p \in passed : PassedWell(p)) /\ (\A l \in Links : Heard(l))
  BY DEF TextOnce, OneText, PassedWell, Heard

\* What the links are made of.
IpcRest ==
    /\ ipc \in [Links -> Link] /\ unsent \subseteq Frames /\ textUsed \in BOOLEAN
    /\ submit \in [phase : {"off", "opening", "hello", "turn", "done"}, for : Links \cup {None}]
    /\ submitted \in [Links -> Nat]
    /\ passed \subseteq [frame : Frames, client : {"unknown", "asked", "known"}, peer : Peers \cup {None}]
    /\ FreshLinks /\ Submitting /\ OneText /\ \A p \in passed : PassedWell(p)

\* The inductive invariant.
CodexInv == GateInv /\ IpcRest /\ \A l \in Links : Heard(l)

\* What was heard stays true while the gate takes a step that keeps it.
LEMMA HeardStays ==
    ASSUME GateInv, GateKeeps, NEW l \in Links, Heard(l),
           ipc'[l].text = "success" => ipc[l].text = "success",
           l = submit.for => submit'.for = submit.for
    PROVE  Heard(l)'
<1>1. GateTypeOK /\ AnsweredAtMost' /\ Steady /\ SubmitTurn \in Requests
    BY IpcAssumption DEF GateInv, GateKeeps
<1>2. answers[SubmitTurn] = <<"data">> => answers'[SubmitTurn] = <<"data">> BY <1>1, SteadyData
<1>3. owner.answered \subseteq owner'.answered BY <1>1 DEF Steady
<1> QED BY <1>2, <1>3 DEF Heard

\* A step of the links alone leaves the gate as it is.
LEMMA GateSame ==
    ASSUME GateInv, UNCHANGED gateVars
    PROVE  GateKeeps
<1>1. UNCHANGED <<conn, offer, work, readers, poll, same, owner, strays, answers, told>> BY DEF gateVars
<1>2. GateTypeOK BY DEF GateInv
<1>3. /\ same' \in BOOLEAN /\ strays' \in 0..MaxStrays
      /\ owner' \in [got : SUBSET Requests, answered : SUBSET Requests, saved : SUBSET TurnRequests,
                     stage : [TurnRequests -> 0..3]]
    BY <1>1, <1>2 DEF GateTypeOK
<1>4. OwnerGrows BY <1>1, OwnerSame
<1>5. GateInv' BY <1>1, <1>3, <1>4, StillStep
<1>6. Steady BY <1>1 DEF Steady
<1> QED BY <1>5, <1>6 DEF GateKeeps

\* A link changes in neither what it was told of its text nor what a new link must be.
LEMMA LinkStep ==
    ASSUME CodexInv, NEW l \in Links, NEW k \in Link, ipc' = [ipc EXCEPT ![l] = k],
           k.text = "success" => ipc[l].text = "success",
           k.link \in {"idle", "early"} => k.client = "unknown",
           NEW more, more \subseteq [frame : Frames, client : {"unknown", "asked", "known"}, peer : Peers \cup {None}],
           \A p \in more : PassedWell(p), passed' = passed \cup more,
           unsent' \subseteq unsent, UNCHANGED <<gateVars, textUsed, submit, submitted>>
    PROVE  CodexInv'
<1>1. GateInv /\ IpcRest /\ \A m \in Links : Heard(m) BY DEF CodexInv
<1>2. GateKeeps BY <1>1, GateSame
<1>3. \A m \in Links : m # l => ipc'[m] = ipc[m] BY <1>1 DEF IpcRest
<1>4. ipc'[l] = k /\ ipc' \in [Links -> Link] BY <1>1 DEF IpcRest
<1>5. \A m \in Links : Heard(m)'
  <2> TAKE m \in Links
  <2>1. ipc'[m].text = "success" => ipc[m].text = "success" BY <1>3, <1>4
  <2> QED BY <1>1, <1>2, <2>1, HeardStays
<1>6. FreshLinks' BY <1>1, <1>3, <1>4 DEF IpcRest, FreshLinks
<1>7. \A p \in passed' : PassedWell(p)' BY <1>1 DEF IpcRest, PassedWell
<1>8. Submitting' /\ OneText' BY <1>1 DEF IpcRest, Submitting, OneText
<1>9. IpcRest' BY <1>1, <1>4, <1>6, <1>7, <1>8 DEF IpcRest
<1> QED BY <1>2, <1>5, <1>9 DEF GateKeeps, CodexInv

\* Links connect, drop, are initialized and learn who holds the thread.
LEMMA LinksKeep ==
    ASSUME CodexInv, NEW l \in Links,
           \/ LinkConnects(l) \/ LinkDrops(l)
           \/ \E ok \in BOOLEAN : Initialized(l, ok)
           \/ \E p \in Peers : SnapshotFrom(l, p)
    PROVE  CodexInv'
<1>1. ipc \in [Links -> Link] /\ ipc[l] \in Link /\ FreshLinks BY DEF CodexInv, IpcRest
<1>2. passed' = passed \cup {} /\ unsent' \subseteq unsent /\ UNCHANGED <<gateVars, textUsed, submit, submitted>>
    BY DEF LinkConnects, LinkDrops, Initialized, SnapshotFrom
<1>3. GoneLink(ipc[l]) \in Link /\ GoneLink(ipc[l]).text = ipc[l].text /\ GoneLink(ipc[l]).link = "gone"
  <2>1. <<>> \in Seq(Frames) OBVIOUS
  <2> QED BY <1>1, <2>1 DEF GoneLink, Link
<1>4. PICK k \in Link : /\ ipc' = [ipc EXCEPT ![l] = k] /\ k.text = ipc[l].text
                        /\ k.link \in {"idle", "early"} => k.client = "unknown"
  <2>1. CASE LinkConnects(l)
    <3>1. PICK k : k = [ipc[l] EXCEPT !.link = "early"] OBVIOUS
    <3>2. k \in Link /\ k.text = ipc[l].text /\ k.client = ipc[l].client BY <1>1, <3>1 DEF Link
    <3>3. ipc' = [ipc EXCEPT ![l] = k] /\ ipc[l].link = "idle" BY <1>1, <2>1, <3>1 DEF LinkConnects
    <3> QED BY <1>1, <3>2, <3>3 DEF FreshLinks
  <2>2. CASE ipc' = [ipc EXCEPT ![l] = GoneLink(ipc[l])] BY <1>3, <2>2
  <2>3. CASE ipc[l].link = "open" /\ ipc' = [ipc EXCEPT ![l] = [ipc[l] EXCEPT !.client = "known"]]
    <3>1. PICK k : k = [ipc[l] EXCEPT !.client = "known"] OBVIOUS
    <3>2. k \in Link /\ k.text = ipc[l].text /\ k.link = ipc[l].link BY <1>1, <3>1 DEF Link
    <3> QED BY <2>3, <3>1, <3>2
  <2>4. ASSUME NEW p \in Peers, SnapshotFrom(l, p)
        PROVE  \E k \in Link : /\ ipc' = [ipc EXCEPT ![l] = k] /\ k.text = ipc[l].text
                               /\ k.link \in {"idle", "early"} => k.client = "unknown"
    <3>1. PICK k : k = [ipc[l] EXCEPT !.peer = p] OBVIOUS
    <3>2. k \in Link /\ k.text = ipc[l].text /\ k.link = ipc[l].link BY <1>1, <3>1 DEF Link
    <3>3. ipc' = [ipc EXCEPT ![l] = k] /\ ipc[l].link = "open" BY <1>1, <2>4, <3>1 DEF SnapshotFrom
    <3> QED BY <3>2, <3>3
  <2> QED BY <2>1, <2>2, <2>3, <2>4 DEF LinkDrops, Initialized
<1>5. PICK none : none = {} OBVIOUS
<1>6. none \subseteq [frame : Frames, client : {"unknown", "asked", "known"}, peer : Peers \cup {None}]
      /\ (\A p \in none : PassedWell(p)) /\ passed' = passed \cup none
    BY <1>2, <1>5
<1>7. k.text = "success" => ipc[l].text = "success" BY <1>4
<1> QED BY <1>2, <1>4, <1>6, <1>7, LinkStep

\* The owner's side of a link opens, and its first initialize goes there.
LEMMA LinkOpensKeeps ==
    ASSUME CodexInv, NEW l \in Links, LinkOpens(l)
    PROVE  CodexInv'
<1> DEFINE Initializes(i) == Framed[ipc[l].early[i]].kind = "initialize"
           firsts == {i \in DOMAIN ipc[l].early : Initializes(i) /\ \A j \in 1 .. i - 1 : ~Initializes(j)}
<1>1. ipc \in [Links -> Link] /\ ipc[l] \in Link /\ FreshLinks BY DEF CodexInv, IpcRest
<1>2. ipc[l].link = "early" /\ ipc[l].client = "unknown" BY <1>1 DEF LinkOpens, FreshLinks
<1>3. PICK client : client = IF firsts = {} THEN ipc[l].client ELSE "asked" OBVIOUS
<1>4. client \in {"unknown", "asked"} BY <1>2, <1>3
<1>5. PICK more : more = {Saw(ipc[l].early[i], ipc[l]) : i \in firsts} OBVIOUS
<1>6. PICK k : k = [ipc[l] EXCEPT !.link = "open", !.early = <<>>, !.client = client] OBVIOUS
<1>7. ipc' = [ipc EXCEPT ![l] = k] /\ passed' = passed \cup more
      /\ UNCHANGED <<gateVars, unsent, textUsed, submit, submitted>>
    BY <1>3, <1>5, <1>6 DEF LinkOpens
<1>8. k \in Link /\ k.text = ipc[l].text /\ k.link = "open"
  <2>1. <<>> \in Seq(Frames) OBVIOUS
  <2> QED BY <1>1, <1>4, <1>6, <2>1 DEF Link
<1>9. \A p \in more : /\ PassedWell(p)
                      /\ p \in [frame : Frames, client : {"unknown", "asked", "known"}, peer : Peers \cup {None}]
  <2> TAKE p \in more
  <2>1. PICK i \in firsts : p = Saw(ipc[l].early[i], ipc[l]) BY <1>5
  <2>2. ipc[l].early \in Seq(Frames) /\ i \in DOMAIN ipc[l].early BY <1>1 DEF Link
  <2>3. ipc[l].early[i] \in Frames BY <2>2
  <2>4. Framed[ipc[l].early[i]].kind = "initialize" OBVIOUS
  <2>5. p.frame = ipc[l].early[i] /\ p.client = "unknown" /\ p.peer \in Peers \cup {None}
      BY <1>1, <1>2, <2>1 DEF Saw, Link
  <2>6. PassedWell(p) BY <2>4, <2>5 DEF PassedWell
  <2> QED BY <1>2, <2>1, <2>3, <2>5, <2>6 DEF Saw
<1> QED BY <1>7, <1>8, <1>9, LinkStep

\* A step of the gate that leaves the links alone.
LEMMA IpcSame ==
    ASSUME CodexInv, GateKeeps, UNCHANGED <<ipc, unsent, textUsed, submit, submitted, passed>>
    PROVE  CodexInv'
<1>1. GateInv /\ IpcRest /\ (\A m \in Links : Heard(m)) BY DEF CodexInv
<1>2. \A m \in Links : Heard(m)' BY <1>1, HeardStays
<1>3. IpcRest' BY <1>1 DEF IpcRest, FreshLinks, Submitting, OneText, PassedWell
<1> QED BY <1>2, <1>3 DEF GateKeeps, CodexInv

\* A frame of an IPC client that is kept, refused, or goes through without a text.
LEMMA PlainFrameKeeps ==
    ASSUME CodexInv, NEW f \in Frames, ClientFrame(f),
           ipc[Framed[f].link].link = "open" => ~IsText(f, ipc[Framed[f].link], textUsed)
    PROVE  CodexInv'
<1>1. PICK l \in Links : l = Framed[f].link BY IpcAssumption
<1>2. PICK k : k = ipc[l] OBVIOUS
<1>3. ipc \in [Links -> Link] /\ k \in Link /\ FreshLinks BY <1>2 DEF CodexInv, IpcRest
<1>4. /\ k.link \in {"early", "open"} /\ unsent' = unsent \ {f} /\ unsent' \subseteq unsent
      /\ UNCHANGED gateVars
    BY <1>1, <1>2 DEF ClientFrame
<1>5. CASE k.link = "early"
  <2>1. PICK j : j = [k EXCEPT !.early = Append(k.early, f)] OBVIOUS
  <2>2. Append(k.early, f) \in Seq(Frames) BY <1>3 DEF Link
  <2>3. j \in Link /\ j.text = k.text /\ j.link = "early" /\ j.client = k.client
      BY <1>3, <1>5, <2>1, <2>2 DEF Link
  <2>4. ipc' = [ipc EXCEPT ![l] = j] /\ UNCHANGED <<textUsed, submit, submitted, passed>>
      BY <1>1, <1>2, <1>3, <1>5, <2>1 DEF ClientFrame
  <2>5. k.client = "unknown" BY <1>2, <1>5, <1>3 DEF FreshLinks
  <2>6. PICK none : none = {} OBVIOUS
  <2>7. none \subseteq [frame : Frames, client : {"unknown", "asked", "known"}, peer : Peers \cup {None}]
        /\ (\A p \in none : PassedWell(p)) /\ passed' = passed \cup none
      BY <2>4, <2>6
  <2>8. j.text = "success" => ipc[l].text = "success" BY <1>2, <2>3
  <2>9. j.link \in {"idle", "early"} => j.client = "unknown" BY <2>3, <2>5
  <2> QED BY <1>4, <2>3, <2>4, <2>7, <2>8, <2>9, LinkStep
<1>6. CASE k.link = "open"
  <2>1. ~IsText(f, k, textUsed) BY <1>1, <1>2, <1>6
  <2>2. PICK j : j = Handled(f, k, textUsed) OBVIOUS
  <2>3. j \in Link /\ j.text = k.text /\ j.link = "open"
    <3>1. j = k \/ j = [k EXCEPT !.client = "asked"] BY <2>1, <2>2 DEF Handled
    <3> QED BY <1>3, <1>6, <3>1 DEF Link
  <2>4. PICK more : more = IF Goes(f, k, textUsed) THEN {Saw(f, k)} ELSE {} OBVIOUS
  <2>5. ipc' = [ipc EXCEPT ![l] = j] /\ UNCHANGED <<textUsed, submit, submitted>>
        /\ passed' = passed \cup more
      BY <1>1, <1>2, <1>6, <2>1, <2>2, <2>4 DEF ClientFrame, Submits
  <2>6. \A p \in more : /\ p \in [frame : Frames, client : {"unknown", "asked", "known"}, peer : Peers \cup {None}]
                        /\ PassedWell(p)
    <3> SUFFICES ASSUME Goes(f, k, textUsed)
                 PROVE  /\ Saw(f, k) \in [frame : Frames, client : {"unknown", "asked", "known"},
                                          peer : Peers \cup {None}]
                        /\ PassedWell(Saw(f, k))
        BY <2>4
    <3>1. Saw(f, k).frame = f /\ Saw(f, k).client = k.client BY DEF Saw
    <3>2. \/ Framed[f].kind = "initialize" /\ k.client = "unknown"
          \/ Framed[f].kind = "follow" /\ k.client = "known"
        BY <2>1 DEF Goes, IsInitialize, IsFollow
    <3>3. PassedWell(Saw(f, k)) BY <3>1, <3>2 DEF PassedWell
    <3> QED BY <1>3, <3>3 DEF Saw, Link
  <2>7. j.text = "success" => ipc[l].text = "success" BY <1>2, <2>3
  <2> QED BY <1>4, <2>3, <2>5, <2>6, <2>7, LinkStep
<1> QED BY <1>4, <1>5, <1>6

\* The text, once in the life of the gate.
LEMMA TextFrameKeeps ==
    ASSUME CodexInv, NEW f \in Frames, ClientFrame(f),
           ipc[Framed[f].link].link = "open", IsText(f, ipc[Framed[f].link], textUsed)
    PROVE  CodexInv'
<1>1. PICK l \in Links : l = Framed[f].link BY IpcAssumption
<1>2. PICK k : k = ipc[l] OBVIOUS
<1>3. GateInv /\ IpcRest /\ (\A m \in Links : Heard(m)) BY DEF CodexInv
<1>4. ipc \in [Links -> Link] /\ k \in Link BY <1>2, <1>3 DEF IpcRest
<1>5. /\ Framed[f].kind = "text" /\ ~textUsed /\ Framed[f].to = k.peer /\ k.link = "open"
      /\ k.client = "known" /\ k.peer # None
      /\ ~IsInitialize(f, k)
    BY <1>1, <1>2 DEF IsText, IsInitialize
<1>6. PICK j : j = [k EXCEPT !.text = "pending"] OBVIOUS
<1>7. j \in Link /\ j.link = "open" /\ j.text = "pending" BY <1>4, <1>5, <1>6 DEF Link
<1>8. /\ ipc' = [ipc EXCEPT ![l] = j] /\ textUsed' = TRUE /\ unsent' = unsent \ {f}
      /\ submit' = IF submit.phase = "off" THEN [phase |-> "opening", for |-> l] ELSE submit
      /\ submitted' = [submitted EXCEPT ![l] = submitted[l] + 1]
      /\ passed' = passed \cup {Saw(f, k)} /\ UNCHANGED gateVars
  <2>1. Handled(f, k, textUsed) = j BY <1>1, <1>2, <1>5, <1>6 DEF Handled
  <2>2. Goes(f, k, textUsed) BY <1>1, <1>2 DEF Goes
  <2>3. {f} # {} OBVIOUS
  <2> QED BY <1>1, <1>2, <1>5, <2>1, <2>2, <2>3 DEF ClientFrame, Submits
<1>9. GateKeeps BY <1>3, <1>8, GateSame
<1>10. /\ \A m \in Links : m # l => ipc'[m] = ipc[m]
       /\ ipc'[l] = j /\ ipc' \in [Links -> Link]
    BY <1>4, <1>7, <1>8
<1>11. \A m \in Links : Heard(m)'
  <2> TAKE m \in Links
  <2>1. ipc'[m].text = "success" => ipc[m].text = "success" BY <1>7, <1>10
  <2>2. m = submit.for => submit'.for = submit.for
    <3>1. m # None BY IpcAssumption
    <3> QED BY <1>3, <1>8, <3>1 DEF IpcRest, Submitting
  <2> QED BY <1>3, <1>9, <2>1, <2>2, HeardStays
<1>12. FreshLinks' BY <1>3, <1>7, <1>10 DEF IpcRest, FreshLinks
<1>13. /\ submit' \in [phase : {"off", "opening", "hello", "turn", "done"}, for : Links \cup {None}]
       /\ submit'.phase = "off" <=> submit'.for = None
  <2>1. l # None BY IpcAssumption
  <2> QED BY <1>3, <1>8, <2>1 DEF IpcRest, Submitting
<1>14. (\A m \in Links : submitted[m] = 0) /\ submitted \in [Links -> Nat]
    BY <1>3, <1>5 DEF IpcRest, Submitting
<1>15. /\ submitted' \in [Links -> Nat] /\ submitted'[l] = 1
       /\ \A m \in Links : m # l => submitted'[m] = 0
  <2>1. submitted[l] + 1 = 1 BY <1>14
  <2> QED BY <1>8, <1>14, <2>1
<1>16. OneText' BY <1>15 DEF OneText
<1>17. Submitting' BY <1>8, <1>13 DEF Submitting
<1>18. passed' \subseteq [frame : Frames, client : {"unknown", "asked", "known"}, peer : Peers \cup {None}]
       /\ \A p \in passed' : PassedWell(p)'
  <2>1. Saw(f, k).frame = f /\ Saw(f, k).peer = k.peer /\ Saw(f, k).client = k.client BY DEF Saw
  <2>2. PassedWell(Saw(f, k)) BY <1>5, <2>1 DEF PassedWell
  <2>3. Saw(f, k) \in [frame : Frames, client : {"unknown", "asked", "known"}, peer : Peers \cup {None}]
      BY <1>4 DEF Saw, Link
  <2>4. \A p \in passed' : PassedWell(p) BY <1>3, <1>8, <2>2 DEF IpcRest
  <2> QED BY <1>3, <1>8, <2>3, <2>4 DEF IpcRest, PassedWell
<1>19. IpcRest' BY <1>3, <1>8, <1>10, <1>12, <1>13, <1>15, <1>16, <1>17, <1>18 DEF IpcRest
<1> QED BY <1>9, <1>11, <1>19 DEF GateKeeps, CodexInv

\* A step of the submission: it goes on, and its link hears of success only for an answer
\* with data.
LEMMA SubmitStep ==
    ASSUME CodexInv, GateKeeps, submit.phase # "off", NEW p \in {"opening", "hello", "turn", "done"},
           submit' = [submit EXCEPT !.phase = p], UNCHANGED <<unsent, textUsed, submitted, passed>>,
           NEW outcome \in {"success", "error"}, outcome = "success" => answers[SubmitTurn] = <<"data">>,
           ipc' = ipc \/ ipc' = [ipc EXCEPT ![submit.for].text = outcome]
    PROVE  CodexInv'
<1>1. GateInv /\ IpcRest /\ (\A m \in Links : Heard(m)) BY DEF CodexInv
<1>2. ipc \in [Links -> Link] BY <1>1 DEF IpcRest
<1>3. PICK l \in Links : l = submit.for BY <1>1 DEF IpcRest, Submitting
<1>4. /\ ipc' \in [Links -> Link]
      /\ \A m \in Links : ipc'[m].link = ipc[m].link /\ ipc'[m].client = ipc[m].client
      /\ \A m \in Links : m # l => ipc'[m] = ipc[m]
      /\ ipc'[l].text = "success" => ipc[l].text = "success" \/ outcome = "success"
  <2>1. CASE ipc' = ipc BY <1>2, <2>1
  <2>2. CASE ipc' = [ipc EXCEPT ![l].text = outcome]
    <3>1. PICK k : k = [ipc[l] EXCEPT !.text = outcome] OBVIOUS
    <3>2. /\ k \in Link /\ k.link = ipc[l].link /\ k.client = ipc[l].client /\ k.text = outcome
      <4>1. ipc[l] \in Link /\ outcome \in {"none", "pending", "success", "error"} BY <1>2
      <4> QED BY <3>1, <4>1 DEF Link
    <3>3. ipc' = [ipc EXCEPT ![l] = k] BY <1>2, <2>2, <3>1
    <3> QED BY <1>2, <3>2, <3>3
  <2> QED BY <1>3, <2>1, <2>2
<1>5. /\ submit' \in [phase : {"off", "opening", "hello", "turn", "done"}, for : Links \cup {None}]
      /\ submit'.for = submit.for /\ submit'.phase # "off" /\ submit.for # None
    BY <1>1 DEF IpcRest, Submitting
<1>6. \A m \in Links : Heard(m)'
  <2> TAKE m \in Links
  <2>1. CASE ipc'[m].text = "success" => ipc[m].text = "success" BY <1>1, <1>5, <2>1, HeardStays
  <2>2. CASE outcome = "success" /\ m = l
    <3>1. SubmitTurn \in TurnRequests /\ Asked[SubmitTurn].client \in Clients
        BY IpcAssumption DEF TurnRequests
    <3>2. answers[SubmitTurn] = <<"data">> /\ SubmitTurn \in owner.answered
        BY <1>1, <2>2, <3>1 DEF GateInv, Accepted
    <3>3. GateTypeOK /\ AnsweredAtMost' /\ Steady /\ SubmitTurn \in Requests
        BY <1>1, <3>1 DEF GateInv, GateKeeps, TurnRequests
    <3>4. answers'[SubmitTurn] = <<"data">> BY <3>2, <3>3, SteadyData
    <3>5. SubmitTurn \in owner'.answered BY <3>2, <3>3 DEF Steady
    <3> QED BY <1>3, <1>5, <2>2, <3>4, <3>5 DEF Heard
  <2> QED BY <1>4, <2>1, <2>2
<1>7. FreshLinks' BY <1>1, <1>4 DEF IpcRest, FreshLinks
<1>8. Submitting' BY <1>1, <1>5 DEF IpcRest, Submitting
<1>9. OneText' /\ \A q \in passed' : PassedWell(q)' BY <1>1 DEF IpcRest, OneText, PassedWell
<1>10. IpcRest' BY <1>1, <1>4, <1>5, <1>7, <1>8, <1>9 DEF IpcRest
<1> QED BY <1>6, <1>10 DEF GateKeeps, CodexInv

\* The submission's steps keep the invariant.
LEMMA SubmitKeeps ==
    ASSUME CodexInv,
           SubmitOpens \/ SubmitsHello \/ SubmitsTurn \/ SubmitFails \/ \E ok \in BOOLEAN : SubmitAnswered(ok)
    PROVE  CodexInv'
<1>1. GateInv /\ IpcRest /\ (\A m \in Links : Heard(m)) BY DEF CodexInv
<1>2. Submitter \in Clients /\ SubmitHello \in Requests /\ SubmitTurn \in Requests BY IpcAssumption
<1>3. CASE SubmitOpens
  <2>1. Connect(Submitter) /\ submit.phase = "opening" /\ submit' = [submit EXCEPT !.phase = "hello"]
        /\ UNCHANGED <<ipc, unsent, textUsed, submitted, passed>>
      BY <1>3 DEF SubmitOpens, Moves
  <2>2. GateKeeps BY <1>1, <1>2, <2>1, LinkOfClient
  <2> QED BY <2>1, <2>2, SubmitStep
<1>4. CASE SubmitsHello
  <2>1. ClientSends(Submitter, SubmitHello) /\ UNCHANGED <<ipc, unsent, textUsed, submit, submitted, passed>>
      BY <1>4 DEF SubmitsHello, ipcVars
  <2>2. GateKeeps BY <1>1, <1>2, <2>1, ClientAsks
  <2> QED BY <2>1, <2>2, IpcSame
<1>5. CASE SubmitsTurn
  <2>1. ClientSends(Submitter, SubmitTurn) /\ submit.phase = "hello" /\ submit' = [submit EXCEPT !.phase = "turn"]
        /\ UNCHANGED <<ipc, unsent, textUsed, submitted, passed>>
      BY <1>5 DEF SubmitsTurn, Moves
  <2>2. GateKeeps BY <1>1, <1>2, <2>1, ClientAsks
  <2> QED BY <2>1, <2>2, SubmitStep
<1>6. ASSUME NEW outcome \in {"success", "error"}, outcome = "success" => answers[SubmitTurn] = <<"data">>,
             submit.phase \in {"hello", "turn"}, Disconnect(Submitter) \/ UNCHANGED gateVars, Settled(outcome)
      PROVE  CodexInv'
  <2>1. GateKeeps BY <1>1, <1>2, <1>6, LinkOfClient, GateSame
  <2>2. /\ submit' = [submit EXCEPT !.phase = "done"] /\ UNCHANGED <<unsent, textUsed, submitted, passed>>
        /\ ipc' = ipc \/ ipc' = [ipc EXCEPT ![submit.for].text = outcome]
      BY <1>6 DEF Settled
  <2> QED BY <1>6, <2>1, <2>2, SubmitStep
<1>7. CASE SubmitFails BY <1>6, <1>7 DEF SubmitFails
<1>8. ASSUME NEW ok \in BOOLEAN, SubmitAnswered(ok) PROVE CodexInv' BY <1>6, <1>8 DEF SubmitAnswered
<1> QED BY <1>3, <1>4, <1>5, <1>7, <1>8

\* Every step keeps the invariant.
LEMMA CodexKeeps == CodexInv /\ [IpcNext]_allVars => CodexInv'
<1> SUFFICES ASSUME CodexInv, [IpcNext]_allVars PROVE CodexInv' OBVIOUS
<1>1. CASE GateStep /\ UNCHANGED ipcVars
  <2>1. GateKeeps BY <1>1, GateStepKeeps DEF CodexInv
  <2> QED BY <1>1, <2>1, IpcSame DEF ipcVars
<1>2. CASE UNCHANGED allVars
  <2>1. UNCHANGED gateVars /\ UNCHANGED <<ipc, unsent, textUsed, submit, submitted, passed>>
      BY <1>2 DEF allVars, gateVars
  <2>2. GateKeeps BY <2>1, GateSame DEF CodexInv
  <2> QED BY <2>1, <2>2, IpcSame
<1>3. ASSUME NEW l \in Links, \/ LinkConnects(l) \/ LinkDrops(l)
                              \/ \E ok \in BOOLEAN : Initialized(l, ok)
                              \/ \E p \in Peers : SnapshotFrom(l, p)
      PROVE  CodexInv'
    BY <1>3, LinksKeep
<1>4. ASSUME NEW l \in Links, LinkOpens(l) PROVE CodexInv' BY <1>4, LinkOpensKeeps
<1>5. ASSUME NEW f \in Frames, ClientFrame(f) PROVE CodexInv' BY <1>5, PlainFrameKeeps, TextFrameKeeps
<1>6. CASE SubmitOpens \/ SubmitsHello \/ SubmitsTurn \/ SubmitFails \/ \E ok \in BOOLEAN : SubmitAnswered(ok)
    BY <1>6, SubmitKeeps
<1> QED BY <1>1, <1>2, <1>3, <1>4, <1>5, <1>6, Zenon DEF IpcNext, IpcStep

\* The system starts in its invariant.
LEMMA CodexStarts == IpcInit => CodexInv
<1> SUFFICES ASSUME IpcInit PROVE CodexInv OBVIOUS
<1>1. GateInv BY GateStarts DEF IpcInit
<1>2. NoLink \in Link /\ NoLink.client = "unknown" /\ NoLink.text = "none"
  <2>1. <<>> \in Seq(Frames) OBVIOUS
  <2> QED BY <2>1 DEF NoLink, Link
<1>3. ipc \in [Links -> Link] /\ \A l \in Links : ipc[l] = NoLink BY <1>2 DEF IpcInit
<1>4. unsent \subseteq Frames
  <2>1. CASE SubmitTurn \in offer BY <2>1, IpcAssumption DEF IpcInit
  <2>2. CASE SubmitTurn \notin offer BY <2>2 DEF IpcInit
  <2> QED BY <2>1, <2>2
<1>5. /\ textUsed = FALSE /\ submit = [phase |-> "off", for |-> None]
      /\ submitted = [l \in Links |-> 0] /\ passed = {}
    BY DEF IpcInit
<1>6. FreshLinks /\ (\A l \in Links : Heard(l)) BY <1>2, <1>3 DEF FreshLinks, Heard
<1>7. Submitting /\ OneText BY <1>5 DEF Submitting, OneText
<1>8. IpcRest BY <1>3, <1>4, <1>5, <1>6, <1>7 DEF IpcRest
<1> QED BY <1>1, <1>6, <1>8 DEF CodexInv

\* The invariant says what a client is told, how often a request is answered, and which
\* text is put to the owner.
LEMMA CodexInvSays == CodexInv => NotesBelong /\ AnsweredOnce /\ TextOnce
<1> SUFFICES ASSUME CodexInv PROVE NotesBelong /\ AnsweredOnce /\ TextOnce OBVIOUS
<1>1. GateInv /\ IpcRest /\ (\A m \in Links : Heard(m)) BY DEF CodexInv
<1>2. IpcTypeOK BY <1>1 DEF GateInv, IpcRest, IpcTypeOK
<1>3. TextOnce BY <1>1, TextParts DEF IpcRest
<1>4. AnsweredOnce BY <1>1 DEF GateInv, AnsweredAtMost, Counted, RunningReads, AnsweredOnce
<1>5. ASSUME NEW c \in Clients, NEW i \in DOMAIN told[c]
      PROVE  LET n == told[c][i] IN
             /\ n.clean /\ n.turn # None /\ Asked[n.turn].client = c
             /\ answers[n.turn] = <<"data">>
             /\ n.what = "completed" => \A j \in DOMAIN told[c] : j > i => told[c][j].turn # n.turn
  <2>1. /\ told[c][i].clean /\ told[c][i].turn # None /\ Asked[told[c][i].turn].client = c
        /\ answers[told[c][i].turn] = <<"data">> /\ EndedLast(told[c])
      BY <1>1 DEF GateInv, ToldTo
  <2>2. told[c] \in Seq(Note) BY <1>2 DEF IpcTypeOK, GateTypeOK
  <2>3. \A j \in DOMAIN told[c] : j > i <=> i < j BY <2>2
  <2> QED BY <2>1, <2>3 DEF EndedLast
<1>6. TurnAwaited BY <1>1 DEF GateInv
<1>7. NotesBelong BY <1>2, <1>5, <1>6 DEF NotesBelong, TurnAwaited
<1> QED BY <1>3, <1>4, <1>7

\* A client is told of its own accepted turns only, of each end once and last, and a turn
\* that waits is its client's one turn (fixtureNotification, pollSavedFixtureTurn).
THEOREM NotesBelongAlways == IpcSpec => []NotesBelong
<1>1. IpcInit => CodexInv BY CodexStarts
<1>2. CodexInv /\ [IpcNext]_allVars => CodexInv' BY CodexKeeps
<1>3. CodexInv => NotesBelong BY CodexInvSays
<1> QED BY <1>1, <1>2, <1>3, PTL DEF IpcSpec

\* Each request is answered at most once, and the readers are counted truly and bounded
\* (activePageReaders, the race of a page with its deadline).
THEOREM AnsweredOnceAlways == IpcSpec => []AnsweredOnce
<1>1. IpcInit => CodexInv BY CodexStarts
<1>2. CodexInv /\ [IpcNext]_allVars => CodexInv' BY CodexKeeps
<1>3. CodexInv => AnsweredOnce BY CodexInvSays
<1> QED BY <1>1, <1>2, <1>3, PTL DEF IpcSpec

\* All links together put one text to the owner, and success is told for an accepted turn
\* (textTurnUsed, submitFixtureTextThroughGate).
THEOREM TextOnceAlways == IpcSpec => []TextOnce
<1>1. IpcInit => CodexInv BY CodexStarts
<1>2. CodexInv /\ [IpcNext]_allVars => CodexInv' BY CodexKeeps
<1>3. CodexInv => TextOnce BY CodexInvSays
<1> QED BY <1>1, <1>2, <1>3, PTL DEF IpcSpec
=============================================================================
