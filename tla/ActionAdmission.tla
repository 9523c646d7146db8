-------------------------- MODULE ActionAdmission --------------------------
(***************************************************************************)
(* The authority path of one session: from an act request to the input the *)
(* worker delivers (act, decided, admit, batch, runBatch and guarded in    *)
(* src/src/session.ts; prepareAction, act and cancelPreparedActions in     *)
(* src/src/hyprland.ts; src/src/native/semantic_actions.py in the worker). *)
(*                                                                         *)
(* A request is judged when it arrives, again when its turn on the queue   *)
(* comes, and a semantic action two more times around the awaits in        *)
(* between.  Narrowing, pause and stop come at any of these awaits.        *)
(*                                                                         *)
(* The event loop runs one continuation at a time: code between two awaits *)
(* is one step.  The worker runs a request in a step of its own, before    *)
(* its reply reaches the broker.                                           *)
(***************************************************************************)
EXTENDS Naturals, Sequences, FiniteSets

CONSTANTS
    Calls,          \* act requests, in any number and order
    RequestIds,     \* the request identities they use
    Id,             \* Id[c]: the requestId of call c
    Actions,        \* Actions[c]: its actions, [class, semantic] in order
    Batches,        \* calls with "actions" or "capture": runBatch
    Captures,       \* batches with a final capture
    Narrows,        \* session.narrow requests
    Keep,           \* Keep[n]: the classes narrow n leaves allowed
    Classes,        \* action classes
    Granted,        \* the classes the session's policy allows at its creation
    Consulted,      \* classes a rule sends to the advisor
    Read,           \* the class of an observation
    RequestLimit,   \* session.requests (10000 in the code)
    MaxPauses,      \* bound: pauses
    Mixes,          \* bound: the sets of requests that come in one behaviour
    None

ASSUME ActionAssumption ==
    /\ Id \in [Calls -> RequestIds]
    /\ DOMAIN Actions = Calls
    /\ \A c \in Calls : /\ Actions[c] \in Seq([class : Classes, semantic : BOOLEAN])
                        /\ Actions[c] # <<>>
                        /\ c \notin Batches => Len(Actions[c]) = 1
    /\ Captures \subseteq Batches /\ Batches \subseteq Calls
    \* The batchable types are all plain input.
    /\ \A c \in Batches : \A k \in DOMAIN Actions[c] : ~Actions[c][k].semantic
    /\ Keep \in [Narrows -> SUBSET Classes]
    /\ Granted \subseteq Classes /\ Consulted \subseteq Classes /\ Read \in Classes
    /\ RequestLimit \in Nat /\ MaxPauses \in Nat
    /\ Mixes \subseteq SUBSET (Calls \cup Narrows)
    /\ None \notin Calls
    /\ Calls \cap Narrows = {} /\ {"pause", "resume", "stop"} \cap (Calls \cup Narrows) = {}

VARIABLES
    state,      \* session.state
    allowed,    \* session.policy.allow
    version,    \* which policy object session.policy is: narrow makes a new one
    requests,   \* session.requests: the call that took an identity, or None
    tail,       \* session.tail: the calls whose job has not settled
    pc,         \* where each call is ("absent": it never comes)
    receipts,   \* what each call has recorded for its actions so far
    seen,       \* the policy object a job holds across an await
    epochAt,    \* the semantic epoch a preparation started in
    prep,       \* NativeBackend.semanticPrepared: "none", "ready" or "sending"
    epoch,      \* NativeBackend.semanticEpoch
    npc,        \* narrow requests: "absent", "idle", "draining" or "acked"
    drains,     \* the sends a narrow or a stop waits for
    pausing,    \* session.paused: "none", "draining", "asked" or "held"
    pauses,     \* bound: pauses so far
    wire,       \* NativeWorker.tail: requests written or waiting, oldest first
    worker,     \* the worker: "up", "closing" (takes no request) or "down"
    tokens,     \* preparations the worker holds and has not consumed
    ran,        \* history: the actions of a call the worker delivered, in order
    journal,    \* history: the actions of a call journaled as allowed, in order
    judged      \* history: the policy object of the advisor's last allow

sessionVars == <<state, allowed, version, requests>>
jobVars     == <<tail, pc, receipts, seen, epochAt>>
prepVars    == <<prep, epoch>>
personVars  == <<npc, drains, pausing, pauses>>
workerVars  == <<wire, worker, tokens, ran>>
historyVars == <<journal, judged>>

vars == <<sessionVars, jobVars, prepVars, personVars, workerVars, historyVars>>

-----------------------------------------------------------------------------
Waiting  == {"preparing", "revoking", "cancelling", "sending", "baseline", "capturing"}
Settled  == {"done", "refused", "failed", "conflict", "joined"}
Places   == {"absent", "idle", "queued", "turn", "usage", "consulting", "usage2"} \cup Waiting \cup Settled
Marks    == {"ok", "refused", "failed", "skipped"}
Ops      == {"prepare", "cancel", "send", "act", "baseline", "observe", "pause", "resume"}
Askers   == Calls \cup Narrows \cup {"pause", "resume", "stop"}
Requests == [op : Ops, by : Askers, for : Calls \cup {None}, ran : BOOLEAN, ok : BOOLEAN]

Request(op, by, for) == [op |-> op, by |-> by, for |-> for, ran |-> FALSE, ok |-> FALSE]

Open    == state \notin {"closing", "closed"}
InWire(by) == \E i \in DOMAIN wire : wire[i].by = by
Sending(c) == \E i \in DOMAIN wire : wire[i].op = "send" /\ wire[i].for = c

\* The action whose turn it is, and its number.
At(c)   == Len(receipts[c]) + 1
Now(c)  == Actions[c][At(c)]

TypeOK ==
    /\ state \in {"running", "pausing", "paused", "closing", "closed"}
    /\ allowed \in SUBSET Classes /\ version \in Nat
    /\ requests \in [RequestIds -> Calls \cup {None}]
    /\ tail \in Seq(Calls)
    /\ pc \in [Calls -> Places]
    /\ receipts \in [Calls -> Seq(Marks)]
    /\ seen \in [Calls -> Nat] /\ epochAt \in [Calls -> Nat]
    /\ prep \in [Calls -> {"none", "ready", "sending"}]
    /\ epoch \in Nat
    /\ npc \in [Narrows -> {"absent", "idle", "draining", "acked"}]
    /\ drains \in [Narrows \cup {"stop"} -> SUBSET Calls]
    /\ pausing \in {"none", "draining", "asked", "held"} /\ pauses \in Nat
    /\ wire \in Seq(Requests)
    /\ worker \in {"up", "closing", "down"}
    /\ tokens \in SUBSET Calls
    /\ ran \in [Calls -> Seq(Nat)] /\ journal \in [Calls -> Seq(Nat)]
    /\ judged \in [Calls -> Nat \cup {None}]

Init ==
    /\ state = "running" /\ allowed = Granted /\ version = 0
    /\ requests = [i \in RequestIds |-> None]
    /\ tail = <<>>
    /\ \E mix \in Mixes :
          /\ pc = [c \in Calls |-> IF c \in mix THEN "idle" ELSE "absent"]
          /\ npc = [n \in Narrows |-> IF n \in mix THEN "idle" ELSE "absent"]
    /\ receipts = [c \in Calls |-> <<>>]
    /\ seen = [c \in Calls |-> 0] /\ epochAt = [c \in Calls |-> 0]
    /\ prep = [c \in Calls |-> "none"] /\ epoch = 0
    /\ drains = [n \in Narrows \cup {"stop"} |-> {}]
    /\ pausing = "none" /\ pauses = 0
    /\ wire = <<>> /\ worker = "up" /\ tokens = {}
    /\ ran = [c \in Calls |-> <<>>] /\ journal = [c \in Calls |-> <<>>]
    /\ judged = [c \in Calls |-> None]

-----------------------------------------------------------------------------
(* Building blocks of a job's steps.                                        *)

\* decide: "deny" stands for every refusal, the request for a confirmation too.
Decision(class) ==
    IF class \notin allowed THEN "deny"
    ELSE IF class \in Consulted THEN "consult" ELSE "allow"

\* NativeWorker.request rejects once the worker ends: nothing joins the wire.
Posted(w, request) == IF worker = "up" THEN Append(w, request) ELSE w

\* The job leaves the queue.  A closed session turns any error into SESSION_CLOSED.
Finish(c, outcome) ==
    /\ tail' = Tail(tail)
    /\ pc' = [pc EXCEPT ![c] = IF Open \/ outcome = "done" THEN outcome ELSE "failed"]

\* A lone semantic job that did not send gives its preparation back and waits
\* for the worker to say so.  w is the wire as this step finds it.
GiveUp(c, w) ==
    IF prep[c] = "ready"
    THEN /\ prep' = [prep EXCEPT ![c] = "none"]
         /\ wire' = Posted(w, Request("cancel", c, c))
         /\ pc' = [pc EXCEPT ![c] = "cancelling"]
         /\ UNCHANGED tail
    ELSE /\ Finish(c, "refused")
         /\ wire' = w
         /\ UNCHANGED prep

\* One action of a batch did not succeed: the rest is not attempted.
Stopped(c, mark) ==
    [k \in 1..Len(Actions[c]) |->
        IF k < At(c) THEN receipts[c][k] ELSE IF k = At(c) THEN mark ELSE "skipped"]

\* The action whose turn it is was refused: nothing of it reached the worker's
\* delivery.  A batch goes on to its receipts, a lone action ends.
ActionRefused(c, w) ==
    IF c \in Batches
    THEN /\ receipts' = [receipts EXCEPT ![c] = Stopped(c, "refused")]
         /\ pc' = [pc EXCEPT ![c] = "turn"]
         /\ wire' = w
         /\ UNCHANGED <<tail, prep>>
    ELSE /\ receipts' = [receipts EXCEPT ![c] = Append(@, "refused")]
         /\ GiveUp(c, w)

\* admit at dispatch and guarded, for a plain action: it goes to the worker.
SendPlain(c) ==
    /\ wire' = Posted(wire, Request("act", c, c))
    /\ pc' = [pc EXCEPT ![c] = "sending"]

Journaled(c) == journal' = [journal EXCEPT ![c] = Append(@, At(c))]

-----------------------------------------------------------------------------
(* The request arrives: act, batch.                                         *)

\* The synchronous part of admission.
Admissible(c) ==
    /\ state = "running"
    /\ Cardinality({i \in RequestIds : requests[i] # None}) < RequestLimit
    /\ \A k \in DOMAIN Actions[c] :
          Decision(Actions[c][k].class) \in
              IF c \in Batches THEN {"allow"} ELSE {"allow", "consult"}

\* The identity is taken before the job runs.  Mutant: it is not.
RememberNot(c) == UNCHANGED requests
Remember(c) == requests' = [requests EXCEPT ![Id[c]] = c]

Act(c) ==
    /\ pc[c] = "idle"
    /\ LET first == requests[Id[c]] IN
       \/ /\ ~Open
          /\ pc' = [pc EXCEPT ![c] = "refused"]
          /\ UNCHANGED <<requests, tail>>
       \/ /\ Open /\ first # None
          /\ pc' = [pc EXCEPT ![c] =
                IF Actions[first] = Actions[c] /\ (first \in Captures <=> c \in Captures)
                                              /\ (first \in Batches <=> c \in Batches)
                THEN "joined" ELSE "conflict"]
          /\ UNCHANGED <<requests, tail>>
       \/ /\ Open /\ first = None /\ ~Admissible(c)
          /\ pc' = [pc EXCEPT ![c] = "refused"]
          /\ UNCHANGED <<requests, tail>>
       \/ /\ Open /\ first = None /\ Admissible(c)
          /\ Remember(c)
          /\ tail' = Append(tail, c)
          /\ pc' = [pc EXCEPT ![c] =
                IF c \in Batches THEN "queued" ELSE "turn"]
    /\ UNCHANGED <<state, allowed, version, receipts, seen, epochAt, prepVars,
                   personVars, workerVars, historyVars>>

-----------------------------------------------------------------------------
(* The job's own steps, up to an await: enqueue, decided, admit, runBatch.  *)

MyTurn(c, place) == tail # <<>> /\ Head(tail) = c /\ pc[c] = place

\* enqueue's ensureOpen, and every later one, ends the job of a closed session.
JobClosed(c) ==
    /\ ~Open
    /\ \/ \E place \in {"queued", "usage", "consulting", "usage2"} : MyTurn(c, place)
       \/ c \notin Batches /\ MyTurn(c, "turn")
    /\ Finish(c, "failed")
    /\ UNCHANGED <<sessionVars, receipts, seen, epochAt, prepVars, personVars,
                   workerVars, historyVars>>

\* runBatch takes a frame before the input for a capture that is not text only.
Baseline(c) ==
    /\ MyTurn(c, "queued") /\ Open
    /\ \/ /\ c \in Captures /\ Decision(Read) = "allow"
          /\ wire' = Posted(wire, Request("baseline", c, c))
          /\ pc' = [pc EXCEPT ![c] = "baseline"]
       \/ /\ pc' = [pc EXCEPT ![c] = "turn"]
          /\ UNCHANGED wire
    /\ UNCHANGED <<sessionVars, tail, receipts, seen, epochAt, prepVars, personVars,
                   worker, tokens, ran, historyVars>>

\* A lone semantic job: the state, then the conversation's usage switch.
SemanticStarts(c) ==
    /\ MyTurn(c, "turn") /\ Open /\ c \notin Batches /\ Now(c).semantic
    /\ \/ /\ state = "running"
          /\ pc' = [pc EXCEPT ![c] = "usage"]
          /\ UNCHANGED <<tail, receipts>>
          /\ UNCHANGED <<wire, prep>>
       \/ /\ state # "running"
          /\ ActionRefused(c, wire)
    /\ UNCHANGED <<sessionVars, seen, epochAt, epoch, personVars, worker, tokens, ran, historyVars>>

\* The switch is answered: on, and the preparation goes to the worker, or off.
UsageAnswered(c) ==
    /\ MyTurn(c, "usage") /\ Open
    /\ \/ /\ seen' = [seen EXCEPT ![c] = version]
          /\ epochAt' = [epochAt EXCEPT ![c] = epoch]
          /\ wire' = Posted(wire, Request("prepare", c, c))
          /\ pc' = [pc EXCEPT ![c] = "preparing"]
          /\ UNCHANGED <<tail, receipts, prep>>
       \/ /\ ActionRefused(c, wire)
          /\ UNCHANGED <<seen, epochAt>>
    /\ UNCHANGED <<sessionVars, epoch, personVars, worker, tokens, ran, historyVars>>

\* The turn of a plain action, alone or in a batch: judged again, on the policy now.
PlainTurn(c) ==
    /\ MyTurn(c, "turn") /\ Open
    /\ At(c) <= Len(Actions[c])
    /\ IF c \in Batches THEN state = "running" ELSE ~Now(c).semantic
    /\ LET decision == Decision(Now(c).class) IN
       \/ /\ decision = "deny"
          /\ ActionRefused(c, wire)
          /\ UNCHANGED <<seen, journal>>
       \/ /\ decision = "consult"
          /\ seen' = [seen EXCEPT ![c] = version]
          /\ pc' = [pc EXCEPT ![c] = "consulting"]
          /\ UNCHANGED <<tail, receipts, wire, prep, journal>>
       \/ /\ decision = "allow"
          /\ Journaled(c) /\ SendPlain(c)
          /\ UNCHANGED <<tail, receipts, seen, prep>>
    /\ UNCHANGED <<sessionVars, epochAt, epoch, personVars, worker, tokens, ran, judged>>

\* The session no longer runs: a batch attempts nothing more.
BatchPaused(c) ==
    /\ MyTurn(c, "turn") /\ c \in Batches
    /\ At(c) <= Len(Actions[c]) /\ state # "running"
    /\ receipts' = [receipts EXCEPT ![c] = Stopped(c, "skipped")]
    /\ UNCHANGED <<sessionVars, tail, pc, seen, epochAt, prepVars, personVars,
                   workerVars, historyVars>>

\* The receipts are complete: the final capture, if the policy still allows to
\* read and anything was attempted, or the answer.
BatchEnds(c) ==
    /\ MyTurn(c, "turn") /\ c \in Batches
    /\ At(c) > Len(Actions[c])
    /\ LET captures == /\ c \in Captures /\ Open /\ Decision(Read) = "allow"
                       /\ \E k \in DOMAIN receipts[c] : receipts[c][k] # "skipped"
       IN \/ /\ captures
             /\ wire' = Posted(wire, Request("observe", c, c))
             /\ pc' = [pc EXCEPT ![c] = "capturing"]
             /\ UNCHANGED tail
          \/ /\ ~captures
             /\ Finish(c, IF c \in Captures /\ ~Open THEN "failed" ELSE "done")
             /\ UNCHANGED wire
    /\ UNCHANGED <<sessionVars, receipts, seen, epochAt, prepVars, personVars,
                   worker, tokens, ran, historyVars>>

\* The policy object the advisor judged is still in force and still allows.
\* Mutant: a newer policy that still allows the class will do.
StillAllowed(c) == Decision(Now(c).class) # "deny"
StillJudged(c) == Decision(Now(c).class) # "deny" /\ seen[c] = version

\* admit's continuation after the advisor: the policy now has the first word, the
\* policy object judged must still be in force, then the answer counts.  A silent
\* or broken advisor is a deny.
AdvisorAnswered(c) ==
    /\ MyTurn(c, "consulting") /\ Open
    /\ \/ /\ StillJudged(c)
          /\ seen' = [seen EXCEPT ![c] = version]
          /\ judged' = [judged EXCEPT ![c] = seen[c]]
          /\ Journaled(c)
          /\ IF Now(c).semantic
             THEN pc' = [pc EXCEPT ![c] = "usage2"] /\ UNCHANGED wire
             ELSE SendPlain(c)
          /\ UNCHANGED <<tail, receipts, prep>>
       \/ /\ ActionRefused(c, wire)
          /\ UNCHANGED <<seen, journal, judged>>
    /\ UNCHANGED <<sessionVars, epochAt, epoch, personVars, worker, tokens, ran>>

\* guarded's last look before a semantic input: usage switch, state, policy object,
\* then NativeBackend.act asks for an unrevoked preparation.
SendSemantic(c) ==
    /\ MyTurn(c, "usage2") /\ Open
    /\ \/ /\ state = "running" /\ seen[c] = version
          /\ prep[c] = "ready"
          /\ prep' = [prep EXCEPT ![c] = "sending"]
          /\ wire' = Posted(wire, Request("send", c, c))
          /\ pc' = [pc EXCEPT ![c] = "sending"]
          /\ UNCHANGED <<tail, receipts>>
       \/ /\ ActionRefused(c, wire)
    /\ UNCHANGED <<sessionVars, seen, epochAt, epoch, personVars, worker, tokens, ran,
                   historyVars>>

-----------------------------------------------------------------------------
(* The worker: one request at a time, then its reply.                       *)

\* The worker delivered the action of c whose turn it is.
Delivered(c) == ran' = [ran EXCEPT ![c] = Append(@, At(c))]

WorkerRuns ==
    /\ worker # "down" /\ wire # <<>> /\ ~Head(wire).ran
    /\ LET r == Head(wire) IN \E ok \in BOOLEAN :
       /\ wire' = [wire EXCEPT ![1] = [r EXCEPT !.ran = TRUE, !.ok = ok]]
       /\ \/ /\ r.op = "prepare"
             /\ tokens' = IF ok THEN tokens \cup {r.for} ELSE tokens
             /\ UNCHANGED ran
          \/ /\ r.op = "cancel"
             /\ tokens' = tokens \ {r.for}
             /\ UNCHANGED ran
          \* A consumed preparation refuses.  A failed send may have been delivered.
          \/ /\ r.op = "send"
             /\ tokens' = tokens \ {r.for}
             /\ \/ /\ r.for \in tokens
                   /\ Delivered(r.for)
                \/ ~ok /\ UNCHANGED ran
          \/ /\ r.op = "act"
             /\ Delivered(r.for) \/ (~ok /\ UNCHANGED ran)
             /\ UNCHANGED tokens
          \/ /\ r.op = "pause"
             /\ tokens' = {}
             /\ UNCHANGED ran
          \/ /\ r.op \in {"baseline", "observe", "resume"}
             /\ UNCHANGED <<tokens, ran>>
    /\ UNCHANGED <<sessionVars, jobVars, prepVars, personVars, worker, historyVars>>

\* Its reply reaches the broker and the continuation of the request runs.
Replied(op) == worker # "down" /\ wire # <<>> /\ Head(wire).ran /\ Head(wire).op = op

\* prepareAction's continuation: a preparation that a narrow or a stop overtook is
\* given back; else decided looks at the state and the policy object again, and
\* admit judges once more.
PrepareAnswered ==
    /\ Replied("prepare")
    /\ LET c == Head(wire).for
           w == Tail(wire)
           overtaken == ~Open \/ epoch # epochAt[c]
           decision == Decision(Now(c).class)
           goesOn == state = "running" /\ seen[c] = version /\ decision # "deny"
       IN \/ /\ ~Head(wire).ok
             /\ ActionRefused(c, w)
             /\ UNCHANGED journal
          \/ /\ Head(wire).ok /\ (overtaken \/ ~goesOn)
             /\ receipts' = [receipts EXCEPT ![c] = Append(@, "refused")]
             /\ wire' = Posted(w, Request("cancel", c, c))
             /\ pc' = [pc EXCEPT ![c] = IF overtaken THEN "revoking" ELSE "cancelling"]
             /\ UNCHANGED <<tail, prep, journal>>
          \/ /\ Head(wire).ok /\ ~overtaken /\ goesOn
             /\ prep' = [prep EXCEPT ![c] = "ready"]
             /\ wire' = w
             /\ \/ /\ decision = "consult"
                   /\ pc' = [pc EXCEPT ![c] = "consulting"]
                   /\ UNCHANGED journal
                \/ /\ decision = "allow"
                   /\ Journaled(c)
                   /\ pc' = [pc EXCEPT ![c] = "usage2"]
             /\ UNCHANGED <<tail, receipts>>
    /\ UNCHANGED <<sessionVars, seen, epochAt, epoch, personVars, worker, tokens, ran, judged>>

\* The end of a job's own cancel; a narrow's, a pause's or a stop's just leaves.
CancelAnswered ==
    /\ Replied("cancel")
    /\ wire' = Tail(wire)
    /\ LET c == Head(wire).by IN
       IF c \in Calls THEN Finish(c, "refused") ELSE UNCHANGED <<tail, pc>>
    /\ UNCHANGED <<sessionVars, receipts, seen, epochAt, prepVars, personVars,
                   worker, tokens, ran, historyVars>>

\* NativeBackend.act's continuation, then runBatch's or the job's end.  A failed
\* action may have been delivered: it is never repeated.
InputAnswered ==
    /\ Replied("act") \/ Replied("send")
    /\ wire' = Tail(wire)
    /\ LET c == Head(wire).for IN
       /\ prep' = [prep EXCEPT ![c] = "none"]
       /\ IF Head(wire).ok
          THEN /\ receipts' = [receipts EXCEPT ![c] = Append(@, "ok")]
               /\ IF c \in Batches THEN pc' = [pc EXCEPT ![c] = "turn"] /\ UNCHANGED tail
                  ELSE Finish(c, "done")
          ELSE IF c \in Batches /\ Open
          THEN /\ receipts' = [receipts EXCEPT ![c] = Stopped(c, "failed")]
               /\ pc' = [pc EXCEPT ![c] = "turn"] /\ UNCHANGED tail
          ELSE /\ receipts' = [receipts EXCEPT ![c] = Append(@, "failed")]
               /\ Finish(c, "failed")
    /\ UNCHANGED <<sessionVars, seen, epochAt, epoch, personVars, worker, tokens, ran,
                   historyVars>>

\* A baseline or a final capture; both may fail without failing the batch.
FrameAnswered ==
    /\ Replied("baseline") \/ Replied("observe")
    /\ wire' = Tail(wire)
    /\ LET c == Head(wire).for IN
       IF Head(wire).op = "baseline"
       THEN pc' = [pc EXCEPT ![c] = "turn"] /\ UNCHANGED tail
       ELSE Finish(c, IF Head(wire).ok \/ Open THEN "done" ELSE "failed")
    /\ UNCHANGED <<sessionVars, receipts, seen, epochAt, prepVars, personVars,
                   worker, tokens, ran, historyVars>>

PauseAnswered ==
    /\ Replied("pause")
    /\ wire' = Tail(wire)
    /\ IF Head(wire).ok /\ Open
       THEN state' = "paused" /\ pausing' = "held"
       ELSE pausing' = "none" /\ UNCHANGED state
    /\ UNCHANGED <<allowed, version, requests, jobVars, prepVars, npc, drains, pauses,
                   worker, tokens, ran, historyVars>>

ResumeAnswered ==
    /\ Replied("resume")
    /\ wire' = Tail(wire)
    /\ IF Head(wire).ok /\ state \in {"running", "paused"}
       THEN state' = "running" /\ pausing' = "none"
       ELSE UNCHANGED <<state, pausing>>
    /\ UNCHANGED <<allowed, version, requests, jobVars, prepVars, npc, drains, pauses,
                   worker, tokens, ran, historyVars>>

\* The worker went before the reply: the request is rejected and the job ends.
\* Mutant: a request that was only waiting is not rejected.
RequestLostUnheard(c) ==
    /\ worker # "up" /\ pc[c] \in Waiting \ {"preparing"} /\ ~InWire(c)
    /\ Finish(c, "failed")
    /\ prep' = [prep EXCEPT ![c] = "none"]
    /\ UNCHANGED <<sessionVars, receipts, seen, epochAt, epoch, personVars, workerVars,
                   historyVars>>
RequestLost(c) ==
    /\ worker # "up" /\ pc[c] \in Waiting /\ ~InWire(c)
    /\ Finish(c, "failed")
    /\ prep' = [prep EXCEPT ![c] = "none"]
    /\ UNCHANGED <<sessionVars, receipts, seen, epochAt, epoch, personVars, workerVars,
                   historyVars>>

-----------------------------------------------------------------------------
(* The person: narrow, pause, resume, stop.                                 *)

\* cancelPreparedActions: a new epoch; a preparation not yet sent is forgotten, and
\* every preparation, sending ones too, is cancelled in the worker.  The caller waits
\* for the cancels and the sends.  Jobs run one at a time, so at most one call holds a
\* preparation.  Mutant: only the preparations not yet sent.
Holder == CHOOSE c \in Calls : prep[c] # "none"
Forgotten == [c \in Calls |-> IF prep[c] = "ready" THEN "none" ELSE prep[c]]
CancelUnsent(by) ==
    /\ epoch' = epoch + 1
    /\ prep' = Forgotten
    /\ wire' = IF \E c \in Calls : prep[c] = "ready"
               THEN Posted(wire, Request("cancel", by, Holder)) ELSE wire
    /\ UNCHANGED drains
CancelPreparedActions(by) ==
    /\ epoch' = epoch + 1
    /\ prep' = Forgotten
    /\ wire' = IF \E c \in Calls : prep[c] # "none"
               THEN Posted(wire, Request("cancel", by, Holder)) ELSE wire
    /\ drains' = [drains EXCEPT ![by] = {c \in Calls : prep[c] = "sending"}]

Narrow(n) ==
    /\ npc[n] = "idle"
    /\ npc' = [npc EXCEPT ![n] = "draining"]
    /\ allowed' = allowed \cap Keep[n] /\ version' = version + 1
    /\ CancelPreparedActions(n)
    /\ UNCHANGED <<state, requests, jobVars, pausing, pauses, worker, tokens, ran, historyVars>>

\* Its cancels and the sends it found are settled: the narrow is acknowledged.
NarrowAcked(n) ==
    /\ npc[n] = "draining" /\ ~InWire(n) /\ \A c \in drains[n] : ~Sending(c)
    /\ npc' = [npc EXCEPT ![n] = "acked"]
    /\ UNCHANGED <<sessionVars, jobVars, prepVars, drains, pausing, pauses, workerVars, historyVars>>

\* A second pause joins the first.
Pause ==
    /\ Open /\ pausing = "none" /\ pauses < MaxPauses
    /\ state' = "pausing" /\ pausing' = "draining" /\ pauses' = pauses + 1
    /\ UNCHANGED <<allowed, version, requests, jobVars, prepVars, npc, drains, workerVars, historyVars>>

\* The jobs before it are settled: pauseLease.
PauseDrained ==
    /\ pausing = "draining" /\ tail = <<>> /\ Open
    /\ pausing' = "asked"
    /\ epoch' = epoch + 1
    /\ wire' = Posted(wire, Request("pause", "pause", None))
    /\ UNCHANGED <<sessionVars, jobVars, prep, npc, drains, pauses, worker, tokens, ran, historyVars>>

\* A pause that a stop overtook is answered with SESSION_CLOSED.
PauseRejected ==
    /\ ~Open
    /\ \/ pausing = "draining" /\ tail = <<>>
       \/ pausing = "asked" /\ ~InWire("pause")
    /\ pausing' = "none"
    /\ UNCHANGED <<sessionVars, jobVars, prepVars, npc, drains, pauses, workerVars, historyVars>>

Resume ==
    /\ state \in {"running", "paused"} /\ ~InWire("resume") /\ pauses > 0
    /\ wire' = Posted(wire, Request("resume", "resume", None))
    /\ UNCHANGED <<sessionVars, jobVars, prepVars, personVars, worker, tokens, ran, historyVars>>

\* stop and the beginning of NativeBackend.close.
Stop ==
    /\ Open
    /\ state' = "closing"
    /\ CancelPreparedActions("stop")
    /\ UNCHANGED <<allowed, version, requests, jobVars, npc, pausing, pauses,
                   worker, tokens, ran, historyVars>>

\* NativeWorker.close: the request already written may still be answered.
StopDrained ==
    /\ state = "closing" /\ worker = "up"
    /\ ~InWire("stop") /\ \A c \in drains["stop"] : ~Sending(c)
    /\ worker' = "closing"
    /\ wire' = IF wire = <<>> THEN <<>> ELSE <<Head(wire)>>
    /\ UNCHANGED <<sessionVars, jobVars, prepVars, personVars, tokens, ran, historyVars>>

\* The worker ends, on the broker's word or on its own, by a crash or by the
\* deadline of a request; its end stops the session.
WorkerExits ==
    /\ worker # "down"
    /\ worker' = "down" /\ wire' = <<>> /\ tokens' = {}
    /\ IF Open THEN state' = "closing" /\ epoch' = epoch + 1 /\ prep' = Forgotten
       ELSE UNCHANGED <<state, epoch, prep>>
    /\ UNCHANGED <<allowed, version, requests, jobVars, personVars, ran, historyVars>>

StopEnds ==
    /\ state = "closing" /\ worker = "down" /\ tail = <<>>
    /\ state' = "closed"
    /\ UNCHANGED <<allowed, version, requests, jobVars, prepVars, personVars,
                   workerVars, historyVars>>

-----------------------------------------------------------------------------
JobStep(c) ==
    \/ JobClosed(c) \/ Baseline(c) \/ SemanticStarts(c) \/ UsageAnswered(c)
    \/ PlainTurn(c) \/ BatchPaused(c) \/ BatchEnds(c) \/ AdvisorAnswered(c)
    \/ SendSemantic(c) \/ RequestLost(c)

WorkerStep ==
    \/ WorkerRuns \/ PrepareAnswered \/ CancelAnswered \/ InputAnswered \/ FrameAnswered
    \/ PauseAnswered \/ ResumeAnswered \/ WorkerExits

Next ==
    \/ \E c \in Calls : Act(c) \/ JobStep(c)
    \/ WorkerStep
    \/ \E n \in Narrows : Narrow(n) \/ NarrowAcked(n)
    \/ Pause \/ PauseDrained \/ PauseRejected \/ Resume \/ Stop \/ StopDrained \/ StopEnds

Spec == Init /\ [][Next]_vars

\* The broker runs every continuation; an advisor and the usage switch answer or time
\* out; a request is answered or its deadline ends the worker; so does a close.
Deadline == (wire # <<>> \/ worker = "closing") /\ WorkerStep
Fairness ==
    /\ \A c \in Calls : WF_vars(JobStep(c))
    /\ \A n \in Narrows : WF_vars(NarrowAcked(n))
    /\ WF_vars(Deadline)
    /\ WF_vars(PauseDrained) /\ WF_vars(StopDrained)
FairSpec == Spec /\ Fairness

-----------------------------------------------------------------------------
(* What the session promises.                                               *)

\* admit, runBatch: an action goes to the worker, and a frame is asked for, only
\* while the policy in force at that moment allows its class, whatever was decided
\* when the request came.
HandedOver(c, places) == pc'[c] \in places /\ pc'[c] # pc[c]
DispatchObeysPolicy ==
    [][\A c \in Calls :
        /\ HandedOver(c, {"sending"}) => Now(c).class \in allowed
        /\ HandedOver(c, {"baseline", "capturing"}) => Read \in allowed]_vars

\* admit: "The advisor judged one exact policy": an action of a consulted class goes
\* to the worker only on the advisor's allow for the policy object now in force.
AdvisorExact ==
    [][\A c \in Calls : HandedOver(c, {"sending"}) /\ Now(c).class \in Consulted
        => judged'[c] = version]_vars

\* Every dispatch rests on the policy and the judgement in force at that moment
\* (admit, guarded).
DispatchExact == DispatchObeysPolicy /\ AdvisorExact

\* cancelPreparedActions: "Revocation must drain it before acknowledging a narrower
\* policy": no semantic send of a class that an acknowledged narrow forbids is still
\* with the worker.
NarrowHolds ==
    \A i \in DOMAIN wire, n \in Narrows :
        wire[i].op = "send" /\ npc[n] = "acked"
        => Actions[wire[i].for][At(wire[i].for)].class \in Keep[n]

\* semantic_actions, cancelPreparedAction: a preparation left in the worker belongs to
\* the job now running, or its cancel is on the way.
NoStrayToken ==
    worker = "up" =>
        \A c \in tokens : \/ tail # <<>> /\ Head(tail) = c
                          \/ \E i \in DOMAIN wire : wire[i].op = "cancel" /\ wire[i].for = c

\* What a narrow acknowledged or a job gave up is gone from the worker, however the
\* prepares, sends and cancels crossed (cancelPreparedActions, finishCancel).
PreparationsHeld == TypeOK /\ NarrowHolds /\ NoStrayToken

\* runBatch's receipts and the not-delivered disposition of a refusal are true: ok was
\* delivered, refused and not-attempted were not and never will be, and after the
\* first action that is not ok nothing is attempted.
DeliveredActions(c) == {ran[c][i] : i \in DOMAIN ran[c]}
ReceiptsTrue ==
    \A c \in Calls :
        /\ \A k \in DOMAIN receipts[c] :
              /\ receipts[c][k] = "ok" => k \in DeliveredActions(c)
              /\ receipts[c][k] \in {"refused", "skipped"} => k \notin DeliveredActions(c)
              /\ \A j \in 1..(k - 1) : receipts[c][j] # "ok" => receipts[c][k] = "skipped"
        /\ pc[c] \in {"refused", "conflict", "joined"} =>
              ran[c] = <<>> /\ \A i \in DOMAIN wire : wire[i].op \in {"act", "send"} => wire[i].for # c

\* act, batch: a request identity is executed by one call only, every action of it at
\* most once and in order, and a delivered action was journaled as allowed before.
Increasing(s) == \A i, j \in DOMAIN s : i < j => s[i] < s[j]
OnceOnly ==
    \A c \in Calls :
        /\ Increasing(ran[c]) /\ Increasing(journal[c])
        /\ DeliveredActions(c) \subseteq {journal[c][i] : i \in DOMAIN journal[c]}
        /\ \A d \in Calls \ {c} : Id[c] = Id[d] /\ ran[c] # <<>> => ran[d] = <<>>

\* What the agent is told of a request is what was done of it, once (runBatch, batch).
ReceiptsExact == ReceiptsTrue /\ OnceOnly

\* Every act request is answered and every narrow acknowledged, although a send it
\* drains may fail: no await of a job or of a narrow outlives the worker.
ActionsSettle == []<>(/\ \A c \in Calls : pc[c] \in Settled \cup {"idle", "absent"}
                       /\ \A n \in Narrows : npc[n] # "draining")
=============================================================================
