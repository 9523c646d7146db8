----------------------------- MODULE ReadUsage -----------------------------
(***************************************************************************)
(* The owner's switch for protected reads, from request to durable record:  *)
(* ReadUsageCoordinator (src/src/read-usage-coordinator.ts), the store      *)
(* transport (src/src/read-usage-store-transport.ts) over its socket        *)
(* (src/src/read-usage-unix-channel.ts), composed as in                     *)
(* src/src/read-usage-cohort.ts with the service and store of UsageStore.   *)
(*                                                                          *)
(* A failure of the transport, of the socket or of a callback poisons the   *)
(* coordinator and the transport in one synchronous step; poisoned stands   *)
(* for the latches of all three.  A deadline of one request does not: only  *)
(* its conversation is lost.  The clock and the timers are assumed to work. *)
(***************************************************************************)
EXTENDS UsageStore, Sequences

CONSTANTS
    MaxEpoch,    \* Number.MAX_SAFE_INTEGER: the last epoch
    MaxPending,  \* MaxPending[c]: requests of c that may be unsettled (8 in the code)
    Capacity     \* frames the transport holds (4 in the code)

ASSUME UsageAssumption ==
    /\ IsFiniteSet(Conversations) /\ Cardinality(Conversations) <= Capacity
    /\ MaxEpoch \in Nat
    /\ MaxPending \in [Conversations -> Nat \ {0}] /\ Capacity \in Nat

VARIABLES
    counter,    \* the coordinator's epoch counter
    epoch,      \* epoch[c]: entry.epoch
    enabled,    \* the conversations with entry.enabled
    uncertain,  \* the conversations with entry.uncertain
    poisoned,   \* the latch of coordinator, cohort and transport
    requests,   \* requests[c]: what entry.tail still has to settle, oldest first
    expired,    \* the deadlines of requests up to this epoch have passed
    wire,       \* transport: the frame in flight and those queued behind it
    stage,      \* of the frame in flight: "out", "serving", "back" or "acked"
    written,    \* the write of the frame in flight has completed
    asked,      \* history: asked[c]: the newest request
    answered    \* history: answered[c]: the newest request acknowledged to the owner

coordinatorVars == <<counter, epoch, enabled, uncertain, poisoned, requests>>
wireVars == <<wire, stage, written>>
historyVars == <<asked, answered>>
vars == <<storeVars, coordinatorVars, expired, wireVars, historyVars>>

-----------------------------------------------------------------------------
Pending == [record : Record, run : {"waiting", "storing", "ok", "failed"}, timedOut : BOOLEAN]
Frame   == [conv : Conversations, record : Record]

TypeOK ==
    /\ StoreTypeOK
    /\ counter \in 0..MaxEpoch /\ epoch \in [Conversations -> 0..MaxEpoch]
    /\ enabled \in SUBSET Conversations /\ uncertain \in SUBSET Conversations
    /\ poisoned \in BOOLEAN
    /\ requests \in [Conversations -> Seq(Pending)]
    /\ expired \in 0..MaxEpoch
    /\ wire \in Seq(Frame) /\ stage \in {"out", "serving", "back", "acked"} /\ written \in BOOLEAN
    /\ asked \in [Conversations -> Record] /\ answered \in [Conversations -> Record]

\* Every conversation is registered.  The epochs that registration uses up are left
\* out: nothing but a request's own epoch is compared with an entry's.
Init ==
    /\ StoreInit
    /\ counter = 0 /\ epoch = [c \in Conversations |-> 0]
    /\ enabled = {} /\ uncertain = {} /\ poisoned = FALSE
    /\ requests = [c \in Conversations |-> <<>>]
    /\ expired = 0
    /\ wire = <<>> /\ stage = "out" /\ written = FALSE
    /\ asked = [c \in Conversations |-> Absent]
    /\ answered = [c \in Conversations |-> Absent]

\* usageCurrent and usageVersion: the conversations that may be read.
Usable == {c \in enabled : ~poisoned /\ c \notin uncertain}

\* The owner hands the socket over once the service opened its root or failed to.
Adopted == at[Own] \in {"ready", "failed"}

Late(r) == r.record.epoch <= expired
Settled(r) == r.run \in {"ok", "failed"}

-----------------------------------------------------------------------------
(* Poison.  Every conversation is fenced, the transport rejects what it      *)
(* holds and keeps only the frame in flight, whose fate is unknown.          *)

Rejected(s) == [i \in DOMAIN s |-> IF s[i].run = "storing" THEN [s[i] EXCEPT !.run = "failed"] ELSE s[i]]

FenceEpoch(n) == IF n < MaxEpoch THEN n + 1 ELSE n

\* From the epoch counter n and the queues qs.
Poison(n, qs) ==
    /\ poisoned' = TRUE
    /\ counter' = FenceEpoch(n)
    /\ enabled' = {} /\ uncertain' = Conversations
    /\ epoch' = [c \in Conversations |-> counter']
    /\ requests' = [c \in Conversations |-> Rejected(qs[c])]
    /\ wire' = IF wire = <<>> THEN <<>> ELSE <<Head(wire)>>

\* The owner's fail, the end or an error of the socket, a malformed answer, or the
\* transport's deadline of a frame, which is later than the request's own.
ChannelFails ==
    /\ Adopted /\ ~poisoned
    /\ Poison(counter, requests)
    /\ UNCHANGED <<storeVars, expired, stage, written, historyVars>>

-----------------------------------------------------------------------------
(* The owner's requests.                                                     *)

New(e, on) == [record |-> [epoch |-> e, on |-> on], run |-> "waiting", timedOut |-> FALSE]

\* on and off fence at once and queue a write.  An off whose write cannot be
\* queued leaves its conversation uncertain.  A revocation callback that fails
\* poisons.
Ask(c, on) ==
    LET e    == counter + 1
        kept == c \notin uncertain /\ Len(requests[c]) < MaxPending[c]
        qs   == IF kept THEN [requests EXCEPT ![c] = Append(@, New(e, on))] ELSE requests
    IN  /\ Adopted /\ ~poisoned /\ counter < MaxEpoch
        /\ on => kept
        /\ asked' = [asked EXCEPT ![c] = [epoch |-> e, on |-> on]]
        /\ \/ /\ counter' = e /\ epoch' = [epoch EXCEPT ![c] = e]
              /\ enabled' = enabled \ {c}
              /\ uncertain' = IF kept THEN uncertain ELSE uncertain \cup {c}
              /\ requests' = qs
              /\ UNCHANGED <<poisoned, wire>>
           \/ Poison(e, qs)
        /\ UNCHANGED <<storeVars, expired, stage, written, answered>>

\* The epochs are used up: no request is accepted any more.
Exhausted ==
    /\ Adopted /\ ~poisoned /\ counter = MaxEpoch
    /\ Poison(counter, requests)
    /\ UNCHANGED <<storeVars, expired, stage, written, historyVars>>

-----------------------------------------------------------------------------
(* One write: from its turn on the conversation's queue to the acknowledgement. *)

\* The deadline of the oldest request still under way passes.
DeadlinePasses ==
    /\ \E c \in Conversations : \E i \in DOMAIN requests[c] :
          /\ ~Late(requests[c][i])
          /\ \A d \in Conversations : \A j \in DOMAIN requests[d] :
                Late(requests[d][j]) \/ requests[c][i].record.epoch <= requests[d][j].record.epoch
          /\ expired' = requests[c][i].record.epoch
    /\ UNCHANGED <<storeVars, coordinatorVars, wireVars, historyVars>>

\* Mutant: the timer of a request starts with its write instead of with its arrival.
TimerFiresInTurn(c) ==
    /\ requests[c] # <<>>
    /\ LET r == Head(requests[c]) IN
          /\ Late(r) /\ ~r.timedOut /\ ~Settled(r)
          /\ requests' = [requests EXCEPT ![c][1].timedOut = TRUE]
    /\ enabled' = enabled \ {c} /\ uncertain' = uncertain \cup {c}
    /\ UNCHANGED <<storeVars, counter, epoch, poisoned, expired, wireVars, historyVars>>

\* Its timer fires: the owner is told that the request is unconfirmed, and the
\* conversation is lost.  The write stays in the queue.
TimerFires(c) ==
    /\ \E i \in DOMAIN requests[c] :
          LET r == requests[c][i] IN
          /\ Late(r) /\ ~r.timedOut /\ ~Settled(r)
          /\ requests' = [requests EXCEPT ![c][i].timedOut = TRUE]
    /\ enabled' = enabled \ {c} /\ uncertain' = uncertain \cup {c}
    /\ UNCHANGED <<storeVars, counter, epoch, poisoned, expired, wireVars, historyVars>>

\* The write's turn: a late or uncertain one fails, any other is handed to the
\* transport, which sends it unless a frame is in flight.
Start(c) ==
    /\ requests[c] # <<>> /\ Head(requests[c]).run = "waiting"
    /\ LET r    == Head(requests[c])
           fits == Len(wire) < Capacity
           run  == IF Late(r) \/ c \in uncertain \/ poisoned \/ ~fits THEN "failed" ELSE "storing"
       IN  /\ requests' = [requests EXCEPT ![c][1].run = run]
           /\ enabled' = IF run = "failed" THEN enabled \ {c} ELSE enabled
           /\ uncertain' = IF run = "failed" THEN uncertain \cup {c} ELSE uncertain
           /\ IF run = "failed" THEN UNCHANGED wireVars
              ELSE /\ wire' = Append(wire, [conv |-> c, record |-> r.record])
                   /\ IF wire = <<>> THEN stage' = "out" /\ written' = FALSE
                      ELSE UNCHANGED <<stage, written>>
    /\ UNCHANGED <<storeVars, counter, epoch, poisoned, expired, historyVars>>

\* The service reads the frame, commits it (UsageStore) and answers.
ServiceTakes ==
    /\ wire # <<>> /\ stage = "out" /\ Take(Head(wire))
    /\ stage' = "serving"
    /\ UNCHANGED <<coordinatorVars, expired, wire, written, historyVars>>

ServiceAnswers ==
    /\ Acknowledge /\ stage' = "back"
    /\ UNCHANGED <<coordinatorVars, expired, wire, written, historyVars>>

\* finish and the continuation of the commit.  The frame was acknowledged and its
\* write completed, so the request's store part settles; it fails when the deadline
\* has passed, the conversation is lost or a newer request overtook an on.
Finish ==
    LET c == Head(wire).conv
        r == Head(requests[c])
        late  == Late(r)
        stale == r.record.on /\ epoch[c] # r.record.epoch
        run   == IF late \/ c \in uncertain \/ stale THEN "failed" ELSE "ok"
    IN  /\ requests' = [requests EXCEPT ![c][1].run = run]
        /\ enabled' = IF late THEN enabled \ {c} ELSE enabled
        /\ uncertain' = IF late THEN uncertain \cup {c} ELSE uncertain
        /\ wire' = Tail(wire) /\ stage' = "out" /\ written' = FALSE
        /\ UNCHANGED <<counter, epoch, poisoned>>

AckArrives ==
    /\ wire # <<>> /\ stage = "back" /\ ~poisoned
    /\ IF written THEN Finish
       ELSE stage' = "acked" /\ UNCHANGED <<coordinatorVars, wire, written>>
    /\ UNCHANGED <<storeVars, expired, historyVars>>

WriteCompletes ==
    /\ wire # <<>> /\ ~written /\ ~poisoned
    /\ IF stage = "acked" THEN Finish
       ELSE written' = TRUE /\ UNCHANGED <<coordinatorVars, wire, stage>>
    /\ UNCHANGED <<storeVars, expired, historyVars>>

\* Mutant: the final fence does not look for a newer request.
ConfirmsUnfenced(c, r) == r.run = "ok" /\ ~r.timedOut /\ ~Late(r) /\ ~poisoned /\ c \notin uncertain

\* The last fence before the acknowledgement.
Confirms(c, r) ==
    /\ r.run = "ok" /\ ~r.timedOut /\ ~Late(r) /\ ~poisoned /\ c \notin uncertain
    /\ r.record.on => epoch[c] = r.record.epoch

\* The acknowledgement settles: the only place where a conversation is enabled.
Settle(c) ==
    /\ requests[c] # <<>> /\ Settled(Head(requests[c]))
    /\ LET r == Head(requests[c])
           lostNow == r.run = "ok" /\ ~r.timedOut /\ Late(r)
       IN  /\ requests' = [requests EXCEPT ![c] = Tail(@)]
           /\ IF Confirms(c, r)
              THEN /\ enabled' = IF r.record.on THEN enabled \cup {c} ELSE enabled
                   /\ answered' = [answered EXCEPT ![c] = r.record]
                   /\ UNCHANGED uncertain
              ELSE /\ enabled' = IF lostNow THEN enabled \ {c} ELSE enabled
                   /\ uncertain' = IF lostNow THEN uncertain \cup {c} ELSE uncertain
                   /\ UNCHANGED answered
    /\ UNCHANGED <<storeVars, counter, epoch, poisoned, expired, wireVars, asked>>

-----------------------------------------------------------------------------
\* The store's own steps, its failures and a power loss, which ends the broker too.
StoreRuns ==
    /\ StoreStep
    /\ UNCHANGED <<coordinatorVars, expired, wireVars, historyVars>>

StoreFails ==
    /\ \E s \in Services : ServiceFails(s)
    /\ UNCHANGED <<coordinatorVars, expired, wireVars, historyVars>>

PowerLoss ==
    /\ PowerFails
    /\ enabled' = {} /\ uncertain' = Conversations /\ poisoned' = TRUE
    /\ requests' = [c \in Conversations |-> <<>>]
    /\ wire' = <<>> /\ stage' = "out" /\ written' = FALSE
    /\ counter' = 0 /\ epoch' = [c \in Conversations |-> 0] /\ expired' = 0
    /\ UNCHANGED historyVars

Next ==
    \/ \E c \in Conversations : Ask(c, TRUE) \/ Ask(c, FALSE)
    \/ \E c \in Conversations : TimerFires(c) \/ Start(c) \/ Settle(c)
    \/ Exhausted \/ DeadlinePasses \/ ChannelFails
    \/ ServiceTakes \/ ServiceAnswers \/ AckArrives \/ WriteCompletes
    \/ StoreRuns \/ StoreFails \/ PowerLoss

Spec == Init /\ [][Next]_vars

\* Timers fire and continuations run.  Nothing is assumed of the store.
Fairness ==
    /\ WF_vars(DeadlinePasses)
    /\ \A c \in Conversations : WF_vars(TimerFires(c)) /\ WF_vars(Start(c)) /\ WF_vars(Settle(c))
FairSpec == Spec /\ Fairness

-----------------------------------------------------------------------------
(* Properties.                                                               *)

\* The whole chain of coordinator, transport, service and store, with its deadlines,
\* failures and power losses, is a UsageSwitch: a conversation is readable only while
\* its newest request is an on that no power loss can take away, a request ends what
\* was readable before it, and what is in doubt stays lost.
Switch == INSTANCE UsageSwitch WITH
    record  <- [c \in Conversations |-> Durable(c)],
    allowed <- Usable,
    lost    <- IF poisoned THEN Conversations ELSE uncertain
SwitchKept == Switch!Spec

\* on, off: an acknowledgement to the owner means that the request, or a newer one,
\* is on disk, whatever fails afterwards.
AnswerDurable == \A c \in Conversations : answered[c].epoch <= Durable(c).epoch

\* read_evidence: a root without marker and leftover shows no record older than the
\* last one acknowledged, and none while a commit is between its marker and its end,
\* whichever directory a power loss leaves.
EvidenceHonest ==
    \A d \in past, c \in Conversations : Clean(d, c) =>
        /\ d.json[c].epoch >= acked[c].epoch
        /\ ~(job # None /\ job.conv = c /\ job.step # "done")

\* What was acknowledged is on disk and can be read back as such (commit, read_evidence).
AnswersKept == AnswerDurable /\ EvidenceHonest

\* A root has one life: the service that works in it created its lock file, and is the
\* only one that did.  Once a service has sealed the root none gets its lock again, neither
\* one that looked at the root before the seal and finds the lock of a dead service free,
\* nor one that opens it after a power loss (O_EXCL, _guard after flock, _seal_session).
RootFenced ==
    /\ seals <= 1 /\ (seals = 1 => \A s \in Services : at[s] # "locked")
    /\ \A s \in Services : at[s] = "ready" => made = {s}

\* ReadUsageStore.commit against the coordinator's queues: a healthy service never
\* finds a marker, a leftover or a newer record in the way of the next frame.
NothingInTheWay ==
    wire # <<>> /\ stage = "out" /\ at[Own] = "ready" /\ job = None => Admits(Head(wire))

\* The store keeps its types and what was acknowledged, and stands in nobody's way.
StoreSound == TypeOK /\ AnswersKept /\ NothingInTheWay

\* Every accepted request is answered, also when the store hangs or is gone.
Unanswered(e) ==
    \E c \in Conversations : \E i \in DOMAIN requests[c] :
        requests[c][i].record.epoch = e /\ ~requests[c][i].timedOut
RequestsAnswered == \A e \in 1..MaxEpoch : Unanswered(e) ~> ~Unanswered(e)
=============================================================================
