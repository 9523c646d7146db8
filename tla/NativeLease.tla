----------------------------- MODULE NativeLease -----------------------------
(***************************************************************************)
(* The life of an application lease (native/existing.py, session_worker.py,  *)
(* control.py, leases.py, native-worker.ts).  One worker process holds at    *)
(* most one lease of the one application client: it writes handoff.json,     *)
(* journals its intent under the lock of the control directory, asks the     *)
(* compositor plugin, journals the outcome and answers the broker over its   *)
(* pipe.  The broker ends it by closing that pipe, then by signals; when it  *)
(* has ended the broker runs `leases.py reap-worker'.  The owner, and a      *)
(* forced close of the broker, run `leases.py release'.                      *)
(*                                                                         *)
(* The plugin is external to src/src and is read from ghostinput.cpp: it     *)
(* serves requests in the order they were written, whether or not whoever    *)
(* wrote them still waits, and hands back the lease of a dead owner.         *)
(***************************************************************************)
EXTENDS Integers, Sequences, FiniteSets

CONSTANTS Workers,      \* one process, one lease identity each
          Owner,        \* the process of `leases.py release'
          None,
          Cases         \* what a behaviour may do: see Init

\* What the broker asks of a worker, and what a behaviour may do.
Executes == {"claim", "act", "resume"}          \* admitted by ActionControl.execute
Cleanups == {"pause", "handback", "close"}      \* by ActionControl.cleanup
Ops      == Executes \cup Cleanups
Budgets  == [mode : {"protected", "full"}, todo : [Workers -> SUBSET Ops], kills : Nat,
             losses : Nat, approvals : Nat, repairs : Nat, typing : Nat, ends : BOOLEAN]

ASSUME NativeLeaseAssumption ==
    /\ Owner \notin Workers /\ None \notin Workers \cup {Owner} /\ None \notin Ops
    /\ \A op \in Ops, x \in Workers \cup {None} : None # <<op, x>>
    /\ \A c \in Cases : c \in Budgets

VARIABLES worker,       \* the worker processes
          broker,       \* NativeWorker and its backend, per worker
          record,       \* the workers whose directory holds handoff.json
          plugin,       \* the compositor's lease of the client
          wire,         \* requests the compositor has not served yet
          answer,       \* what the last exchange of a process came to
          control,      \* settings.json, the lock of the journal
          tool,         \* the process of `leases.py release'
          left          \* what the behaviour may still do, and what it did

vars == <<worker, broker, record, plugin, wire, answer, control, tool, left>>

Senders  == Workers \cup {Owner}
Answers  == {"none", "ok", "refused", "unavailable", "owner", "held", "lost"}

----------------------------------------------------------------------------
(* Exchanges with the compositor *)

\* NativeTransport._exchange: p writes one request and waits for its answer.
Sends(p, cmd, x) ==
    /\ wire' = Append(wire, [from |-> p, cmd |-> cmd, lease |-> x, heard |-> TRUE])
    /\ answer' = [answer EXCEPT ![p] = "none"]
Silent == UNCHANGED <<wire, answer>>
Forgets(p) == answer' = [answer EXCEPT ![p] = "none"] /\ UNCHANGED wire

Waits(p) == \E i \in DOMAIN wire : wire[i].from = p /\ wire[i].heard
Abandoned(p) == [i \in DOMAIN wire |->
                    IF wire[i].from = p THEN [wire[i] EXCEPT !.heard = FALSE] ELSE wire[i]]

\* What the plugin answers to a request about lease x, and the state it leaves.
Served(cmd, x) ==
    LET held == plugin.holder = x IN
    CASE cmd = "claim" ->
           IF plugin.holder = None /\ x \notin plugin.retired /\ plugin.client
           THEN <<"ok", [plugin EXCEPT !.holder = x, !.paused = FALSE,
                                       !.retired = @ \cup {x}]>>
           ELSE <<"refused", plugin>>
      [] cmd = "info" -> <<IF held THEN "held" ELSE "unavailable", plugin>>
      [] cmd = "input" ->
           CASE ~held \/ plugin.paused -> <<"refused", plugin>>
             [] held /\ ~plugin.paused /\ plugin.typing -> <<"owner", plugin>>
             [] OTHER -> <<"ok", plugin>>
      [] cmd \in {"pause", "resume"} ->
           IF held THEN <<"ok", [plugin EXCEPT !.paused = (cmd = "pause")]>>
                   ELSE <<"unavailable", plugin>>
      [] cmd = "handback" ->
           CASE held -> <<"ok", [plugin EXCEPT !.holder = None, !.paused = FALSE]>>
             [] ~held /\ x \in plugin.retired -> <<"ok", plugin>>
             [] OTHER -> <<"unavailable", plugin>>
      [] cmd = "reap" -> <<IF held THEN "refused" ELSE "ok", plugin>>

PluginServes ==
    /\ wire # <<>>
    /\ LET q == Head(wire)  s == Served(q.cmd, q.lease) IN
        /\ plugin' = s[2]
        /\ wire' = Tail(wire)
        /\ answer' = IF q.heard THEN [answer EXCEPT ![q.from] = s[1]] ELSE answer
        /\ left' = IF q.cmd = "input" /\ s[1] = "ok"
                   THEN [left EXCEPT !.hits[q.lease] = @ + 1] ELSE left
    /\ UNCHANGED <<worker, broker, record, control, tool>>

\* The deadline of an exchange.  The compositor serves the request all the same.
ExchangeExpires(p) ==
    /\ left.losses > 0 /\ Waits(p)
    /\ wire' = Abandoned(p)
    /\ answer' = [answer EXCEPT ![p] = "lost"]
    /\ left' = [left EXCEPT !.losses = @ - 1]
    /\ UNCHANGED <<worker, broker, record, plugin, control, tool>>

\* leaseReapTimer: the lease of a process that is gone is handed back.
PluginReaps ==
    /\ plugin.holder # None /\ ~worker[plugin.holder].up
    /\ plugin' = [plugin EXCEPT !.holder = None, !.paused = FALSE]
    /\ UNCHANGED <<worker, broker, record, wire, answer, control, tool, left>>

\* The owner types or clicks in the client, and rests; the application ends.
OwnerTypes ==
    /\ plugin.client /\ (plugin.typing \/ left.typing > 0)
    /\ plugin' = [plugin EXCEPT !.typing = ~@]
    /\ left' = [left EXCEPT !.typing = IF plugin.typing THEN @ ELSE @ - 1]
    /\ UNCHANGED <<worker, broker, record, wire, answer, control, tool>>
ClientEnds ==
    /\ left.ends /\ plugin.client
    /\ plugin' = [plugin EXCEPT !.client = FALSE, !.holder = None, !.paused = FALSE]
    /\ UNCHANGED <<worker, broker, record, wire, answer, control, tool, left>>

----------------------------------------------------------------------------
(* The broker: NativeWorker and NativeBackend *)

\* NativeWorker.create: the process runs and reads its pipe.
Start(w) ==
    /\ broker[w].state = "off" /\ left.todo[w] # {}
    /\ broker' = [broker EXCEPT ![w].state = "open"]
    /\ worker' = [worker EXCEPT ![w].up = TRUE, ![w].step = "idle"]
    /\ UNCHANGED <<record, plugin, wire, answer, control, tool, left>>

\* One request at a time: the others wait on `tail', here in left.todo.
Fitting(op, told) ==
    CASE op = "claim" -> told = "none"
      [] op \in {"act", "pause"} -> told = "running"
      [] op = "resume" -> told = "paused"
      [] OTHER -> told \in {"running", "paused"}
Ask(w, op) ==
    /\ broker[w].state = "open" /\ broker[w].asks = None /\ Fitting(op, broker[w].told)
    /\ broker' = [broker EXCEPT ![w].asks = op, ![w].pipe = op,
                                ![w].told = IF op = "resume" THEN "running" ELSE @]
    /\ left' = [left EXCEPT !.todo[w] = @ \ {op}]
    /\ UNCHANGED <<worker, record, plugin, wire, answer, control, tool>>

\* abort: the deadline of a request; and close: a stop, a failed claim.
Closing(w) == [broker EXCEPT ![w].state = "closing", ![w].asks = None]
Stop(w) ==
    /\ broker[w].state = "open"
    /\ broker' = Closing(w)
    /\ UNCHANGED <<worker, record, plugin, wire, answer, control, tool, left>>

\* A process that is gone releases the lock; what it wrote is still on its way.
Dies(w) ==
    /\ worker' = [worker EXCEPT ![w].up = FALSE, ![w].step = "off", ![w].op = None]
    /\ control' = [control EXCEPT !.lock = IF @ = w THEN None ELSE @]
    /\ wire' = Abandoned(w)
    /\ answer' = [answer EXCEPT ![w] = "none"]
\* SIGTERM and SIGKILL of a close that takes too long; a crash.
Signals(w) ==
    /\ worker[w].up /\ broker[w].state = "closing"
    /\ Dies(w)
    /\ UNCHANGED <<broker, record, plugin, tool, left>>
Crashes(w) ==
    /\ worker[w].up /\ left.kills > 0
    /\ Dies(w)
    /\ left' = [left EXCEPT !.kills = @ - 1]
    /\ UNCHANGED <<broker, record, plugin, tool>>

\* The child's close event: what waits is rejected, and the backend is closed.
Exited(w) ==
    /\ broker[w].state \in {"open", "closing"} /\ ~worker[w].up
    /\ broker' = [broker EXCEPT ![w].state = "ended", ![w].asks = None, ![w].pipe = None]
    /\ UNCHANGED <<worker, record, plugin, wire, answer, control, tool, left>>

\* command_mentions: some live process has this directory on its command line.
\* `reap-worker DIRECTORY' is such a process itself.
Mentions(w, self) == worker[w].up \/ self = w

\* reapWorkerLease, and reap_worker in the process it starts: with a record it
\* answers `worker is still running', and the branch that releases is not reached.
ReapWorker(w) ==
    /\ broker[w].state = "ended"
    /\ w \notin record \/ Mentions(w, w)
    /\ broker' = [broker EXCEPT ![w].state = "done"]
    /\ UNCHANGED <<worker, record, plugin, wire, answer, control, tool, left>>

----------------------------------------------------------------------------
(* The worker: ExistingApplicationSession, run by session_worker.main *)

\* What an admitted operation sends first: an action looks its target up before.
First(op) == IF op = "act" THEN "info" ELSE op
Then(op)  == IF op = "act" THEN "info" ELSE "asks"

\* The request an approval names: two claims of one window read the same.
Request(w, op) == IF op = "claim" THEN <<op, None>> ELSE <<op, w>>

Rests(w) == [worker EXCEPT ![w].step = "idle", ![w].op = None, ![w].fate = "ok"]

\* What the broker makes of an answer it still waits for.  A failed claim, and
\* SESSION_CLOSED (the lease is gone), close the backend.
Told(w, res) ==
    IF broker[w].asks # worker[w].op THEN broker
    ELSE IF res = "ok"
    THEN [broker EXCEPT ![w].asks = None,
              ![w].told = CASE worker[w].op = "claim" -> "running"
                            [] worker[w].op = "pause" -> "paused" [] OTHER -> @]
    ELSE IF res = "ended" \/ worker[w].op = "claim" THEN Closing(w)
    ELSE [broker EXCEPT ![w].asks = None]

Answered(w, res) == broker' = Told(w, res) /\ worker' = Rests(w)

\* The main loop reads a request, or the end of its input.
Reads(w) ==
    /\ worker[w].step = "idle"
    /\ LET eof == broker[w].pipe = None  op == IF eof THEN "close" ELSE broker[w].pipe IN
        /\ eof => broker[w].state = "closing"
        /\ broker' = [broker EXCEPT ![w].pipe = None]
        /\ record' = IF op = "claim" THEN record \cup {w} ELSE record
        /\ worker' = [worker EXCEPT ![w].op = op,
                          ![w].holds = @ \/ op = "claim",
                          ![w].step = IF op \in {"pause", "resume"} THEN "info" ELSE "begin"]
        /\ IF op \in {"pause", "resume"} THEN Sends(w, "info", w) ELSE Silent
    /\ UNCHANGED <<plugin, control, tool, left>>

\* ActionControl.execute, its first part: under the lock, the settings are read
\* and the intent is written; an approval that admits it is taken afterwards.
Begins(w) ==
    /\ worker[w].step = "begin" /\ worker[w].op \in Executes /\ control.lock = None
    /\ LET op == worker[w].op IN
       CASE control.mode = "full" ->
              /\ Sends(w, First(op), w)
              /\ worker' = [worker EXCEPT ![w].step = Then(op)]
              /\ UNCHANGED <<broker, control>>
         [] control.mode = "protected" /\ control.approval = Request(w, op) ->
              /\ control' = [control EXCEPT !.lock = w]
              /\ worker' = [worker EXCEPT ![w].step = "spend"]
              /\ Silent /\ UNCHANGED broker
         [] OTHER -> Answered(w, "refused") /\ Silent /\ UNCHANGED control
    /\ UNCHANGED <<record, plugin, tool, left>>
Spends(w) ==
    /\ worker[w].step = "spend"
    /\ control' = [control EXCEPT !.approval = None, !.lock = None]
    /\ left' = [left EXCEPT !.spent = @ + 1]
    /\ worker' = [worker EXCEPT ![w].step = Then(worker[w].op)]
    /\ Sends(w, First(worker[w].op), w)
    /\ UNCHANGED <<broker, record, plugin, tool>>

\* ActionControl.cleanup: a journal that stays locked is an error it reports
\* at the end, never a reason not to clean up.
CleansUp(w) ==
    /\ worker[w].step = "begin" /\ worker[w].op \in Cleanups
    /\ \E noted \in BOOLEAN :
        /\ noted <=> control.lock = None
        /\ worker' = [worker EXCEPT ![w].fate = IF ~noted /\ worker[w].holds THEN "refused" ELSE @,
                          ![w].step = IF worker[w].op = "pause" THEN "asks"
                                      ELSE IF worker[w].holds THEN "info" ELSE "finish"]
    /\ CASE worker[w].op = "pause" -> Sends(w, "pause", w)
         [] worker[w].op # "pause" /\ worker[w].holds -> Sends(w, "info", w)
         [] OTHER -> Silent
    /\ UNCHANGED <<broker, record, plugin, control, tool, left>>

Goes(w, step) == worker' = [worker EXCEPT ![w].step = step]
Fails(w)      == worker' = [worker EXCEPT ![w].step = "finish", ![w].fate = "refused"]
Ended(w)      == worker' = [worker EXCEPT ![w].step = "finish",
                               ![w].fate = IF @ = "refused" THEN @ ELSE "ended"]

\* _info, before a pause, a resume, a handback or an input, and after a claim.
HearsInfo(w) ==
    /\ worker[w].step = "info" /\ answer[w] # "none"
    /\ LET op == worker[w].op  a == answer[w] IN
       CASE op \in {"pause", "resume"} ->
              /\ IF a = "held" THEN Goes(w, "begin") /\ UNCHANGED broker
                 ELSE Answered(w, IF a = "unavailable" THEN "ended" ELSE "refused")
              /\ Forgets(w)
         [] op \in {"handback", "close"} /\ a # "lost" ->
              LET cmd == IF a = "held" THEN "handback" ELSE "reap" IN
              Sends(w, cmd, w) /\ Goes(w, cmd) /\ UNCHANGED broker
         [] op = "act" /\ a = "held" -> Sends(w, "input", w) /\ Goes(w, "asks") /\ UNCHANGED broker
         [] op \in {"act", "claim"} /\ a = "unavailable" -> Ended(w) /\ Forgets(w) /\ UNCHANGED broker
         [] op = "claim" /\ a = "held" -> Goes(w, "finish") /\ Forgets(w) /\ UNCHANGED broker
         [] OTHER -> Fails(w) /\ Forgets(w) /\ UNCHANGED broker
    /\ UNCHANGED <<record, plugin, control, tool, left>>
\* Mutant: input whose answer never came is sent again.
HearsAskedAgain(w) ==
    /\ worker[w].step = "asks" /\ answer[w] # "none"
    /\ LET op == worker[w].op  a == answer[w] IN
        \/ op = "claim" /\ a = "ok" /\ Sends(w, "info", w) /\ Goes(w, "info")
        \/ op = "act" /\ a \in {"owner", "lost"} /\ Sends(w, "input", w) /\ Goes(w, "asks")
        \/ op # "claim" /\ a = "ok" /\ Goes(w, "finish") /\ Forgets(w)
        \/ op \in {"pause", "resume"} /\ a = "unavailable" /\ Ended(w) /\ Forgets(w)
        \/ a # "ok" /\ ~(op \in {"pause", "resume"} /\ a = "unavailable") /\ Fails(w) /\ Forgets(w)
    /\ UNCHANGED <<broker, record, plugin, control, tool, left>>

\* The answer to the command itself.  Input refused because the owner works in
\* the client was not delivered: it is sent again, or given up after a while.
HearsAsked(w) ==
    /\ worker[w].step = "asks" /\ answer[w] # "none"
    /\ LET op == worker[w].op  a == answer[w] IN
        \/ op = "claim" /\ a = "ok" /\ Sends(w, "info", w) /\ Goes(w, "info")
        \/ op = "act" /\ a = "owner" /\ Sends(w, "input", w) /\ Goes(w, "asks")
        \/ op # "claim" /\ a = "ok" /\ Goes(w, "finish") /\ Forgets(w)
        \/ op \in {"pause", "resume"} /\ a = "unavailable" /\ Ended(w) /\ Forgets(w)
        \/ a # "ok" /\ ~(op \in {"pause", "resume"} /\ a = "unavailable") /\ Fails(w) /\ Forgets(w)
    /\ UNCHANGED <<broker, record, plugin, control, tool, left>>

\* close's handback, and then its reap of the retired identity.
HearsHandback(w) ==
    /\ worker[w].step \in {"handback", "reap"} /\ answer[w] # "none"
    /\ CASE worker[w].step = "handback" /\ answer[w] = "ok" ->
              Sends(w, "reap", w) /\ Goes(w, "reap")
         [] worker[w].step = "reap" /\ answer[w] = "ok" -> Goes(w, "finish") /\ Forgets(w)
         [] OTHER -> Fails(w) /\ Forgets(w)
    /\ UNCHANGED <<broker, record, plugin, control, tool, left>>

\* The outcome is written: by execute when the lock is free, by cleanup or not
\* at all.  Then the request is answered.  A pause that went through is still
\* an error when the accessibility helper could not be ended.
Finishes(w) ==
    /\ worker[w].step = "finish" /\ worker[w].op \in Executes \cup {"pause"}
    /\ worker[w].op \in Executes => control.lock = None
    /\ \E helper \in BOOLEAN :
        /\ helper => worker[w].op = "pause"
        /\ Answered(w, IF helper \/ (worker[w].op = "pause" /\ control.lock # None)
                       THEN "refused" ELSE worker[w].fate)
    /\ Silent /\ UNCHANGED <<record, plugin, control, tool, left>>

\* close: only a cleanup without an error drops the record and the lease.  The
\* process exits after it, or keeps reading when a handback failed.
Closes(w) ==
    /\ worker[w].step = "finish" /\ worker[w].op \in {"handback", "close"}
    /\ LET good == worker[w].fate = "ok" /\ (control.lock = None \/ ~worker[w].holds) IN
        /\ record' = IF good /\ worker[w].holds THEN record \ {w} ELSE record
        /\ IF good \/ worker[w].op = "close"
           THEN /\ worker' = [worker EXCEPT ![w].up = FALSE, ![w].step = "off", ![w].op = None,
                                            ![w].holds = @ /\ ~good]
                /\ broker' = Told(w, "ok")
           ELSE Answered(w, "refused")
    /\ Silent /\ UNCHANGED <<plugin, control, tool, left>>

----------------------------------------------------------------------------
(* The owner: settings, and `leases.py release' *)

\* ActionControl.configure with an approval of one exact request.
Approves(w, op) ==
    /\ control.mode = "protected" /\ control.lock = None /\ left.approvals > 0
    /\ control' = [control EXCEPT !.approval = Request(w, op)]
    /\ left' = [left EXCEPT !.approvals = @ - 1, !.given = @ + 1]
    /\ UNCHANGED <<worker, broker, record, plugin, wire, answer, tool>>

\* The broker's sessions that are not closed are read first: a session that was
\* forced closed is not among them, though its worker may still run.  Then the
\* worker directories are read; a process in doubt counts as alive.
Looks(x) ==
    /\ tool.step = "idle" /\ left.repairs > 0
    /\ \E forced, doubt \in BOOLEAN :
        tool' = [step |-> "info", lease |-> x, noted |-> TRUE,
                 live |-> {y \in Workers : broker[y].state = "open"
                                              \/ (broker[y].state = "closing" /\ ~forced)},
                 alive |-> IF x \in record THEN worker[x].up \/ doubt
                           ELSE worker[x].up]
    /\ Sends(Owner, "info", x)
    /\ left' = [left EXCEPT !.repairs = @ - 1]
    /\ UNCHANGED <<worker, broker, record, plugin, control>>
\* Mutant: that the session is not among the live ones is enough.
ReleasableUnseen == answer[Owner] = "held" /\ tool.lease \notin tool.live

\* records: only the lease of a dead worker that no session holds is released.
Releasable == answer[Owner] = "held" /\ ~tool.alive /\ tool.lease \notin tool.live

Releases ==
    /\ tool.step = "info" /\ answer[Owner] # "none"
    /\ IF Releasable
       THEN /\ Sends(Owner, "handback", tool.lease)
            /\ tool' = [tool EXCEPT !.step = "handback", !.noted = (control.lock = None)]
       ELSE tool' = [tool EXCEPT !.step = "idle"] /\ Forgets(Owner)
    /\ UNCHANGED <<worker, broker, record, plugin, control, left>>

\* release_unchecked: handback, then reap; the record goes when both succeeded.
Released ==
    /\ tool.step \in {"handback", "reap"} /\ answer[Owner] # "none"
    /\ LET good == answer[Owner] = "ok"  last == tool.step = "reap" \/ ~good IN
        /\ IF last THEN Forgets(Owner) ELSE Sends(Owner, "reap", tool.lease)
        /\ tool' = [tool EXCEPT !.step = IF last THEN "idle" ELSE "reap"]
        /\ record' = IF good /\ last /\ tool.noted /\ control.lock = None
                     THEN record \ {tool.lease} ELSE record
    /\ UNCHANGED <<worker, broker, plugin, control, left>>

----------------------------------------------------------------------------
Idle == [up |-> FALSE, step |-> "off", op |-> None, holds |-> FALSE, fate |-> "ok"]

Init == \E c \in Cases :
    /\ worker = [w \in Workers |-> Idle]
    /\ broker = [w \in Workers |-> [state |-> "off", asks |-> None, pipe |-> None, told |-> "none"]]
    /\ record = {}
    /\ plugin = [holder |-> None, paused |-> FALSE, typing |-> FALSE, client |-> TRUE, retired |-> {}]
    /\ wire = <<>>
    /\ answer = [p \in Senders |-> "none"]
    /\ control = [mode |-> c.mode, approval |-> None, lock |-> None]
    /\ tool = [step |-> "idle", lease |-> None, live |-> {}, alive |-> FALSE, noted |-> TRUE]
    /\ left = [todo |-> c.todo, kills |-> c.kills, losses |-> c.losses, approvals |-> c.approvals,
               repairs |-> c.repairs, typing |-> c.typing, ends |-> c.ends,
               given |-> 0, spent |-> 0, hits |-> [w \in Workers |-> 0]]

Next ==
    \/ \E w \in Workers :
        \/ Start(w) \/ Stop(w) \/ Signals(w) \/ Crashes(w) \/ Exited(w) \/ ReapWorker(w)
        \/ Reads(w) \/ Begins(w) \/ Spends(w) \/ CleansUp(w) \/ HearsInfo(w)
        \/ HearsAsked(w) \/ HearsHandback(w) \/ Finishes(w) \/ Closes(w) \/ Looks(w)
        \/ \E op \in left.todo[w] : Ask(w, op)
        \/ \E op \in left.todo[w] : Approves(w, op)
    \/ \E p \in Senders : ExchangeExpires(p)
    \/ PluginServes \/ PluginReaps \/ OwnerTypes \/ ClientEnds \/ Releases \/ Released

\* The processes run, the timers of the broker and of the plugin expire.
Fairness ==
    /\ WF_vars(PluginServes) /\ WF_vars(PluginReaps)
    /\ \A w \in Workers : WF_vars(Signals(w)) /\ WF_vars(Exited(w)) /\ WF_vars(ReapWorker(w))

Spec == Init /\ [][Next]_vars /\ Fairness

----------------------------------------------------------------------------
NativeTypeOK ==
    /\ worker \in [Workers -> [up : BOOLEAN, holds : BOOLEAN, fate : {"ok", "refused", "ended"}, op : Ops \cup {None},
          step : {"off", "idle", "begin", "spend", "info", "asks", "handback", "reap", "finish"}]]
    /\ \A w \in Workers : worker[w].up <=> worker[w].step # "off"
    /\ broker \in [Workers -> [state : {"off", "open", "closing", "ended", "done"},
          asks : Ops \cup {None}, pipe : Ops \cup {None}, told : {"none", "running", "paused"}]]
    /\ record \subseteq Workers
    /\ plugin \in [holder : Workers \cup {None}, paused : BOOLEAN, typing : BOOLEAN,
                    client : BOOLEAN, retired : SUBSET Workers]
    /\ answer \in [Senders -> Answers]
    /\ control.lock \in Workers \cup {None}

\* Whoever holds the client has its record on disk, written before the claim and
\* dropped after the handback, whatever died or answered late in between.
HolderRecorded == plugin.holder # None => plugin.holder \in record
\* The broker that heard of a pause holds a paused lease.
PausedIsPaused == \A w \in Workers :
    broker[w].told = "paused" /\ plugin.holder = w => plugin.paused
\* An input that was asked once reaches the client at most once, however often it
\* is sent while the owner works there.
InputOnce == \A w \in Workers : left.hits[w] <= 1
\* Protected mode: every admitted action took an approval of its own, with two
\* workers and the owner at one settings file and a crash between two writes.
ApprovalsCover == left.spent <= left.given

\* A lease can always be found, and what reaches the client was asked for once and,
\* in protected mode, approved once (existing.py, control.py, transport.py).
LeaseSound == NativeTypeOK /\ HolderRecorded /\ PausedIsPaused /\ InputOnce /\ ApprovalsCover

\* The lease of a process that runs is ended by that process, or by the end of
\* the application; by no repair, by no timer and by no other session.
NotStolen == [][
    \A w \in Workers :
        plugin.holder = w /\ plugin'.holder # w /\ worker[w].up =>
            \/ ~plugin'.client
            \/ wire # <<>> /\ Head(wire).from = w /\ Head(wire).cmd = "handback"]_vars

\* A backend that closes comes to an end with the client handed back: through
\* its worker, or through signals and the timer of the plugin.
ClosesHandBack == \A w \in Workers :
    broker[w].state = "closing" ~> broker[w].state = "done" /\ plugin.holder # w

\* A lease ends by the doing of its own session while that runs, and it does end
\* when the session is closed.
LeaseEndsRight == NotStolen /\ ClosesHandBack
=============================================================================
