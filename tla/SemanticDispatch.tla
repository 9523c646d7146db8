--------------------------- MODULE SemanticDispatch ---------------------------
(***************************************************************************)
(* An action on a reference (native/semantic_actions.py, a11y_snapshots.py,  *)
(* a11y_host.py, a11y_host_worker.py): an observation publishes references   *)
(* to the widgets of a window; `prepare' resolves one through the warm       *)
(* accessibility helper and lets the compositor plugin open a connection;    *)
(* `send' resolves it again and only then lets the plugin write the call.    *)
(* The worker does one thing at a time, but the application, the helper and  *)
(* the plugin go on by themselves, and every answer may come late or never.  *)
(*                                                                         *)
(* One widget of one window stands for what is referenced: `inc' is its      *)
(* lifetime at its path, `owner' the connection that provides it.  The       *)
(* plugin is external to src/src and read from ghostinput.cpp.               *)
(***************************************************************************)
EXTENDS Integers, Sequences, FiniteSets, SequencesExt

CONSTANTS Tokens,       \* one preparation each
          Refs,         \* the references that may be published
          Null,
          MaxLive,      \* 8 in the code: preparations that are not consumed
          SemanticCases \* what a behaviour may do: see SemanticInit


VARIABLES app,          \* the application and its window
          helper,       \* the helper process: its snapshots and its request
          parent,       \* A11yHost: the parent's end of the helper
          entries,      \* SemanticActions.entries
          worker,       \* what the worker is doing
          plugin,       \* the plugin's operation of a token
          wire,         \* requests the compositor has not served yet
          told,         \* what the broker was told of a token
          story         \* what the behaviour may still do, and what happened

semanticVars == <<app, helper, parent, entries, worker, plugin, wire, told, story>>

Kinds == {"invoke", "click"}                \* an interface of the widget, or a pointer
Ops   == {"observe", "prepare", "send", "pause"}

\* What the helper keeps of a widget, and a request that it works on.
Snap == [inc : Nat, owner : Nat, title : 0 .. 1, fresh : BOOLEAN]
Job  == [ref : Refs \cup {Null}, phase : {"asked", "found", "done"},
         reply : {"ok", "unavailable", "ref-error", Null}, title : 0 .. 1, owner : Nat, inc : Nat]
Replies == {"preparing", "ready", "sent", "delivered", "not-delivered", "unknown", "refused", "ok", "lost"}

ASSUME SemanticAssumption ==
    /\ MaxLive \in Nat /\ IsFiniteSet(Tokens)
    /\ Null \notin Tokens \cup Refs \cup Nat \cup Snap \cup Job \cup Replies \cup {"out", "back"}
    /\ SemanticCases \subseteq [acts : Nat, losses : Nat, expiries : Nat, deaths : Nat, stuck : Nat,
                               observes : Nat, sends : Nat, pauses : Nat, kind : [Tokens -> Kinds]]

----------------------------------------------------------------------------
(* The application *)

Emits(a) == [a EXCEPT !.news = IF @ < 2 THEN @ + 1 ELSE @]

\* A property or a child changes; the widget makes room for another one at the
\* same path; its provider connects anew; the window moves, changes its title
\* or closes.
AppActs ==
    /\ story.acts > 0
    /\ app' \in {Emits(app), Emits([app EXCEPT !.inc = @ + 1]),
                 Emits([app EXCEPT !.inc = @ + 1, !.owner = @ + 1]),
                 [app EXCEPT !.place = 1 - @], [app EXCEPT !.title = 1 - @],
                 [app EXCEPT !.open = FALSE]}
    /\ story' = [story EXCEPT !.acts = @ - 1]
    /\ UNCHANGED <<helper, parent, entries, worker, plugin, wire, told>>

----------------------------------------------------------------------------
(* The helper: ReadOnlyProvider and its SnapshotStore *)

NoSnaps == [r \in Refs |-> Null]

\* pump: the events that have arrived, at most sixteen of them, the rest later.
\* Any of them ends the epoch, and with it every snapshot.
Pumped(h, n) ==
    IF n = 0 THEN h
    ELSE [h EXCEPT !.changed = TRUE,
                   !.snaps = [r \in Refs |-> IF @[r] = Null THEN Null
                                             ELSE [@[r] EXCEPT !.fresh = FALSE]]]

\* Mutant: what is at the provider's path is taken for the widget.
ResolvablePath(s) == s.title = app.title /\ s.owner = app.owner /\ s.fresh
\* SnapshotStore.resolve: binding, identity, epoch and the proof of a lifetime.
Resolvable(s) == s.title = app.title /\ s.owner = app.owner /\ s.fresh /\ s.inc = app.inc

\* observe, its first part: what has happened so far is forgotten, and the
\* widget is found by its reference, or by the walk.  A snapshot of another title
\* is kept (FOREIGN_REF); one that fails in any other way is dropped.
Looked(h) ==
    LET r == h.job.ref IN
    IF r = Null \/ (h.snaps[r] # Null /\ Resolvable(h.snaps[r]))
    THEN [h EXCEPT !.job.phase = "found", !.job.title = app.title,
                   !.job.owner = app.owner, !.job.inc = app.inc]
    ELSE [h EXCEPT !.job.phase = "done", !.job.reply = "ref-error",
                   !.snaps[r] = IF @ # Null /\ @.title # app.title THEN @ ELSE Null]

HelperLooks ==
    /\ helper.up /\ helper.job # Null /\ helper.job.phase = "asked"
    /\ \E n \in 0 .. app.news :
        /\ app' = [app EXCEPT !.news = @ - n]
        /\ helper' = Looked([Pumped(helper, n) EXCEPT !.changed = FALSE])
    /\ UNCHANGED <<parent, entries, worker, plugin, wire, told, story>>

\* Its last part.  After an event, or without its snapshot, it has no answer;
\* otherwise a walk publishes what it found.
HelperEnds ==
    /\ helper.up /\ helper.job # Null /\ helper.job.phase = "found"
    /\ \E n \in 0 .. app.news :
        LET h == Pumped(helper, n)  j == h.job  walk == j.ref = Null
            sound == ~h.changed /\ (~walk => h.snaps[j.ref] # Null)
            free == {r \in Refs : ~story.published[r]}
            new == CHOOSE r \in free : TRUE IN
        /\ app' = [app EXCEPT !.news = @ - n]
        /\ helper' = [h EXCEPT
              !.job = [j EXCEPT !.phase = "done",
                                !.reply = IF sound THEN "ok" ELSE IF walk THEN "unavailable" ELSE "ref-error",
                                !.ref = IF sound /\ walk THEN new ELSE @],
              !.snaps = IF sound /\ walk
                        THEN [@ EXCEPT ![new] = [inc |-> j.inc, owner |-> j.owner,
                                                 title |-> j.title, fresh |-> TRUE]]
                        ELSE @]
        /\ story' = IF sound /\ walk THEN [story EXCEPT !.published[new] = TRUE] ELSE story
    /\ UNCHANGED <<parent, entries, worker, plugin, wire, told>>

\* A snapshot is thirty seconds old, or the newest of five evicts it.
SnapshotExpires(r) ==
    /\ story.expiries > 0 /\ helper.snaps[r] # Null
    /\ helper' = [helper EXCEPT !.snaps[r] = Null]
    /\ story' = [story EXCEPT !.expiries = @ - 1]
    /\ UNCHANGED <<app, parent, entries, worker, plugin, wire, told>>

\* An idle helper leaves after a minute; a busy one may crash.
HelperDies ==
    /\ story.deaths > 0 /\ helper.up
    /\ helper' = [helper EXCEPT !.up = FALSE]
    /\ story' = [story EXCEPT !.deaths = @ - 1, !.running = @ \ {parent.child}]
    /\ UNCHANGED <<app, parent, entries, worker, plugin, wire, told>>

----------------------------------------------------------------------------
(* A11yHost *)

\* _start: the warm helper, unless its process is gone; else a new one, unless
\* one is still to be reaped or the host is closed.
Warm == parent.sock /\ ~parent.closed /\ helper.up
\* Mutant: a process that could not be reaped is forgotten.
StartableAnyway == ~parent.sock /\ ~parent.closed
Startable == ~parent.sock /\ ~parent.closed /\ parent.child = Null

Request(r) == [ref |-> r, phase |-> "asked", reply |-> Null, title |-> 0, owner |-> 0, inc |-> 0]
Gone == [up |-> FALSE, changed |-> FALSE, snaps |-> NoSnaps, job |-> Null]

Observes(r) ==
    \/ /\ Warm
       /\ helper' = [helper EXCEPT !.job = Request(r)]
       /\ UNCHANGED <<parent, story>>
    \/ /\ Startable
       /\ helper' = [Gone EXCEPT !.up = TRUE, !.job = Request(r)]
       /\ parent' = [parent EXCEPT !.sock = TRUE, !.child = parent.next, !.next = @ + 1]
       /\ story' = [story EXCEPT !.running = @ \cup {parent.next}]

\* _destroy: no socket from now on; the process is reaped, or stays owned when
\* the kernel does not let it go.  _retire_a11y_host also closes the host, and
\* drops it once its process is reaped.
Destroys(retire) == \E reaped \in BOOLEAN :
    /\ ~reaped => helper.up /\ story.stuck > 0
    /\ helper' = Gone
    /\ parent' = [parent EXCEPT !.sock = FALSE, !.child = IF reaped THEN Null ELSE @,
                            !.closed = IF retire THEN ~reaped ELSE @]
    /\ story' = [story EXCEPT !.running = IF reaped THEN @ \ {parent.child} ELSE @,
                            !.stuck = IF reaped THEN @ ELSE @ - 1,
                            !.retired = retire /\ reaped]

----------------------------------------------------------------------------
(* The plugin: semantic_wire::Dispatcher, served in the order of requests *)

\* Operation::receipt, as far as the worker reads it.
Receipt(o) == IF o.stage = "done" THEN o.delivery ELSE o.stage
Settled(o, d) == [o EXCEPT !.stage = "done", !.delivery = d]
Undone(o) == Settled(o, IF o.stage = "sent" THEN "unknown" ELSE "not-delivered")

\* What a request may come to: the operation afterwards, and the answer.
Served(cmd, o, provider) ==
    CASE o.stage = "none" /\ cmd = "prepare" /\ app.open ->
           {<<[o EXCEPT !.stage = "preparing", !.owner = provider], "preparing">>}
      [] o.stage = "ready" /\ cmd = "send" ->
           IF app.open THEN {<<[o EXCEPT !.stage = "sent", !.mail = "out"], "sent">>,
                             <<Settled(o, "not-delivered"), "not-delivered">>}
                       ELSE {<<Settled(o, "not-delivered"), "not-delivered">>}
      [] o.stage = "preparing" /\ cmd = "send" -> {<<Settled(o, "not-delivered"), "not-delivered">>}
      [] o.stage \in {"preparing", "ready", "sent"} /\ cmd = "cancel" ->
           {<<Undone(o), Receipt(Undone(o))>>}
      [] \/ o.stage # "none" /\ cmd \in {"prepare", "status"}
         \/ o.stage = "sent" /\ cmd = "send"
         \/ o.stage = "done" ->
           {<<o, Receipt(o)>>}
      [] OTHER -> {<<o, "refused">>}

\* A pointer event is delivered at once, or refused.
PluginServes ==
    /\ wire # <<>>
    /\ LET q == Head(wire)  t == q.tok  click == q.cmd = "click" IN
        \E s \in Served(q.cmd, plugin[t], entries[t].owner) :
            LET reply == IF click THEN (IF app.open THEN "ok" ELSE "refused") ELSE s[2] IN
            /\ plugin' = IF click THEN plugin ELSE [plugin EXCEPT ![t] = s[1]]
            /\ worker' = IF q.heard THEN [worker EXCEPT !.answer = reply] ELSE worker
            /\ story' = IF click /\ app.open THEN [story EXCEPT !.effects[t] = @ + 1] ELSE story
    /\ wire' = Tail(wire)
    /\ UNCHANGED <<app, helper, parent, entries, told>>

\* tick: the bus knows the provider and the object is not defunct, or not.
PluginPrepares(t) ==
    /\ plugin[t].stage = "preparing"
    /\ plugin' = [plugin EXCEPT ![t] = IF app.owner = @.owner THEN [@ EXCEPT !.stage = "ready"]
                                       ELSE Settled(@, "not-delivered")]
    /\ UNCHANGED <<app, helper, parent, entries, worker, wire, told, story>>
\* The deadline of the operation, or its connection breaks.
PluginExpires(t) ==
    /\ story.losses > 0 /\ plugin[t].stage \in {"preparing", "ready", "sent"}
    /\ plugin' = [plugin EXCEPT ![t] = Undone(@)]
    /\ story' = [story EXCEPT !.losses = @ - 1]
    /\ UNCHANGED <<app, helper, parent, entries, worker, wire, told>>

\* The call is executed by what is at the path now, and its reply comes back.
AppPerforms(t) ==
    /\ plugin[t].mail = "out"
    /\ plugin' = [plugin EXCEPT ![t].mail = "back"]
    /\ story' = IF app.owner = plugin[t].owner THEN [story EXCEPT !.effects[t] = @ + 1] ELSE story
    /\ UNCHANGED <<app, helper, parent, entries, worker, wire, told>>
PluginHears(t) ==
    /\ plugin[t].mail = "back"
    /\ plugin' = [plugin EXCEPT ![t] = [IF @.stage # "sent" THEN @
                       ELSE Settled(@, IF story.effects[t] > 0 THEN "delivered" ELSE "unknown")
                     EXCEPT !.mail = Null]]
    /\ UNCHANGED <<app, helper, parent, entries, worker, wire, told, story>>

----------------------------------------------------------------------------
(* The worker: SemanticActions and NativeSession._tree *)

Live(t) == entries[t].state = "live"
Click(t) == story.kind[t] = "click"
Moves(step) == worker' = [worker EXCEPT !.step = step, !.answer = Null]
Requests(cmd, t) == wire' = Append(wire, [cmd |-> cmd, tok |-> t, heard |-> TRUE])

\* An answer of which nothing depends: that of a cancel.
Unheard(cmd, T) == wire \o [i \in 1 .. Cardinality(T) |->
                     [cmd |-> cmd, tok |-> SetToSeq(T)[i], heard |-> FALSE]]

\* cancel, for some tokens: consumed first, and the plugin is told of its own.
Cancels(T) ==
    /\ entries' = [t \in Tokens |-> IF t \notin T THEN entries[t]
                     ELSE [entries[t] EXCEPT !.state = "consumed", !.result = "not-delivered"]]
    /\ wire' = Unheard("cancel", {t \in T : ~Click(t)})

Answers(t, a) ==
    /\ told' = [told EXCEPT ![t] = @ \cup {a}]
    /\ worker' = [worker EXCEPT !.step = "idle", !.answer = Null]
Idles == worker' = [worker EXCEPT !.step = "idle", !.answer = Null]

Begins(op, t, r) == worker' = [op |-> op, tok |-> t, ref |-> r, step |-> "target", round |-> 1,
                               title |-> 0, inc |-> 0, owner |-> 0, answer |-> Null]

\* Bound: there is a reference left to publish.
Observe ==
    /\ worker.step = "idle" /\ story.observes > 0 /\ \E r \in Refs : ~story.published[r]
    /\ Begins("observe", Null, Null)
    /\ story' = [story EXCEPT !.observes = @ - 1, !.retired = FALSE]
    /\ UNCHANGED <<app, helper, parent, entries, plugin, wire, told>>

\* prepare: expired preparations are cancelled first; then the limit.
Prepare(t, r) ==
    /\ worker.step = "idle" /\ entries[t].state = "none" /\ story.shown[r] # Null /\ told[t] = {}
    /\ LET expired == {u \in Tokens : Live(u) /\ entries[u].late}
           live == {u \in Tokens : Live(u)} \ expired IN
        /\ Cancels(expired)
        /\ IF Cardinality(live) >= MaxLive
           THEN Answers(t, "not-delivered")
           ELSE Begins("prepare", t, r) /\ UNCHANGED told
    /\ story' = [story EXCEPT !.retired = FALSE]
    /\ UNCHANGED <<app, helper, parent, plugin>>

\* send: a token that is consumed repeats its result; consumed before anything else.
Send(t) ==
    /\ worker.step = "idle" /\ "prepared" \in told[t] /\ story.sends > 0
    /\ IF Live(t)
       THEN /\ entries' = [entries EXCEPT ![t].state = "consumed", ![t].result = "unknown"]
            /\ Begins("send", t, entries[t].ref)
            /\ UNCHANGED told
       ELSE Answers(t, entries[t].result) /\ UNCHANGED entries
    /\ story' = [story EXCEPT !.sends = @ - 1, !.retired = FALSE]
    /\ UNCHANGED <<app, helper, parent, plugin, wire>>

Cancel(t) ==
    /\ worker.step = "idle" /\ "prepared" \in told[t] /\ Live(t)
    /\ Cancels({t})
    /\ Answers(t, "cancelled")
    /\ UNCHANGED <<app, helper, parent, plugin, story>>

\* A pause: every token is cancelled, then the helper is retired.
Pause ==
    /\ worker.step = "idle" /\ story.pauses > 0
    /\ Cancels({t \in Tokens : Live(t)})
    /\ worker' = [worker EXCEPT !.op = "pause", !.step = "retire"]
    /\ story' = [story EXCEPT !.pauses = @ - 1]
    /\ UNCHANGED <<app, helper, parent, plugin, told>>
Retire ==
    /\ worker.step = "retire"
    /\ Destroys(TRUE) /\ Idles
    /\ UNCHANGED <<app, entries, plugin, wire, told>>

\* What a failed operation answers, and what it leaves of its token.  A failed
\* send also closes its operation in the plugin, and never sends again.
Fails(a) ==
    LET t == worker.tok IN
    CASE worker.op = "observe" -> Idles /\ UNCHANGED <<entries, wire, told>>
      [] worker.op = "prepare" /\ ~Live(t) -> Answers(t, "failed") /\ UNCHANGED <<entries, wire>>
      [] worker.op = "prepare" /\ Live(t) -> Cancels({t}) /\ Answers(t, "failed")
      [] OTHER -> /\ entries' = [entries EXCEPT ![t].result = a]
                  /\ wire' = Unheard("cancel", {t} \ {u \in {t} : Click(u)})
                  /\ Answers(t, a)

\* _target and _tree, up to the request of the helper.
Targets ==
    /\ worker.step = "target"
    /\ IF app.open /\ (Warm \/ Startable)
       THEN /\ Observes(worker.ref)
            /\ worker' = [worker EXCEPT !.step = "tree", !.title = app.title]
            /\ UNCHANGED <<entries, wire, told>>
       ELSE /\ IF app.open THEN Destroys(FALSE) ELSE UNCHANGED <<parent, helper, story>>
            /\ Fails(IF app.open THEN "not-delivered" ELSE "unknown")
    /\ UNCHANGED <<app, plugin>>

\* The answer of the helper is taken; or none came in time, or a wrong one.
HearsTree ==
    /\ worker.step = "tree" /\ helper.up /\ helper.job # Null /\ helper.job.phase = "done"
    /\ helper' = [helper EXCEPT !.job = Null]
    /\ LET j == helper.job IN
       IF j.reply = "ok"
       THEN /\ worker' = [worker EXCEPT !.step = "after", !.ref = j.ref, !.inc = j.inc, !.owner = j.owner]
            /\ UNCHANGED <<entries, wire, told>>
       ELSE Fails(IF j.reply = "ref-error" THEN "unknown" ELSE "not-delivered")
    /\ UNCHANGED <<app, parent, plugin, story>>
LosesTree ==
    /\ worker.step = "tree" /\ (story.losses > 0 \/ ~helper.up)
    /\ \E reaped \in BOOLEAN :
        /\ ~reaped => helper.up /\ story.stuck > 0
        /\ helper' = Gone
        /\ parent' = [parent EXCEPT !.sock = FALSE, !.child = IF reaped THEN Null ELSE @]
        /\ story' = [story EXCEPT !.running = IF reaped THEN @ \ {parent.child} ELSE @,
                                !.stuck = IF reaped THEN @ ELSE @ - 1,
                                !.losses = IF helper.up THEN @ - 1 ELSE @]
    /\ Fails("not-delivered")
    /\ UNCHANGED <<app, plugin>>

\* _tree, its second look at the window; and what the answer is for.
After ==
    /\ worker.step = "after"
    /\ LET t == worker.tok  same == app.open /\ app.title = worker.title IN
       CASE ~same -> Fails("not-delivered") /\ UNCHANGED story
         [] same /\ worker.op = "observe" ->
              /\ story' = [story EXCEPT !.shown[worker.ref] = worker.inc]
              /\ Idles /\ UNCHANGED <<entries, wire, told>>
         [] same /\ worker.op = "prepare" /\ Click(t) ->
              \* _reference_point resolves once more, then reads the place.
              /\ worker' = [worker EXCEPT !.step = IF worker.round = 1 THEN "target" ELSE "place",
                                          !.round = 2]
              /\ UNCHANGED <<entries, wire, told, story>>
         [] same /\ worker.op = "prepare" /\ ~Click(t) ->
              /\ entries' = [entries EXCEPT ![t] = [@ EXCEPT !.state = "live", !.ref = worker.ref,
                                                             !.owner = worker.owner]]
              /\ Requests("prepare", t) /\ Moves("prepares")
              /\ UNCHANGED <<told, story>>
         [] same /\ worker.op = "send" ->
              /\ story' = [story EXCEPT !.proved[t] = worker.inc]
              /\ IF worker.owner = entries[t].owner /\ ~entries[t].late
                 THEN Moves("dispatch") /\ UNCHANGED <<entries, wire, told>>
                 ELSE Fails("not-delivered")
    /\ UNCHANGED <<app, helper, parent, plugin>>

Places ==
    /\ worker.step = "place"
    /\ IF app.open
       THEN /\ entries' = [entries EXCEPT ![worker.tok] = [@ EXCEPT !.state = "live", !.ref = worker.ref,
                              !.owner = worker.owner, !.place = app.place]]
            /\ Answers(worker.tok, "prepared") /\ UNCHANGED wire
       ELSE Fails("unknown")
    /\ UNCHANGED <<app, helper, parent, plugin, story>>

\* prepare polls until the operation is ready, or its own deadline.
HearsPrepared ==
    /\ worker.step = "prepares" /\ worker.answer # Null
    /\ LET t == worker.tok  a == worker.answer IN
       CASE a = "ready" -> Answers(t, "prepared") /\ UNCHANGED <<entries, wire>>
         [] a = "preparing" /\ ~entries[t].late ->
              Requests("status", t) /\ Moves("prepares") /\ UNCHANGED <<entries, told>>
         [] OTHER -> Fails("not-delivered")
    /\ UNCHANGED <<app, helper, parent, plugin, story>>

\* dispatch, admitted by ActionControl: the window, the place and the deadline
\* once more, and the one request that may have an effect.
Dispatches ==
    /\ worker.step = "dispatch"
    /\ LET t == worker.tok  e == entries[t] IN
       CASE ~app.open -> Fails("unknown")
         [] app.open /\ Click(t) /\ (e.place # app.place \/ e.late) -> Fails("not-delivered")
         [] OTHER -> /\ Requests(IF Click(t) THEN "click" ELSE "send", t) /\ Moves("sends")
                     /\ UNCHANGED <<entries, told>>
    /\ UNCHANGED <<app, helper, parent, plugin, story>>
Unapproved ==
    /\ worker.step = "dispatch" /\ story.losses > 0
    /\ story' = [story EXCEPT !.losses = @ - 1]
    /\ Fails("unknown")
    /\ UNCHANGED <<app, helper, parent, plugin>>

\* Mutant: an exchange without an answer is taken for one that did not happen.
JudgedRefused(a) == CASE a \in {"delivered", "ok"} -> "delivered"
                      [] a = "sent" -> "unknown"
                      [] OTHER -> "not-delivered"
\* What a send makes of an answer.  A request without one may have been served.
Judged(a) == IF a \in {"delivered", "not-delivered"} THEN a
             ELSE IF a = "ok" THEN "delivered" ELSE "unknown"
HearsSent ==
    /\ worker.step = "sends" /\ worker.answer # Null
    /\ LET t == worker.tok  a == worker.answer IN
       IF a = "sent" /\ ~entries[t].late
       THEN Requests("status", t) /\ Moves("sends") /\ UNCHANGED <<entries, told>>
       ELSE IF Judged(a) = "delivered"
       THEN /\ entries' = [entries EXCEPT ![t].result = "delivered"]
            /\ Answers(t, "delivered") /\ UNCHANGED wire
       ELSE Fails(Judged(a))
    /\ UNCHANGED <<app, helper, parent, plugin, story>>

\* The deadline of an exchange: the compositor serves the request all the same.
ExchangeExpires ==
    /\ story.losses > 0 /\ \E i \in DOMAIN wire : wire[i].heard
    /\ wire' = [i \in DOMAIN wire |-> [wire[i] EXCEPT !.heard = FALSE]]
    /\ worker' = [worker EXCEPT !.answer = "lost"]
    /\ story' = [story EXCEPT !.losses = @ - 1]
    /\ UNCHANGED <<app, helper, parent, entries, plugin, told>>
\* Three seconds, or five for a pointer, after a preparation began.
TimePasses(t) ==
    /\ entries[t].state # "none" /\ ~entries[t].late
    /\ entries' = [entries EXCEPT ![t].late = TRUE]
    /\ UNCHANGED <<app, helper, parent, worker, plugin, wire, told, story>>

----------------------------------------------------------------------------
NoEntry == [state |-> "none", ref |-> Null, owner |-> 0, place |-> 0, late |-> FALSE, result |-> "unknown"]

SemanticInit == \E c \in SemanticCases :
    /\ app = [inc |-> 0, owner |-> 0, open |-> TRUE, place |-> 0, title |-> 0, news |-> 0]
    /\ helper = Gone
    /\ parent = [sock |-> FALSE, closed |-> FALSE, child |-> Null, next |-> 1]
    /\ entries = [t \in Tokens |-> NoEntry]
    /\ worker = [op |-> "observe", tok |-> Null, ref |-> Null, step |-> "idle", round |-> 1,
                 title |-> 0, inc |-> 0, owner |-> 0, answer |-> Null]
    /\ plugin = [t \in Tokens |-> [stage |-> "none", delivery |-> "not-delivered", owner |-> 0, mail |-> Null]]
    /\ wire = <<>>
    /\ told = [t \in Tokens |-> {}]
    /\ story = [acts |-> c.acts, losses |-> c.losses, expiries |-> c.expiries, deaths |-> c.deaths,
               stuck |-> c.stuck, observes |-> c.observes, sends |-> c.sends, pauses |-> c.pauses,
               kind |-> c.kind, published |-> [r \in Refs |-> FALSE], shown |-> [r \in Refs |-> Null],
               running |-> {}, retired |-> FALSE, effects |-> [t \in Tokens |-> 0],
               proved |-> [t \in Tokens |-> Null]]

WorkerSteps == Targets \/ HearsTree \/ LosesTree \/ After \/ Places \/ HearsPrepared
            \/ Dispatches \/ HearsSent \/ Retire

SemanticNext ==
    \/ AppActs \/ HelperLooks \/ HelperEnds \/ HelperDies \/ PluginServes
    \/ Observe \/ Pause \/ WorkerSteps \/ Unapproved \/ ExchangeExpires
    \/ \E r \in Refs : SnapshotExpires(r)
    \/ \E t \in Tokens : \/ PluginPrepares(t) \/ PluginExpires(t) \/ AppPerforms(t) \/ PluginHears(t)
                         \/ Send(t) \/ Cancel(t) \/ TimePasses(t)
                         \/ \E r \in Refs : Prepare(t, r)

SemanticSpec == SemanticInit /\ [][SemanticNext]_semanticVars

----------------------------------------------------------------------------
App == [inc : Nat, owner : Nat, open : BOOLEAN, place : 0 .. 1, title : 0 .. 1, news : 0 .. 2]
Helper == [up : BOOLEAN, changed : BOOLEAN, snaps : [Refs -> Snap \cup {Null}], job : Job \cup {Null}]
Parent == [sock : BOOLEAN, closed : BOOLEAN, child : Nat \cup {Null}, next : Nat]
Entry == [state : {"none", "live", "consumed"}, ref : Refs \cup {Null}, owner : Nat, place : 0 .. 1,
          late : BOOLEAN, result : {"unknown", "not-delivered", "delivered"}]
Worker == [op : Ops, tok : Tokens \cup {Null}, ref : Refs \cup {Null}, round : 1 .. 2,
           step : {"idle", "target", "tree", "after", "place", "prepares", "dispatch", "sends", "retire"},
           title : 0 .. 1, inc : Nat, owner : Nat, answer : Replies \cup {Null}]
Operation == [stage : {"none", "preparing", "ready", "sent", "done"},
              delivery : {"delivered", "not-delivered", "unknown"}, owner : Nat, mail : {"out", "back", Null}]
Message == [cmd : {"prepare", "status", "send", "click", "cancel"}, tok : Tokens, heard : BOOLEAN]
Story == [acts : Nat, losses : Nat, expiries : Nat, deaths : Nat, stuck : Nat, observes : Nat, sends : Nat,
          pauses : Nat, kind : [Tokens -> Kinds], published : [Refs -> BOOLEAN],
          shown : [Refs -> Nat \cup {Null}], running : SUBSET Nat, retired : BOOLEAN,
          effects : [Tokens -> Nat], proved : [Tokens -> Nat \cup {Null}]]

SemanticTypeOK ==
    /\ app \in App /\ helper \in Helper /\ parent \in Parent /\ entries \in [Tokens -> Entry]
    /\ worker \in Worker /\ plugin \in [Tokens -> Operation] /\ wire \in Seq(Message) /\ story \in Story
    /\ told \in [Tokens -> SUBSET {"prepared", "failed", "cancelled", "delivered", "not-delivered", "unknown"}]

\* However often a token is sent, whatever is lost and whenever it is cancelled:
\* it takes effect once, never after the broker was told that it did not or that
\* it is cancelled, and always before the broker is told that it did.
SendSound == \A t \in Tokens :
    /\ story.effects[t] <= 1
    /\ told[t] \cap {"not-delivered", "cancelled", "failed"} # {} =>
          story.effects[t] = 0 /\ plugin[t].mail # "out"
    /\ "delivered" \in told[t] => story.effects[t] = 1

\* What takes effect was proved, after its token was consumed, to be the widget
\* that the agent was shown: not another one at the same path, however late the
\* events of the application arrive.
ShownIsMeant == \A t \in Tokens :
    story.effects[t] > 0 => story.proved[t] = story.shown[entries[t].ref]

\* There is one helper, or one that waits to be reaped, and after a pause that
\* was answered without an error there is none.
HelperAlone ==
    /\ SemanticTypeOK
    /\ Cardinality(story.running) <= 1
    /\ story.running # {} => story.running = {parent.child}
    /\ story.retired => story.running = {}
==============================================================================
