----------------------------- MODULE ReadViews -----------------------------
(***************************************************************************)
(* Protected views of applications: the "views." requests of Sessions       *)
(* (src/src/session.ts), the registry of enrollments                        *)
(* (src/src/multi-view-views.ts) over the budget of ReadBudget, and the     *)
(* registry of connector channels (src/src/read-channel-registry.ts).       *)
(* The usage switch is what ReadUsage makes of it: an epoch and whether it  *)
(* is on.                                                                   *)
(*                                                                          *)
(* The state of the three registries is one record, broker, and their       *)
(* methods are operators on it, because one call runs through all of them   *)
(* synchronously.  A fence counter is compared for equality only: fenced    *)
(* holds the requests whose channel was fenced after they read the counter. *)
(* Clocks work, and a ticket does not expire before its connector dies.     *)
(***************************************************************************)
EXTENDS ReadBudget

CONSTANTS
    Channels, Static,  \* Static: those configured at start, the others are issued
    Instances,         \* bound: the sets of channels and requests a behaviour may have
    ConversationIds, Conversation,  \* Conversation[ch]
    Caller, Owner,     \* Caller[ch] and the owner of b's session
    Approves,          \* Approves[ch]: the bindings of the owner's ticket
    LastEpoch,         \* bound: usage epochs
    MaxUpsets,         \* bound: revocations, failures and changes of the world together
    MaxViews, MaxViewsPerConversation

ASSUME ViewsAssumption ==
    /\ Static \subseteq Channels /\ Instances \subseteq SUBSET (Channels \cup Enrolls \cup Reads)
    /\ Conversation \in [Channels -> ConversationIds]
    /\ DOMAIN Caller = Channels /\ DOMAIN Owner = Bindings
    /\ Approves \in [Channels -> SUBSET Bindings]
    /\ {LastEpoch, MaxUpsets, MaxViews, MaxViewsPerConversation} \subseteq Nat /\ LastEpoch > 0

Requests == Enrolls \cup Reads

VARIABLES
    usage,    \* usage[c]: epoch and enabled of the coordinator
    current,  \* bindings whose session runs and whose window is unchanged
    dead,     \* channels whose connector process is gone
    lapsed,   \* enrollments past their expiresAt
    down,     \* shuttingDown
    broker,   \* see Broker
    terms,    \* terms[e]: what enrollment e asks for, with the epoch it was granted in
    jobs,     \* jobs[q]: how far a request is, and the usage version it was answered
    replies,  \* protected control replies on their way
    told,     \* channels whose ticket the owner has, not yet exchanged
    joined,   \* channels whose connector got its transport
    working,  \* captures whose owned work has not stopped
    upsets,   \* how often something came in between
    broken    \* history: reads in whose course an approval they rest on was withdrawn

outside == <<usage, current, dead, lapsed, down>>
control == <<replies, told, joined>>
viewsVars == <<outside, broker, terms, jobs, control, working, broken>>

-----------------------------------------------------------------------------
Version == [epoch : 0..LastEpoch, on : BOOLEAN]
Channel == [life : {"new", "issued", "open", "retired"}, blocked : 0..LastEpoch,
            epoch : 0..LastEpoch, enabled : BOOLEAN,
            grant : Enrolls \cup {Nil}, enrolling : Enrolls \cup {Nil}]
Views == Enrolls \X Bindings

\* records and live: the registry's #records and #grants; attached: the reads in
\* view.entries; disposed: the views that were given back.
Broker == [enabled : BOOLEAN, chan : [Channels -> Channel], fenced : SUBSET Requests,
           records : SUBSET Enrolls, live : SUBSET Enrolls, attached : SUBSET Reads,
           disposed : SUBSET Views, budget : Budget]
Terms == [ch : Channels, views : SUBSET Bindings, epoch : 0..LastEpoch]
RequestJob == [phase : {"new", "asking", "capturing", "checking", "leased", "over"},
               ch : Channels \cup {Nil}, view : Views \cup {Nil},
               seen : Version, want : (0..LastEpoch) \cup {Nil}]

ASSUME NilAssumption == Nil \notin Views \cup Terms

ViewsTypeOK ==
    /\ usage \in [ConversationIds -> Version]
    /\ current \subseteq Bindings /\ dead \subseteq Channels /\ lapsed \subseteq Enrolls
    /\ down \in BOOLEAN
    /\ broker \in Broker
    /\ terms \in [Enrolls -> Terms \cup {Nil}]
    /\ jobs \in [Requests -> RequestJob]
    /\ replies \subseteq {"issue", "activate"} \X (Channels \ Static)
    /\ told \cup joined \subseteq Channels \ Static
    /\ working \subseteq Reads /\ broken \subseteq Reads
    /\ upsets \in 0..MaxUpsets

Nothing == [epoch |-> 0, on |-> FALSE]
Idle == [phase |-> "new", ch |-> Nil, view |-> Nil, seen |-> Nothing, want |-> Nil]

ViewsInit ==
    /\ usage = [c \in ConversationIds |-> [epoch |-> 1, on |-> FALSE]]
    /\ current = Bindings /\ dead = {} /\ lapsed = {} /\ down = FALSE
    /\ \E used \in Instances :   \* the rest is not there
       /\ jobs = [q \in Requests |-> IF q \in used THEN Idle ELSE [Idle EXCEPT !.phase = "over"]]
       /\ broker = [enabled |-> FALSE,
                 chan |-> [ch \in Channels |->
                     [life |-> IF ch \notin used THEN "retired" ELSE IF ch \in Static THEN "open" ELSE "new",
                      blocked |-> 0, epoch |-> 0,
                      enabled |-> FALSE, grant |-> Nil, enrolling |-> Nil]],
                 fenced |-> {}, records |-> {}, live |-> {}, attached |-> {}, disposed |-> {},
                 budget |-> EmptyBudget]
    /\ terms = [e \in Enrolls |-> Nil]
    /\ replies = {} /\ told = {} /\ joined = {}
    /\ working = {} /\ broken = {} /\ upsets = 0

InFlight(q) == jobs[q].phase \notin {"new", "over"}
Of(chs) == {q \in Requests : InFlight(q) /\ jobs[q].ch \in chs}
Open(s) == {ch \in Channels : s.chan[ch].life = "open"}
OpenOf(s, C) == {ch \in Open(s) : Conversation[ch] \in C}

\* A request ends with the broker in state s.  A name is used again once nothing is
\* charged to it; until then it says which view the charge is for.
Ends(q, s) ==
    /\ broker' = [s EXCEPT !.fenced = @ \ {q}]
    /\ jobs' = [jobs EXCEPT ![q] = IF q \in Reads /\ s.budget.entries[q] # Nil
                                   THEN [@ EXCEPT !.phase = "over"] ELSE Idle]
    /\ broken' = broken \ {q}

-----------------------------------------------------------------------------
\* The registry of enrollments.
ViewsOf(e) == {e} \X terms[e].views

\* A revoked view goes once no read is attached to it, the record with its last view.
Collect(s, E) ==
    LET due == {view \in UNION {ViewsOf(e) : e \in (E \cap s.records) \ s.live} :
                   /\ OnView(s.budget, view) = {}
                   /\ \A r \in s.attached : jobs[r].view # view}
        disposed == s.disposed \cup due
    IN  [s EXCEPT !.disposed = disposed,
                  !.records = {e \in @ : e \in s.live \/ e \notin E \/ ~(ViewsOf(e) \subseteq disposed)}]

Revoke(s, E) ==
    LET ended == E \cap s.live
        hit == {r \in Charged(s.budget) : s.budget.entries[r].view[1] \in ended}
        cancelled == [s.budget EXCEPT !.entries =
            [r \in Reads |-> IF r \in hit THEN Cancel(s.budget, r).entries[r] ELSE @[r]]]
    IN  Collect([s EXCEPT !.live = @ \ ended, !.budget = cancelled], ended)

\* The callbacks of the registry: collect, after anything the budget did with r.
Reconciled(s, r) ==
    Collect([s EXCEPT !.attached = IF r \in Charged(s.budget) THEN @ ELSE @ \ {r}], {jobs[r].view[1]})

Sweep(s) == Revoke(s, lapsed)

\* Sessions.revokeReadConversation, for every conversation of C.
FenceConversations(s, C) ==
    LET chs == OpenOf(s, C)
        shut == [ch \in Channels |-> IF ch \notin chs THEN s.chan[ch] ELSE
            [s.chan[ch] EXCEPT !.blocked = IF s.chan[ch].epoch > @ THEN s.chan[ch].epoch ELSE @,
                               !.enabled = FALSE, !.grant = Nil]]
    IN  Revoke([s EXCEPT !.fenced = @ \cup Of(chs), !.chan = shut],
               {e \in s.records : Conversation[terms[e].ch] \in C})

\* ReadChannelRegistry.#invalidate with dropReadChannel as its listener.
Drop(s, ch) ==
    LET shut == [s EXCEPT !.chan[ch].life = "retired", !.chan[ch].enabled = FALSE, !.chan[ch].grant = Nil]
    IN  IF s.chan[ch].life = "open"
        THEN Revoke([shut EXCEPT !.fenced = @ \cup Of({ch})], {e \in s.records : terms[e].ch = ch})
        ELSE [s EXCEPT !.chan[ch].life = "retired"]

\* isCurrent of a channel that was issued retires it when its connector is gone.
TransportChecked(s, ch) ==
    IF ch \in dead \ Static /\ s.chan[ch].life = "open" THEN Drop(s, ch) ELSE s

\* The backend's recipientCurrent.
RecipientCurrent(s, ch, epoch) ==
    /\ ch \in Open(s) /\ ch \notin dead
    /\ s.chan[ch].enabled /\ s.chan[ch].epoch = epoch /\ epoch > s.chan[ch].blocked
    /\ usage[Conversation[ch]] = [epoch |-> epoch, on |-> TRUE]

Standing(s, e, b) ==
    /\ s.enabled /\ e \in s.live /\ e \notin lapsed /\ ~down
    /\ RecipientCurrent(s, terms[e].ch, terms[e].epoch)
    /\ b \in current

\* A mutant: what was granted once stands until it is revoked.
CheckedOnce(s, e, b) == s

\* ReadViewRegistry.#current: an enrollment that does not stand is revoked on the spot.
Checked(s, e, b) ==
    IF Standing(s, e, b) THEN s
    ELSE Revoke(IF e \in s.live \ lapsed /\ s.enabled /\ ~down THEN TransportChecked(s, terms[e].ch) ELSE s, {e})

\* ReadViewRegistry.status
Statused(s, ch) ==
    LET swept == Sweep(s)
        fallen == {e \in swept.live : terms[e].ch = ch /\ \E b \in terms[e].views : ~Standing(swept, e, b)}
    IN  IF fallen = {} \/ ~s.enabled THEN swept
        ELSE Revoke(IF down THEN swept ELSE TransportChecked(swept, ch), fallen)

\* readRecipient: who may use a channel for a request.
MayUse(s, ch) == ~down /\ ch \in Open(s) /\ ch \notin dead /\ (ch \in Static \/ ch \in joined)

-----------------------------------------------------------------------------
\* refreshReadUsage, once the version seen by request q is there.
VersionOk(s, q, expected) ==
    LET ch == jobs[q].ch  seen == jobs[q].seen IN
    /\ q \notin s.fenced
    /\ seen.on /\ seen.epoch >= s.chan[ch].epoch /\ seen.epoch > s.chan[ch].blocked
    /\ expected \in {Nil, seen.epoch}

Refreshed(s, q, expected) ==
    LET ch == jobs[q].ch
        seen == jobs[q].seen
        noted == [s EXCEPT !.chan[ch].epoch = seen.epoch]
        refused(t) == FenceConversations(t, {Conversation[ch]})
    IN  CASE q \in s.fenced -> s
          [] q \notin s.fenced /\ (seen.epoch < s.chan[ch].epoch \/ seen.epoch <= s.chan[ch].blocked) -> refused(s)
          [] VersionOk(s, q, expected) -> [noted EXCEPT !.chan[ch].enabled = TRUE]
          [] OTHER -> IF seen.on THEN refused(s) ELSE refused(noted)

\* usageVersion is asked: its answer is what the coordinator says now.
Asking(q, ch, view, want, phase) ==
    [jobs EXCEPT ![q] = [phase |-> phase, ch |-> ch, view |-> view,
                         seen |-> usage[Conversation[ch]], want |-> want]]

-----------------------------------------------------------------------------
\* views.enroll, up to its await.
EnrollStart(e, ch, V) ==
    /\ jobs[e].phase = "new" /\ terms[e] = Nil /\ ~down /\ ch \in Open(broker)
    /\ LET s == Statused(broker, ch)
           active == s.enabled /\ \E g \in s.live : terms[g].ch = ch
           t == IF active THEN s ELSE [s EXCEPT !.chan[ch].grant = Nil]
       IN  IF t.chan[ch].grant # Nil \/ t.chan[ch].enrolling # Nil
           THEN broker' = t /\ UNCHANGED <<terms, jobs>>
           ELSE /\ broker' = [t EXCEPT !.chan[ch].enrolling = e]
                /\ terms' = [terms EXCEPT ![e] = [ch |-> ch, views |-> V, epoch |-> 0]]
                /\ jobs' = Asking(e, ch, Nil, Nil, "asking")
    /\ UNCHANGED <<outside, control, working, broken>>

\* approvedReadBinding of every view, and the owner's ticket.
Approved(ch, V) == \A b \in V : b \in current /\ Owner[b] = Caller[ch]
OnTicket(s, ch, V) == ch \in Static \/ (ch \in Open(s) /\ V \subseteq Approves[ch])

\* A mutant: an enrollment that was revoked gives its bindings back at once.
TakenByLive(s, V) == \E e \in s.live : V \cap terms[e].views # {}

\* A binding is in one enrollment only, until its view is disposed of.
Taken(s, V) == \E e \in s.records : \E b \in V \cap terms[e].views : <<e, b>> \notin s.disposed

Bound(s, chs) == {view \in UNION {ViewsOf(e) : e \in s.records} : view \notin s.disposed /\ terms[view[1]].ch \in chs}
Room(s, ch, V) ==
    /\ Cardinality(Bound(s, Channels)) + Cardinality(V) <= MaxViews
    /\ Cardinality(Bound(s, {d \in Channels : Conversation[d] = Conversation[ch]})) + Cardinality(V)
         <= MaxViewsPerConversation

\* views.enroll after its await, through ReadViewRegistry.enroll.
EnrollVersion(e) ==
    /\ jobs[e].phase = "asking"
    /\ LET ch == jobs[e].ch
           V == terms[e].views
           s == [Refreshed(broker, e, Nil) EXCEPT !.chan[ch].enrolling = Nil]
           goes == VersionOk(broker, e, Nil) /\ s.chan[ch].grant = Nil /\ ~down /\ Approved(ch, V)
           checked == TransportChecked(s, ch)
           enrolls == goes /\ OnTicket(checked, ch, V) /\ s.enabled
           t == IF enrolls THEN Sweep(checked) ELSE IF goes THEN checked ELSE s
           made == /\ enrolls /\ ~Taken(t, V) /\ Room(t, ch, V)
                   /\ RecipientCurrent(t, ch, jobs[e].seen.epoch)
       IN  IF made
           THEN /\ Ends(e, [t EXCEPT !.records = @ \cup {e}, !.live = @ \cup {e}, !.chan[ch].grant = e])
                /\ terms' = [terms EXCEPT ![e].epoch = jobs[e].seen.epoch]
           ELSE Ends(e, t) /\ terms' = [terms EXCEPT ![e] = Nil]
    /\ UNCHANGED <<outside, control, working>>

-----------------------------------------------------------------------------
\* views.status and views.read, up to their first await.  A view's id names its enrollment.
StatusStart(r, ch) ==
    /\ jobs[r].phase = "new" /\ MayUse(broker, ch)
    /\ jobs' = Asking(r, ch, Nil, IF broker.chan[ch].grant = Nil THEN Nil ELSE broker.chan[ch].epoch, "asking")
    /\ UNCHANGED <<outside, broker, terms, control, working, broken>>

ReadStart(r, ch, view) ==
    /\ jobs[r].phase = "new" /\ MayUse(broker, ch)
    /\ terms[view[1]] # Nil /\ terms[view[1]].epoch > 0
    /\ view[2] \in terms[view[1]].views
    /\ jobs' = Asking(r, ch, view, broker.chan[ch].epoch, "asking")
    /\ UNCHANGED <<outside, broker, terms, control, working, broken>>

StatusVersion(r) ==
    /\ r \in Reads /\ jobs[r].phase = "asking" /\ jobs[r].view = Nil
    /\ LET s == Refreshed(broker, r, jobs[r].want)
           goes == VersionOk(broker, r, jobs[r].want) /\ MayUse(s, jobs[r].ch)
       IN  Ends(r, IF goes THEN Statused(s, jobs[r].ch) ELSE s)
    /\ UNCHANGED <<outside, terms, control, working>>

\* views.read after its first await, through ReadViewRegistry.read up to the capture.
ReadVersion(r) ==
    /\ r \in Reads /\ jobs[r].phase = "asking" /\ jobs[r].view # Nil
    /\ LET ch == jobs[r].ch
           view == jobs[r].view
           s == Refreshed(broker, r, jobs[r].want)
           goes == /\ VersionOk(broker, r, jobs[r].want) /\ MayUse(s, ch)
                   /\ s.chan[ch].grant # Nil /\ s.enabled
           swept == Sweep(s)
           found == goes /\ swept.chan[ch].grant = view[1] /\ view[1] \in swept.live
           t == IF found THEN Checked(swept, view[1], view[2]) ELSE IF goes THEN swept ELSE s
       IN  IF found /\ view[1] \in t.live /\ MayReserve(t.budget, view)
           THEN /\ broker' = [t EXCEPT !.budget = Reserve(@, r, view), !.attached = @ \cup {r}]
                /\ jobs' = [jobs EXCEPT ![r].phase = "capturing"]
                /\ working' = working \cup {r}
                /\ UNCHANGED broken
           ELSE Ends(r, t) /\ UNCHANGED working
    /\ UNCHANGED <<outside, terms, control>>

\* The adapter of the capture: the work stops and says so, or its end is unknown.
WorkStops(r, keep) ==
    /\ r \in working /\ r \in Charged(broker.budget) /\ working' = working \ {r}
    /\ LET s == Reconciled([broker EXCEPT
                    !.budget = ConfirmStopped(@, r, keep, jobs[r].view[1] \in broker.live)], r)
       IN  IF jobs[r].phase = "over" THEN Ends(r, s) ELSE broker' = s /\ UNCHANGED <<jobs, broken>>
    /\ UNCHANGED <<outside, terms, control>>

WorkUnknown(r) ==
    /\ r \in working /\ r \in Charged(broker.budget)
    /\ broker' = Reconciled([broker EXCEPT !.budget = UnknownDrain(@, r)], r)
    /\ UNCHANGED <<outside, terms, jobs, control, working, broken>>

LeaseReleased(s, r) == Reconciled([s EXCEPT !.budget = Release(@, r)], r)

\* What a failed read leaves: its result is dropped, work that may still run is kept charged.
Discarded(s, r) ==
    IF r \notin Charged(s.budget) THEN Reconciled(s, r)
    ELSE IF s.budget.entries[r].phase = "retained" THEN LeaseReleased(s, r)
    ELSE Reconciled([s EXCEPT !.budget = UnknownDrain(Cancel(@, r), r)], r)

\* The capture settles.  The caller's hop to its next await is part of this step.
CaptureSettles(r, bytes) ==
    /\ jobs[r].phase = "capturing"
    /\ LET view == jobs[r].view
           s == IF bytes THEN Checked(broker, view[1], view[2]) ELSE broker
       IN  IF bytes /\ view[1] \in s.live /\ IsDeliverable(s.budget, r, TRUE)
           THEN /\ broker' = s
                /\ jobs' = Asking(r, jobs[r].ch, view, jobs[r].want, "checking")
                /\ UNCHANGED broken
           ELSE Ends(r, Discarded(s, r))
    /\ UNCHANGED <<outside, terms, control, working>>

\* views.read after its last await.
FinalVersion(r) ==
    /\ jobs[r].phase = "checking"
    /\ LET s == Refreshed(broker, r, jobs[r].want)
       IN  IF VersionOk(broker, r, jobs[r].want) /\ MayUse(s, jobs[r].ch)
           THEN broker' = s /\ jobs' = [jobs EXCEPT ![r].phase = "leased"] /\ UNCHANGED broken
           ELSE Ends(r, LeaseReleased(s, r))
    /\ UNCHANGED <<outside, terms, control, working>>

\* The version never comes: the request and what its conversation has are refused.
VersionRejected(q) ==
    /\ jobs[q].phase \in {"asking", "checking"}
    /\ LET s == FenceConversations(broker, {Conversation[jobs[q].ch]})
       IN  Ends(q, IF q \in Enrolls THEN [s EXCEPT !.chan[jobs[q].ch].enrolling = Nil]
                   ELSE IF jobs[q].phase = "checking" THEN LeaseReleased(s, q) ELSE s)
    /\ terms' = IF q \in Enrolls THEN [terms EXCEPT ![q] = Nil] ELSE terms
    /\ UNCHANGED <<outside, control, working>>

-----------------------------------------------------------------------------
\* What ends an approval: every read of the channels chs loses one it rests on.
Withdraws(chs) == broken' = broken \cup (Of(chs) \cap Reads)

\* The coordinator's answer to a request of the owner fences the conversation at once.
UsageAsked(c) ==
    /\ ~down /\ usage[c].epoch < LastEpoch
    /\ usage' = [usage EXCEPT ![c] = [epoch |-> @.epoch + 1, on |-> FALSE]]
    /\ broker' = FenceConversations(broker, {c})
    /\ Withdraws({ch \in Channels : Conversation[ch] = c})
    /\ UNCHANGED <<current, dead, lapsed, down, terms, jobs, control, working>>

UsageOn(c) ==
    /\ ~usage[c].on /\ usage' = [usage EXCEPT ![c].on = TRUE]
    /\ UNCHANGED <<current, dead, lapsed, down, broker, terms, jobs, control, working, broken>>

\* pause, stop, or the loss of its adapter: revokeSessionReadViews.
SessionHalts(b) ==
    /\ ~down
    /\ LET chs == {ch \in Open(broker) : Caller[ch] = Owner[b]} IN
       /\ current' = current \ {b}
       /\ broker' = FenceConversations(broker, {Conversation[ch] : ch \in chs})
       /\ Withdraws(chs)
    /\ UNCHANGED <<usage, dead, lapsed, down, terms, jobs, control, working>>

\* The window or the policy changes, or the session runs again: nobody is told.
BindingChanges(b) ==
    /\ ~down /\ current' = IF b \in current THEN current \ {b} ELSE current \cup {b}
    /\ UNCHANGED <<usage, dead, lapsed, down, broker, terms, jobs, control, working, broken>>

ConnectorDies(ch) ==
    /\ ch \notin dead /\ dead' = dead \cup {ch}
    /\ UNCHANGED <<usage, current, lapsed, down, broker, terms, jobs, control, working, broken>>

Lapses(e) ==
    /\ e \in broker.live \ lapsed /\ lapsed' = lapsed \cup {e}
    /\ UNCHANGED <<usage, current, dead, down, broker, terms, jobs, control, working, broken>>

\* views.off and views.revoke
ViewsOff(ch) ==
    /\ ~down /\ ch \in Open(broker)
    /\ broker' = FenceConversations(broker, {Conversation[ch]})
    /\ Withdraws(OpenOf(broker, {Conversation[ch]}))
    /\ UNCHANGED <<outside, terms, jobs, control, working>>

\* views.enable
SetEnabled(on) ==
    /\ ~down
    /\ broker' = IF on THEN [broker EXCEPT !.enabled = TRUE]
                 ELSE [Revoke(FenceConversations(broker, ConversationIds), broker.records) EXCEPT !.enabled = FALSE]
    /\ IF on THEN UNCHANGED broken ELSE Withdraws(Channels)
    /\ UNCHANGED <<outside, terms, jobs, control, working>>

-----------------------------------------------------------------------------
\* views.channel.issue
Issue(ch) ==
    /\ ~down /\ ch \notin Static /\ ch \notin dead
    /\ Approved(ch, Approves[ch]) /\ broker.chan[ch].life = "new"
    /\ \A d \in Channels \ Static : broker.chan[d].life \in {"issued", "open"} =>
           Approves[d] \cap Approves[ch] = {}
    /\ broker' = [broker EXCEPT !.chan[ch].life = "issued"]
    /\ replies' = replies \cup {<<"issue", ch>>}
    /\ UNCHANGED <<outside, terms, jobs, told, joined, working, broken>>

\* Asked again before the exchange, it answers the same ticket, or retires it.
Reissue(ch) ==
    /\ ~down /\ broker.chan[ch].life = "issued" /\ Approved(ch, Approves[ch])
    /\ IF ch \in dead THEN broker' = Drop(broker, ch) /\ UNCHANGED replies
       ELSE replies' = replies \cup {<<"issue", ch>>} /\ UNCHANGED broker
    /\ UNCHANGED <<outside, terms, jobs, told, joined, working, broken>>

\* The last check of the reply; the ticket of a dead connector is retired by it.
IssueReply(ch) ==
    /\ <<"issue", ch>> \in replies /\ replies' = replies \ {<<"issue", ch>>}
    /\ IF broker.chan[ch].life = "issued" /\ ch \notin dead
       THEN told' = told \cup {ch} /\ UNCHANGED broker
       ELSE /\ broker' = IF broker.chan[ch].life = "issued" THEN Drop(broker, ch) ELSE broker
            /\ UNCHANGED told
    /\ UNCHANGED <<outside, terms, jobs, joined, working, broken>>

\* views.channel.activate
Activate(ch) ==
    /\ ~down /\ ch \in told /\ broker.chan[ch].life = "issued"
    /\ IF ch \in dead THEN broker' = Drop(broker, ch) /\ UNCHANGED replies
       ELSE /\ broker' = [broker EXCEPT !.chan[ch].life = "open"]
            /\ replies' = replies \cup {<<"activate", ch>>}
    /\ told' = told \ {ch}
    /\ UNCHANGED <<outside, terms, jobs, joined, working, broken>>

\* A transport that cannot be handed over is revoked.
ActivateReply(ch) ==
    /\ <<"activate", ch>> \in replies /\ replies' = replies \ {<<"activate", ch>>}
    /\ LET s == TransportChecked(broker, ch) IN
       IF s.chan[ch].life = "open" THEN broker' = s /\ joined' = joined \cup {ch}
       ELSE broker' = s /\ UNCHANGED joined
    /\ UNCHANGED <<outside, terms, jobs, told, working, broken>>

\* views.channel.revoke and views.channel.detach
RevokeChannel(ch) ==
    /\ ~down /\ broker.chan[ch].life \in {"issued", "open"} /\ ch \notin Static
    /\ broker' = Drop(broker, ch) /\ Withdraws({ch})
    /\ UNCHANGED <<outside, terms, jobs, control, working>>

\* Sessions.close, as far as views are concerned.
RetireAll(s) ==
    [s EXCEPT !.chan = [ch \in Channels |->
        IF ch \notin Static /\ @[ch].life \in {"issued", "open"}
        THEN [@[ch] EXCEPT !.life = "retired", !.enabled = FALSE, !.grant = Nil] ELSE @[ch]],
              !.fenced = @ \cup Of(Open(s) \ Static), !.enabled = FALSE]

CloseViews ==
    /\ ~down /\ down' = TRUE
    /\ broker' = Revoke(RetireAll(broker), broker.records)
    /\ Withdraws(Channels)
    /\ UNCHANGED <<usage, current, dead, lapsed, terms, jobs, control, working>>

-----------------------------------------------------------------------------
\* The broker, its owner and its clients at work.
Serves ==
    \/ \E e \in Enrolls : EnrollVersion(e)
    \/ \E e \in Enrolls, ch \in Channels, V \in SUBSET Bindings \ {{}} : EnrollStart(e, ch, V)
    \/ \E r \in Reads, ch \in Channels, view \in Views : ReadStart(r, ch, view)
    \/ \E r \in Reads : \/ StatusVersion(r) \/ ReadVersion(r) \/ FinalVersion(r)
                        \/ \E good \in BOOLEAN : WorkStops(r, good) \/ CaptureSettles(r, good)
    \/ \E c \in ConversationIds : UsageOn(c)
    \/ \E ch \in Channels : Issue(ch) \/ IssueReply(ch) \/ Activate(ch) \/ ActivateReply(ch)
    \/ SetEnabled(TRUE)

\* What comes in between, at most MaxUpsets times.
Upset ==
    \/ \E q \in Requests : VersionRejected(q)
    \/ \E e \in Enrolls : Lapses(e)
    \/ \E c \in ConversationIds : UsageAsked(c)
    \/ \E r \in Reads : WorkUnknown(r) \/ \E ch \in Channels : StatusStart(r, ch)
    \/ \E b \in Bindings : SessionHalts(b) \/ BindingChanges(b)
    \/ \E ch \in Channels : ConnectorDies(ch) \/ ViewsOff(ch) \/ RevokeChannel(ch) \/ Reissue(ch)
    \/ SetEnabled(FALSE)
    \/ CloseViews

ViewsNext ==
    \/ Serves /\ UNCHANGED upsets
    \/ Upset /\ upsets < MaxUpsets /\ upsets' = upsets + 1

-----------------------------------------------------------------------------
(* Properties.                                                              *)

\* A binding is in one enrollment at a time as long as any work on it may run, and a
\* channel has one grant, although enrolling waits for the usage version in between
\* (multi-view-views.ts:186, session.ts:461-469).
EnrolledOnce ==
    /\ \A v, w \in UNION {ViewsOf(e) : e \in broker.records} :
           v[2] = w[2] /\ v # w => v \in broker.disposed \/ w \in broker.disposed
    /\ \A e, g \in broker.live : terms[e].ch = terms[g].ch => e = g

\* What reads cost is accounted for and in bounds, and work that has not stopped keeps
\* its charge and the only capture slot, whatever was revoked (multi-view-read-budget.ts:164).
WorkIsCharged ==
    /\ BudgetExact(broker.budget)
    /\ \A r \in working : r \in Charged(broker.budget) /\ broker.budget.capture = r

\* Nothing is kept for ever: a read that is over is charged for work alone, a revoked
\* enrollment stays for such a read alone, and an open channel is known to its
\* connector or about to be (multi-view-views.ts:229, session.ts:395).
NothingLeaks ==
    /\ \A r \in Charged(broker.budget) : InFlight(r) \/ r \in working
    /\ broker.attached = Charged(broker.budget)
    /\ \A e \in broker.records \ broker.live : \E r \in broker.attached : jobs[r].view[1] = e
    /\ \A ch \in Open(broker) \ Static : ch \in joined \/ <<"activate", ch>> \in replies
=============================================================================
