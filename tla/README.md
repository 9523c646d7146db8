# sbar-orbit in TLA+

This directory holds TLA+ models of the broker of sbar-orbit, the TLC
configurations that check them on small instances and the proofs that TLAPS
checks for every value of the constants. Paths such as `session.ts` are below
`src/src/`.

## The system

An agent (through MCP, the CLI or a connector) asks a local **broker** to
control an application that the person has open. The broker is one event-loop
process (`session.ts`); everything it awaits is a point where another request
may run. For each controlled application it owns a **session** with a **native
worker**, a Python child that speaks one request at a time over a pipe and
holds a **lease** at the compositor's plugin. The person watches a panel and
may pause, resume, narrow or stop any session at any moment. A separate
**updater** process replaces the broker's release.

### Components

| Component | State it keeps | Operations | Talks to |
|---|---|---|---|
| Session lifecycle (`session.ts` `stop`, `pause`, `forceClose`, `adapterGone`; `hyprland.ts`; `native-worker.ts`) | state of the session, its job queue `tail`, the shared `paused` and `closing` promises, the close deadline, the orphan's grace timer, lease key | act, batch, control, pause, resume, stop, forced close, adapter gone/back | worker (request queue), plugin lease, caller registry |
| Broker admission (`session.ts` `create`, `claim`, `native.open`, `update.begin/end`, `close`; `arbitration.ts`) | sessions, creations under way, creation chain, lease keys, wait queue, opening cache, workspace reservations, update lease | create, wait, open, update begin/end, shut down | native claim and launch, caller registry, recovery file of the updater |
| Action admission (`session.ts` `act`, `decided`, `admit`, `guarded`, `batch`, `runBatch`, `session.narrow`; `policy.ts`; `advisor.ts`; `hyprland.ts` preparations) | policy object, request identities and their results, journal, semantic epoch, prepared tokens | act, batch, narrow, advisor's verdict, prepare/send/cancel of a semantic action | worker, advisor, conversation usage switch |
| Updater (`update.ts`, `update-lock.ts`, `update-admission.ts`, `managed-lifecycle.ts`) | pointers `current` and `previous`, version directories, recovery file (the barrier), update lock | prepare, activate, roll back, prune | broker (lease, doctor), service manager, file system |
| Read usage switch (`read-usage-*.ts`, `native/read_usage_store*.py`) | epoch, enabled and uncertain of each conversation, its queue of writes; the frame in flight; the record, marker and seal files of a root | on, off, poison, commit, seal | owner, Unix socket, file system |
| Read views (`multi-view-*.ts`, `read-view-delivery.ts`, `read-channel-registry.ts`, `session.ts` 197-551) | registered views, epochs and fences, read budget, frames in flight | enroll, approve, observe, revoke, settle | worker, read usage switch, connector channels |
| Codex gates (`codex-authority-gate.ts`, `codex-ipc-gate.ts`) | connections, requests without an answer, page readers, the turn under way and its notes, the one text | rebuild or refuse a request, project or drop a note, poll the saved turn, submit a text | private clients, the owner's app server, the IPC socket |
| Native lease (`native/existing.py`, `session_worker.py`, `control.py`, `leases.py`, `native-worker.ts`) | handoff record, control settings and journal, the lease at the compositor | claim, act, pause, resume, hand back, reap, release | compositor plugin, broker, owner's command line |
| Semantic actions (`native/semantic_actions.py`, `a11y_snapshots.py`, `a11y_host.py`, `a11y_host_worker.py`) | snapshots and references, the warm helper, tokens | observe, prepare, send, cancel | accessibility bus, compositor plugin |
| Plugin ownership (`native/plugin_owner.py`, `plugin_bundle.py`, `prepare.py`, `refresh.py`) | shared and private journal, preparations, `current`, the recorded build | load, unload, resume, prepare, refresh, prune | compositor, file system |
| Owner opening (`session.ts` `native.open`, `native.present`; `native/owner_open.py`, `opening_evidence.py`, `window_placement.py`) | identities of openings and presentations, the ticket, what a launch has sampled | open, present | compositor, launched application |
| Reader scope (`native/reader_scope.py`) | one cgroup leaf and its journal | prepare, spawn, bind, kill, recover, wait, close | kernel, whoever starts the reader |
| Read channel handshake (`native/read_channel_client.py`, `read_channel_server.py`, `read_peer.py`) | entry, epochs, process identities and the connection, on both sides | hello, acknowledgement, refusal, close | both owners with their authority locks, kernel |
| Conversation usage switch (`conversation-usage.ts`, `mcp.ts`, `session-mcp.ts`) | one file for each conversation | set, status, the samples of a call | adapters, broker |
| Everything else (installers, services, platform adapters, discovery, panel, diagnostics) | configuration files | run by a person | operating system |

`PROJECT.json` lists all of them with their files and whether they are modelled.

### What is hard, and what makes each component correct

* **Session.** A pause must mean that no input is on its way, although jobs are
  queued, a batch is half done and an older resume is with the worker. A stop
  must be answered although the worker hangs, and its late end must not touch what
  another session has claimed. Orphaned sessions must end or return.
* **Broker.** Creations, openings, an update and a shutdown race on one chain.
  The limit, lease keys, launch identities and workspaces must stay exact, an
  update must be alone, every create must be answered.
* **Actions.** Between the policy check and the hand-over lie an advisor, a
  usage switch and a two-step send. Nothing may be handed over that the policy
  in force forbids, nothing twice, and what is acknowledged must be true.
* **Updater.** A crash, a failed write or a lost machine between any two steps
  must leave a broker that serves, or a barrier that says it must not.
* **Read usage switch.** A switch is fenced at once but recorded later, behind a
  queue, a socket and a file system; deadlines answer the owner while the write
  goes on. What is readable must be the newest, recorded wish of the owner.
* **Read views.** A read rests on a running session, an unchanged window, a live
  connector, an enrollment and the usage switch, and waits for three answers in
  between. Nothing may leave once one of them is withdrawn, and what a cancelled
  read still occupies must stay charged until its work is known to have stopped.
* **Native lease.** The record, the claim, the journal and the hand-back are four
  places that a kill may part. A client that is held must be recorded, a
  protected approval must admit one action, and a worker that lives must not lose
  its lease to a repair meant for a dead one.
* **Semantic actions.** The application changes between what the agent was shown,
  what was prepared and what is sent; the helper that proves it may die, forget
  or answer late. An effect happens once, on the widget that was meant.
* **Plugin ownership.** Commands run side by side, are killed, and are carried
  out by the compositor after they were given up. Two journals, a link and a
  recorded build must still say which plugin is there.
* **Owner opening.** New windows appear while the person works. Only windows of
  the launch may be moved, never the one the person is in, and a launch that may
  have happened is not repeated.
* **Reader scope.** Every system call may be the last one of the process. What
  may be left behind must be on disk before it can exist.
* **Read channel handshake.** Two processes that do not trust names prove to each
  other who they are, while sockets are replaced, process numbers come back and
  both owners may revoke. A hello or an acknowledgement must be for the one meant.
* **Conversation usage switch.** Nothing orders the writers of a file that each
  call samples up to four times. Off must block what comes after it.
* **Codex gates.** Requests, pushes and polls of several clients meet at one
  owner. Nothing of another turn or thread may pass, and each request is
  answered once.

## Modules

| Module | Models | Checked by | Proved in |
|---|---|---|---|
| `SessionLifecycle` | one session from claim to close | `MCSessionLifecycle` | `SessionLifecycleProofs` |
| `BrokerAdmission` | many creates and openings, the update lease, the shutdown | `MCBroker` | `BrokerAdmissionProofs` |
| `ActionAdmission` | the actions of one session, from request to receipt | `MCActionAdmission` | `ActionAdmissionProofs` |
| `UpdateActivation` | updaters, pointers, barrier, restarted broker | `MCUpdateActivation` | `UpdateActivationProofs` |
| `UsageSwitch` | what the read usage switch promises (abstract) | implemented by `ReadUsage` | `ProtectedReadProofs` |
| `UsageStore` | the usage store of one root and its service processes | through `ReadUsage` | `ProtectedReadProofs` |
| `ReadUsage` | coordinator, cohort and transport over `UsageStore` | `MCReadUsage` | `ProtectedReadProofs` |
| `ReadBudget` | what protected reads are charged, as operators | through `ReadDelivery` | `ProtectedReadProofs` |
| `ReadViews` | the `views.` requests, enrollments and connector channels | through `ReadDelivery` | `ProtectedReadProofs` |
| `ReadDelivery` | the delivery of what was read | `MCReadDelivery` | `ProtectedReadProofs` |
| `NativeLease` | one application lease between workers, broker, compositor and owner | `MCNativeLease` | `NativeLeaseProofs` |
| `SemanticDispatch` | a reference from the snapshot to the effect | `MCCompositor` | `PluginProofs` |
| `PluginOwner` | the owner's commands and refreshes on the compositor plugin | `MCCompositor` | `PluginProofs` |
| `OwnerOpening` | the inside of `native.open` and `native.present` | `MCBroker` | `BrokerAdmissionProofs` |
| `ReaderScope` | the reader's cgroup leaf and its journal | `MCSmallParts` | `SmallPartsProofs` |
| `ReadHello` | one handshake of a read channel | `MCSmallParts` | `SmallPartsProofs` |
| `ConversationSwitch` | the preference of a conversation and a call that samples it | `MCSmallParts` | `SmallPartsProofs` |
| `CodexGate` | the authority gate of the private Codex client | through `CodexIpc` | `SessionLifecycleProofs` |
| `CodexIpc` | the IPC gate in front of it, with its one text | `MCCodexIpc` | `SessionLifecycleProofs` |

Each definition that stands for code is in the `map` of `PROJECT.json` with its
lines. Definitions with "Mutant" in their comment are plausible bugs of the
definition that follows them; they are not part of any specification and only
show that a property can fail.

A property of a run is usually the conjunction of a few named parts that one
story of the code can violate together (`PauseHolds` is `PausedIsQuiet` with
`PauseBeatsOlderResume`, and so on); the parts are stated, each with its own
comment, just above it.

Where two modules see the same thing, one looks into what the other takes as an
answer: the lease of `SessionLifecycle` (`plugin`) is what `NativeLease` looks
into, the two-step send of `ActionAdmission` is what `SemanticDispatch` looks
into, and `OwnerOpening` works out the answers of `native.open` in
`BrokerAdmission`. The upper module lets an answer be late or lost at any point,
so it is not composed with the lower one.

### SessionLifecycle

`state`, `tail`, `closing`, `forced`, `orphan` and `grace` are the fields of a
`Session`. `pauseOp` is the phase of the shared promise `session.paused`, and
`behind` the jobs that promise still has to wait for. `wq` holds the worker's
requests in order, `written` how many of them a closing worker still answers,
`worker` whether the process is up, ended or crashed, `backend` the memoised
close of the backend, and `plugin` the compositor's lease. `profile` says who
holds the session's key in the broker's lease map, `release` how far the
release of a forced close is. An action is one run of the event loop from an
await to the next: `PauseRequest` is the synchronous half of `session.pause`,
`PauseDrained` its continuation once the jobs ahead have settled, and
`WorkerAnswer` the reply of the oldest request together with the continuation
that waits for it. The journal, the labels and the pictures are left out; a
batch is a number of remaining actions.

### BrokerAdmission

Creates (`Creates`), openings (`Opens`), callers and updaters are processes
named by constants. `tail` is the creation chain as a sequence, so an attempt
runs when its link is first. The wait queue, the registered sessions and the
opening cache are the broker's maps. The native side answers: claimed, busy or
failed; opened, refused, needing approval or uncertain. Awaits inside `create`
(the recovery file, the prune of closed sessions) are steps of their own.

### ActionAdmission

A call (`Calls`) is one request of an agent with a request identity `Id[c]`: a
plain action, a semantic one (prepare, then send under a token) or a batch
with a capture. `allowed` is the set of classes the policy allows and `version`
the identity of the policy object, which every narrow replaces. `requests` maps
an identity to the call that took it, `prep`, `epoch` and `tokens` are the
prepared actions of the backend and of the worker, `wire` is the worker's
request queue. Three histories are kept beside the code's state: what the
worker delivered (`ran`), what was journaled as allowed (`journal`), and the
policy object of the advisor's last allow (`judged`).

### UpdateActivation

`root` is what the file system shows (two pointers, barrier) and `past` the
roots a power loss may bring back: those since the directory was last synced.
Every step of `activateVersionUnlocked` that can fail or be the last one before
a kill is an action with its own `pc`. The platform (`linux`, `darwin`,
`win32`) is chosen initially: it decides whether the lock dies with its owner,
whether directories are synced, whether a release is renamed before it is
sealed, and whether pruning is supported. A restart has the three outcomes of
`managed-lifecycle.ts`: done, refused before anything stopped (or with the
broker down), and unconfirmed, which may mean anything.

### UsageSwitch, UsageStore, ReadUsage

The owner turns protected reads on and off for each conversation. `UsageSwitch`
is the contract: who may be read has asked for it last, and that request is
recorded. `UsageStore` is the Python side. `disk` is the root directory as
processes see it, `past` the directories a power loss may leave: an unsynced
change is applied to each of them or not, an fsync leaves one. `at[s]` is how
far a service is in opening the root (scan, lock file, flock, seal), `job` the
commit under way with its marker. `ReadUsage` extends it with the broker side:
`counter`, `epoch`, `enabled`, `uncertain` and `poisoned` are the fields of the
coordinator and its entries, `requests[c]` is the queue behind `entry.tail`,
`wire` and `stage` are the frames of the transport. Poison runs through
coordinator, cohort and transport in one synchronous call, so one flag stands for
the three latches. Two values of a request are apart as in the code: `run`, what
became of its write, and `timedOut`, what its owner was told.

`SwitchKept` is the refinement: `record` is the record that no power loss can
take away, `allowed` what `usageCurrent` grants, `lost` the uncertain
conversations (all, once poisoned).

### ReadBudget, ReadViews, ReadDelivery

One call of the broker runs synchronously through `session.ts`, the registry of
enrollments, its budget and the registry of channels. So the state of the four
is one record, `broker`, the methods are operators from record to record, and an
action composes them in the order of the calls: `Refreshed` is the rest of
`refreshReadUsage`, `Checked` is `#current`, which revokes what does not stand,
`Drop` is `#invalidate` with the broker's `dropReadChannel` as its listener.
`ReadBudget` holds the accounting alone; `entries`, `capture` and `bytes` are the
fields of `ReadResourceBudget`.

`jobs[q]` says at which await a request is, with the channel, view and epoch its
closure holds. A read asks for the usage version, captures, and asks again;
`seen` is the version the coordinator will have answered with, which later
changes do not touch. The counter `entry.fence` is only ever compared with an
earlier value of itself, so `fenced` holds the requests for which it has moved.
`usage` is what `ReadUsage` makes of a conversation: `UsageAsked` is a request
of the owner, which fences at once, `UsageOn` its confirmation; one that is never
confirmed is a conversation that stays off. `working` are captures whose process
or helper has not stopped, whatever the broker believes of them, and `holding`
the deliveries of which the sink holds a copy. `broken` is a history: the reads
in whose course an approval they rest on was withdrawn. A name of `Reads` is used
again once the reservation it stands for is gone.

Left out: faults of the clock, the guards against reentrant callbacks and their
generation counters (a trusted callback of the models does not reenter), the
limit of conversations, the limits of issues and secrets, a ticket that expires
while its connector lives, a lease or credit whose release throws, and `retain`,
which nothing calls.

### NativeLease

A worker process (`worker`) holds at most one lease of the one application
client. `record` are the workers with a `handoff.json`, `control` the owner's
settings and the lock of the control journal, `plugin` the compositor's lease,
`wire` its requests. The compositor serves them in the order they were written,
also those whose asker has given up (`heard`). `broker` is the broker's end:
requests over the pipe, the close of a backend with its signals, and the run of
`leases.py reap-worker` afterwards. `tool` is the owner's `leases.py release`.
`left.todo` holds what the broker will still ask, in any order.

Left out: the wait for a busy owner before the claim (`existing.py:206`), leases
marked `failed` and `recordApplicationFailure`, a worker that no signal ends, the
limits of the reply cache, the choice among candidates, and the half second that
`ActionControl` waits for a busy journal. The look at the client after a claim
stands for the two questions (information, cursor) the code asks.

### SemanticDispatch

One widget of one window stands for what is referenced: `inc` is its lifetime at its
path, `owner` the bus connection that provides it, `news` the events the helper has not
read. `helper.snaps` are the snapshots of the warm helper, `parent` is the parent's end
of it (`A11yHost`), `entries` are the tokens of `SemanticActions`, `plugin` is the
compositor's own operation of a token, `wire` the requests it has not served, and `told`
what the broker was told of a token. `story` counts what may still happen and records
what has: which widget each reference was shown for, which one a send proved, and the
effects. The helper is started, asked, timed out, killed and reaped as in
`a11y_host.py`; a process that cannot be reaped bars the next one.

Left out: a resend whose digest differs, the reply cache, the check of the
process generation after the second resolution, the calibration of GTK by pixels
(a third resolution), a pause of the plugin between the two sends, "partial-send",
and failing exchanges for lists. Consumed entries stay for ever (the code drops
them after sixty seconds). A token may be sent again, as the worker's interface
allows. `a11y_refs.py` is imported by nothing.

### PluginOwner

`host` is the compositor with its instance number, interface version, loaded
preparation and requests that wait, which it serves in their order even when nobody
waits for them (`LateServed`); `shared[e]` and `private[r]` are the
journals of an instance and of a preparation, `lock[e]` the lock of an instance,
`disk` the link `current`, the recorded build and the copy of the plugin file.
`ops` is what the journals say of each operation. Every command is a process
(`procs`) that may be killed at every step, as the broker does after twenty
seconds. Preparations and refreshes carry the build they were made from.

Two refreshes do not exclude each other; `current` may then name a preparation
that the other one has pruned, so `CurrentSound` says what holds when none
overlapped. The recorded build (`disk.pin`) is written in place before the link, and a
kill may leave it torn: `RecordSound` says when it is the build of what workers bind, and
`left.cut` is the history of the one exception, a refresh killed at the record or before
the link with none gone through since. A refresh that is killed between load and
publication leaves a loaded plugin that no refresh can follow until the owner unloads
it. Left out: a journal that is full or torn, an ambiguous list of
plugins, `ensureNativeReady`, which repeats a refresh, and commands that only
read.

### OwnerOpening

`opening` and `showing` are the broker's entries of the identity, `creations` its
chain, `job` the worker that runs and what it has sampled (windows, processes,
tokens), `desk` the compositor and the processes behind its windows. The owner
focuses, closes, moves to other workspaces and monitors at any time; a server
of the application maps windows of its own. `Proof` is the evidence of
`opening_evidence.py` in its order of strength. A wait of the code that may go
either way is a choice.

That the workspace is empty is checked before the placement, not with it, as the
documentation says. `native.open` keeps a refusal from before the launch for its
identity (only a missing approval frees it), `native.present` frees one. A ticket lives
for ninety seconds, also one whose registration was not answered, and a plugin whose
admission is paused refuses a new one (`TicketExpires`, `RegisterRefused`). A candidate
may be reported as forwarded although it was not opened. Left out: a control journal
that cannot be finished, the moment a bus name is looked up, ambiguous window
identities, special workspaces, geometry.

### ReaderScope

`journal` are the complete records of the file, `inst` the instance that holds its lock,
with the record it believes in and the system call it is in; `dir` is what is at the
leaf's name, `kid` the reader and what its parent knows of it. Between any two system
calls the process may die, the machine restart, a full or invalid journal refuse a
record without harm, a write stop half way, others change the directories, or another
thread poll or reap the child. Nothing starts a reader with it yet: the starter and the
placer are external, and `retire` and `admit` always refuse.

What the model makes visible and the properties allow: a record of a spawn that
was intended but not bound can never be recovered; an interrupted creation leaves
an empty file that refuses everybody; after a restart of the machine every
journal with a leaf is a debt; an owner cannot recover its own debt while it
lives. Left out: removal of the journal by others, a full file, fields that are
functions of the others, and a directory replaced before it was pinned.

### ReadHello

`client` is `hello_once` and `server` is `serve_once` with its `OwnedPeer`, `wire`
their connection and `backlog` what the listener has not accepted. `place` is whose
socket has the name, `other` another process, perhaps with the number of the
server that died. `auth` is what each owner approves, by generation, with its lock.
The owners pass in the authority lock and may revoke, approve
again or hold the lock as long as they like; the strangers connect and ask, or
connect and say nothing. Each read of a name, credential or process is a sample of
its own where a property can tell.

Nothing outside the tests uses the two functions yet. A stranger takes the one
connection that a server accepts and so ends its round. A name that is replaced and
restored between two looks is not noticed, as the code says; the hello still goes
to the pinned process. Left out: the framing of the bytes, the directories above
the socket, descriptors handed to other processes (excluded by the contract of the
code), and `OwnedPeer.run`, which nothing calls.

### ConversationSwitch

`file` is what the file of the conversation holds, `temp` the temporary file of
each request, `set[s]` how far a request is, and `call[c]` how far a call is: both
samples of the adapter, the broker's sample before a semantic action, and those
around the result of a read. `since` is a history: where a call was when the off of
now came into force. An off is in force while the file says so and no request to
turn it on is under way; the second half is needed because the writers are not
ordered, and a delayed `on` may replace a later `off` (`docs/cli.md:150`).

Only a semantic action is sampled by the broker: a plain one that was sent before
the off is carried out, as `orbit_usage` says. Left out: the switch of a connection
without a conversation identity, `status --watch`, and a connection that is lost
while the broker goes on.

### CodexGate, CodexIpc

`conn[c]` is a connection: its link, whether the owner's side is up, what is
queued and what has no answer, and the turn whose notes it may see (`scope`).
`work[r]` is the race of a page reader's answer with its deadline, `readers` the
two counters, `poll[r]` the poll for the saved turn. The owner answers, pushes
notes and saves turns in any order; an end that is too large for a note leaves the item
sent and the poll to try again (`PollTooLarge`); `strays` are notes of other threads and
turns. `CodexIpc` adds the links of IPC clients and the client that
`submitFixtureTextThroughGate` opens for the one text.

The gates are used by the repository's tests and experiments and never promise an
answer, so only safety is checked. Left out: a client that connects and sends
nothing, an owner who tells the submitting client about its turn. Readers of the
poll do not count as active readers, in the code and here. After the owner's
socket was replaced a queued request is never sent.

## Runs

| Run | Question | Distinct states |
|---|---|---|
| `session` | what pause, resume, stop and orphan handling promise, with liveness | 0.15 M |
| `broker` | limit, keys, openings, updates, shutdown and answers of concurrent calls, with liveness; one launch, whose windows alone are moved | 0.86 M |
| `action` | semantic actions, batches, repeats and the advisor against narrow, pause, stop and a dying worker, with liveness | 0.24 M |
| `update` | activation, rollback, pruning under kills, power loss and failing writes | 0.13 M |
| `read_usage` | the read switch through deadlines, failures, a rival service and power losses, with refinement and liveness | 0.27 M |
| `read_delivery` | protected reads from enrollment to the last copy, through anything that ends an approval | 0.28 M |
| `native_lease` | one lease through crashes, signals, repairs and late answers, with liveness | 87 k |
| `compositor` | journals, link, recorded build and plugin after commands that race, die or come late; one effect on the widget that was meant, and one helper | 0.52 M |
| `small_parts` | no debt of the reader's leaf forgotten and nothing foreign killed; whom a hello and an acknowledgement are for, with liveness; what off blocks, and a file that stays readable | 0.53 M |
| `codex_gates` | notes, answers and the one text of the gates | 0.46 M |

These hold. Two more runs state a sentence of the documentation that the code does not
keep, and TLC finds each violated:

| Run | Sentence | Property |
|---|---|---|
| `session_forced` | a session stuck in `closing` is forced closed at the deadline | `ClosingForced` |
| `update_running` | recovery state is retained when activation is uncertain | `RecoveryRetained` |

`broker`, `compositor` and `small_parts` check two or three parts that share no state with
each other; a behaviour is one of them (`part`), so their states add up instead of
multiplying.

### Bounds

A run whose actors would be too many together runs several *mixes*: `Mixes` (or
`Cases`, `Instances`) is a set of small casts, one of which a behaviour draws at
its start. The calls outside the cast never come. Each mix was chosen so that the
actors that can meet on one piece of state meet in some mix.

* `session`: two jobs in the tail, so that a pause has something queued behind
  what is running; one resume beside the pause it races with; batches of one
  action and a capture (longer batches are in `action`).
* `broker`, `BrokerAdmission`: limit 3; three creates of two callers on one application, two of them
  with the same profile key; three openings, two of them one identity, on two
  workspaces; creates and openings against an updater; two updaters.
* `action`: two semantic actions, a batch, its exact repeat, a plain and a
  semantic action for the advisor, two narrows, one pause; in mixes of two calls
  with a narrow, or one call with two. Two identities are shared by different
  calls, so that a reused identity is refused.
* `update`: two updaters and three versions, of which one never comes up;
  operations are not bounded, so any number of activations follow each other.
* `read_usage`: two conversations and two requests; one conversation has room for
  one pending request, so that the queue overflows, the other for two, so that a
  request is overtaken; a rival opens the root before, while and after the
  broker's service does. A third request was tried without the rival and showed
  nothing new (1.3 M states, too many for a run that also checks liveness).
* `read_delivery`: four instances: two enrollments over two configured channels,
  with a read; two enrollments and two reads over one channel; a channel that is
  issued and exchanged with two enrollments or with two reads. A result has two
  copies, and the budget holds one result with its copy but no second peak beside
  them. Two upsets (`MaxUpsets`) come at any moment. Enrollments, reads and
  configured channels are interchangeable, and no property of the run is a
  liveness property, so their symmetry is sound.
* `native_lease`: five cases: one session with everything that may happen to it;
  a claim that dies or is cut off while a repair runs; two workers that compete;
  approvals for two workers, or two for one.
* `compositor`, `SemanticDispatch`: two tokens of which one may be live (`MaxLive`, 8 in the
  code), so that the limit is met; two references; six cases that spend one or
  two losses, a change of the application, a death, an expiry and a process that
  cannot be reaped.
* `compositor`, `PluginOwner`: two processes, three preparations of which two are kept, two
  instances, five operations; six cases with up to three refreshes, of one build, of two
  that fit, or of one that fits a newer instance only.
* `broker`, `OwnerOpening`: one window of before and two new ones; one opening, asked for
  up to three times, and a presentation of one of two workspaces; seven cases
  with and without the plugin, the Lua dispatcher and a server on the bus.
* `small_parts`, `ReaderScope`: two owners, three openings of the journal, one change by others,
  one restart of the machine.
* `small_parts`, `ReadHello`: two approvals of each owner (`MaxGens`), so that one is given anew;
  three upsets (`MaxUpsets`), as many as it takes for the server to die and another
  process with its number to take its name. Deadlines and locks are not bounded.
* `small_parts`, `ConversationSwitch`: two writers, one call: an `off` and a delayed or
  later `on`. A third writer showed nothing new (0.68 M states). The calls do not see
  each other, and the proofs do without the bounds.
* `codex_gates`: five sets of requests (two turns; pages whose identity is used
  again; the state socket; an odd client; a text through IPC). Every limit is one
  or two, so that it is met.

In every instance the interesting case needs at most two racing actors and one
bystander.

`CHECK_DEADLOCK FALSE` stands where the system may stop: all requests of the
instance are done and the broker is shut down, or the case is spent.

### Where the documentation says more than the code does

These came out while modelling. The models follow the code. The first and the fourth
are runs of their own, each with the one property that states the sentence; the others
are in the models, and no property of a run says otherwise.

1. **A session may stay in `closing` for ever** (`session.ts:1081`). A close
   that rejects clears the deadline meant to force it; `docs/agent-interface.md:386`
   says that the deadline forces it. Run `session_forced`: a worker that had to be killed
   rejects the close (`native-worker.ts:302`), and each later stop is rejected at once.
   What does hold is that each stop is answered (`StopSettles`): `Rejected` is the state in
   which such a session is left.
2. **A session may be orphaned unseen** (`session.ts:1127`). A create that
   finishes after its caller was declared gone is never looked at
   (`docs/agent-interface.md:383`).
3. **The journal may record an allow for what is then refused**
   (`session.ts:1037`; the comment at `session.ts:881` says otherwise).
4. **A refused rollback clears the barrier** (`update.ts:336`) while the
   version that failed its health check is still running (`docs/updates.md:5`). Run
   `update_running`. `DoubtCovered` is about the version that the current pointer names,
   which every broker started from then on runs; of the broker that runs
   `DoubtHeld` says that the end of a rollback is the only step that leaves it in
   doubt without a barrier.
5. **The repair of a dead worker's lease finds its own process**
   (`leases.py:171`, `leases.py:58`). `reap-worker` carries the identity of the
   worker on its command line, takes itself for a live worker and does not hand the
   lease back; the plugin's timer does, five seconds later (`docs/cli.md:97`).
6. **A refresh with a supplied manifest replaces the plugin file before the load is
   accepted** (`refresh.py:135`). If the load is refused, the recorded build pins a
   digest that the file does not have (`docs/desktop-only.md:73`). The record
   itself stays true (`RecordSound`): it names a build that was loaded, the one that
   workers bind.

Two more are left open by the documentation. An attempt that was chained before
another caller joined the wait queue is served first (`session.ts:664`). A resume
that is with the worker when its adapter disappears still sets the session
running (`session.ts:1111`: `adapterGone` joins a pause that is already settled).

### Fairness

Weak fairness is given to what the runtime guarantees: continuations of
settled promises run, timers fire, and a request of the worker is answered or
rejected by its timeout. Nothing is assumed of agents, callers, the person, the
advisor's verdict or updaters.

* `SessionLifecycle`: `JobStep`, `PauseDrained`, `CloseFinish`,
  `ReleaseAnswered` (continuations), `WorkerAnswer` or `WorkerReject` (the
  request's timeout), `WorkerEndStops`, `ForceClose` (the close deadline), `Sweep`
  and `GraceEnds` (timers). That the close of a backend ever ends is not assumed.
  `SessionSettles` says that pauses are settled, stops are answered and orphans are
  stopped, where a stop may be answered by a rejection; `ClosingForced` has the same
  fairness, so that its counterexample is not a system that merely stops.
* `BrokerAdmission`: the chain, the answers of native claims and openings, the
  end of a stop (closed or failed), the grace timer and the sweep.
  `BrokerSettles`: every call is answered.
* `ActionAdmission`: `JobStep`, `NarrowAcked`, `Deadline`, `PauseDrained`,
  `StopDrained`. `ActionsSettle` (calls and narrows) holds although the worker
  may die before it answers.
* `ReadUsage`: the clock goes on (`DeadlinePasses`), timers fire, continuations
  run (`Start`, `Settle`). Nothing is assumed of the store: it may hang in any
  step, and `RequestsAnswered` holds all the same.
* `NativeLease`: the compositor serves (`PluginServes`) and hands back the lease
  of a dead owner (`PluginReaps`, its timer); the broker's timers send their
  signals (`Signals`) and it hears of an exit (`Exited`, `ReapWorker`). Nothing is
  assumed of a worker: it may hang in any step, and `ClosesHandBack` holds.
* `ReadHello`: both sides run and their deadlines pass. Nothing is assumed of the
  owners, who may keep the lock, or of strangers; `HandshakeEnds` holds.
* The others are checked for safety only. A sink or helper that never answers is
  meant to keep its charge; commands of the owner and readers are started by a
  person or a test and may be killed anywhere, and an opening may wait for a
  window for ever.

## Proofs

`SessionLifecycleProofs` proves `TypeCorrect`, `PauseDrains` and `NewerPauseWins`
(together `PauseKeepsItsWord`), `RunningHoldsLease` and with the types
`RecordStaysTrue`, `KeyHeld` and `StoppingStands` (`KeySafe` with `StopFinal`), for
every queue bound. The inductive invariant `IInv` is the conjunction of `TypeOK`,
`PauseInv` (what each phase of a pause says of the state and of the jobs),
`WorkerInv` (at most one job, the head of the tail, and one pause, the pending one,
are with the worker), `ResumeInv` (a pause stands behind every older resume),
`CloseInv` (only a forced close leaves a session closed whose stop still runs) and
`RunningIsLeased`. None of the safety properties is inductive without
`PauseInv`: that a paused session is quiet follows only if one knows how many
jobs the pending pause still waits for.

`BrokerAdmissionProofs` proves, for any numbers of creates, openings, callers and
updaters and for every limit, `TypeCorrect`, `AdmissionKept` (the types with `KeysKept`
and `LimitKept`), `OpeningsKeptApart` (`LaunchedOnce` with `WorkspacesApart`),
`UpdateAlone` and `ShutdownLeavesNothing`, and from these two `NoneSlipsIn`. The safety
properties alone are not inductive: that an update is alone follows only if one also
knows who is in `creating` when the lease is granted (`LeaseInv`), what of the chain has
started (`LaunchInv`), that keys belong to claims in flight or open sessions (`KeyInv`),
that places counted by the limit are places of calls (`LimitInv`), and what a shutdown
still waits for (`ShutInv`). `IInv` is their conjunction with `WorkspaceInv` and the
types (`PlaceType`, `TailInv` for the chain with the one call that runs at its head,
`RestType`); each has one lemma per group of actions. The wait queue is a function on
the applications; that its values are sequences is used by no proof.

After them the module proves `AskedOnceAlways` (`AskedOnce`) and `OnlyOursAlways`
(`OnlyOurs`) of `OwnerOpening`, for any windows, workspaces to present, and whatever the
owner and the applications do in any order. `OpeningInv` is inductive. Of the desk it
says that it is sound with all that is late (`DeskSound`): of the launches, of the
presentations and of the placements, counted with those still to be served, one at
most takes effect (`OnceSound`), and a placement that is late is of a window of the
launch which has not been moved (`LateSound`). Of the broker it says that each request
waits in the queue once or is the worker's (`FlowInv`), and of the worker how far it is
(`StepInv`) and what it may therefore count on: before its launch none is asked for or
late (`LaunchedInv`), and while it places it knows all that was moved (`PlaceInv`, with
`TicketInv` for the token and `OpenedInv` for what will be reported). A worker acts on a
sample that is stale when it acts. What carries the argument is that the world
only `Grows`: a window that was seen stays seen, its process is the same or gone,
and it goes on showing its token, so what was found to be of this launch stays so.
What cannot be kept, that the owner is not in the window, is the guard which the
compositor evaluates with the placement. What a command that is late will do is
a recursion along the queue (`Served`), which is unrolled by induction on its length
(`ServedAll`).

`SmallPartsProofs` holds the proofs of three small modules.

Of `ConversationSwitch` it proves `FileWhole` (`SwitchWhole`) and `OffHolds`
(`OffBlocks`) for any numbers of writers and calls. `SwitchWhole` needs
`TempsMatch`, what each step of a writer says of its temporary file; `OffBlocks`
needs `SinceTrue`, that the history is kept exactly while an off is in force, and
`SampledRead`. The steps of a call are first brought into one relation (`Moved`),
of which it is then shown that it keeps what `OffBlocks` says of one call.

`ActionAdmissionProofs` proves `ReceiptsAreExact`, `PreparationsAreHeld` and the
action property `DispatchIsExact` for any requests, batches, policies, narrows and
identities. `ActionInv` is inductive: the types; `QueueInv` (each job is in the
queue once, and only the first has begun); for each call the policy object it holds
(`JudgedInv`), the kind of job that may be where it is (`KindInv`), the shape of its
receipts (`ReceiptInv`), what of it was delivered and journaled (`DeliveryInv`) and
the identity it owns (`IdentityInv`); `WireInv` (each request in the worker's wire
fits the step its call waits at), `NarrowInv` (a narrow that began is in force) and
`TokenInv`. A receipt is exact only if one knows where the request it came from
stood, hence the wire and the queue. `PreparationsHeld` needs `TokenInv`: each
preparation in the worker either is the one that its job goes on with, or a cancel
for it is under way. It could not be kept without `SendKept`: a send that a narrow
did not wait for is of a class that the narrow keeps. `DispatchIsExact` is about a
pair of states; the step that hands an action over is the one that reads the
policy, and `JudgedInv` says what the call knew before it.

Of `ReadHello` `SmallPartsProofs` proves `HandshakeIsSound` (`HandshakeSound`) and
`BothStoodAtOnce` (`BothStood`) for any numbers of generations and of changes of the
world. `HelloInv` adds to them who waits in the backlog (`BacklogTrue`), when a lock
is the call's (`LocksMatch`), that no generation comes back (`GensGrow`), what a
request was staged with (`StageTrue`), that the hello comes after the checks
(`HelloTrue`) and the acknowledgement after the hello (`AckTrue`), and `EpochTrue`:
an epoch of the client that stands now stood when the server acknowledged. The
last one is the heart of `BothStood`, and rests on generations only growing.

Of `ReaderScope` `SmallPartsProofs` proves `JournalIsTrue` (`JournalTrue`) and `OnlyTheOwn`
(`OwnOnly`) for any processes and exit statuses. `ScopeInv` relates what the journal
says to what exists (`DebtInv`), what the instance knows to what the journal says
(`InstanceInv`), and gives a status one way into a receipt (`ReceiptInv`). That a
kill hits the owner's own reader needs `Entitled`: the owner in the last record made
the leaf, or whoever made it is dead; that the next owner can read the journal needs
that each record is one which the methods write (`Sound`) and that each pair of
neighbours is accepted, in every journal that is whole.

`UpdateActivationProofs` proves `PointersAreSound` (`PointersSound`) and `DoubtIsHeld`
(`DoubtHeld`, an action property that contains the invariant `DoubtCovered`)
for any updaters and versions and on each platform. `UpdateInv` adds to
`PointersSound` and `DoubtCovered` `PastSettled`
and, for each updater, `JobInv`. By `PastSettled` a power loss brings nothing back once
a barrier is gone, where directories are synced; without it pruning might remove what an
older root still names. `JobInv` says of each step of an activation which versions it
works on (`TargetsInv`), where the pointers (`PointerInv`), the barrier and the lease
are (`BarrierInv`), what will be reported (`SaysInv`) and which directories nobody else
looks at (`DirectoryInv`). These two are about all roots that a power loss may
leave, so the proofs first take them apart root by root (`RootInv`): a synced step
replaces them by one, an unsynced step adds one. For the broker that runs `RunInv` says
that behind a barrier which is about to be removed the broker has answered, or there is
none; every step is then `Sheltered` (it leaves the broker alone or ends it and removes
no barrier), or is that removal, or the end of a rollback.

`NativeLeaseProofs` proves `LeaseIsSound` (`LeaseSound`) and the action property
`NothingStolen` (`NotStolen`, the safety half of `LeaseEndsRight`) for any workers and
budgets. `LeaseInv` says of each worker (`LocalInv`) where it and its backend are
(`StepInv`, `PipeInv`), that its record is there before its claim is on the wire
(`RecordInv`), that it waits for the last request it wrote (`AskedInv`), what a good
end of a request leaves behind (`FinishInv`), that no claim or resume is on its way
behind a pause (`PauseInv`) and that an input still to be sent was not delivered
(`InputInv`); of the owner's process, that a handback on its way is for a worker that
has ended (`OwnerInv`, `ReleaseInv`); and that an approval which stands is unspent
(`ApprovalInv`). What makes it inductive is the order of the wire: the compositor
serves a request whose sender is gone all the same, so each promise is also about the
requests nobody waits for. Most steps are about one worker; `WorkerSteps` shows
once that such a step need only be right for that worker.

`ProtectedReadProofs` proves that coordinator, transport and store together implement
`UsageSwitch` (`SwitchIsKept`, the refinement `SwitchKept`), `StoreIsSound` (`StoreSound`)
and `RootIsFenced` (`RootFenced`) for any conversations, services, frames and
epochs. `SwitchKept` speaks of the records that every power loss would leave, so the
first fact of `UsageInv` is `JsonInv`: the roots which may be left have the records of the
directory as it is, but for at most one record, which is older there. With it each step
of the store leaves one root, or keeps all records, or replaces one record by a newer
one. Beside it stand `MeantInv` (every record anywhere is a request of the owner),
`RootInv` (who may write), `JobInv` (how far the commit of the service is, and of which
frame), `WireInv` (one frame for a conversation, of its oldest request, and newer than
what is on disk), `QueueInv` (epochs grow along the requests) and `KeptInv` (what was
acknowledged is on disk in every root). Each step is then an `Ask`, `Write`, `Allow` or
`Lose` of `UsageSwitch`, or a stutter. `RootFenced` needs `SealedInv`: a root that is
sealed carries its marker in every directory that a power loss may leave, and its lock
file has one creator.

The second half of `ProtectedReadProofs` is about views and deliveries:
`EnrolledOnceAlways` (`EnrolledOnce`), `AccountsHeldAlways` (`AccountsHeld`) and
`DeliveryConsentedAlways` (`DeliveryConsented`), for any channels, bindings, requests,
prices, budgets and limits, and any number of upsets. `ViewsInv` is inductive under the
steps of `ReadViews`. It says of the registry (`RegistryInv`) that a live enrollment is
the grant of its channel and that two enrollments share a binding only when one of the
views is disposed of; of the account (`AccountInv`) that the reads which are charged are
those attached to a view, that a revoked enrollment is kept for such a read only, and
that the budget is exact (`BudgetInv`); and of each request (`RequestOK`) what the step it
waits at means for its charge (`ChargeOK`), its view (`ViewOK`) and its capture
(`WorkOK`). `DeliveryInv` adds for each delivery (`DelOK`) that its lease is charged a copy
from before the copy goes out until it is known to be gone.

Three things carry it. The totals of the budget are recursive sums over sets, so they
are first shown to exist and not to depend on the order (`TotalApart`, from
`CountInduction`); then an operation on one entry moves every total by what that entry
costs more (`BudgetChanges`). One call of the broker chains many operators, each of which
may revoke, fence and retire but never grant: `Goes(s, t)` says so of two records, it is
transitive, and what it leaves of other requests is shown once (`OthersKeep`). And the
views never touch a lease that a delivery works on (`LeasesStay`). `DeliveryConsented` is
about a pair of states, and its approvals are withdrawn while reads are on their way:
`Barred` says that a read from which one was withdrawn is fenced, or its channel is
closed, or the broker is going down, and each boundary of a delivery refuses all three
(`SendsConsented`).

`PluginProofs` holds the proofs of two components around the compositor plugin, one
after the other; neither uses the other's facts.

Of `PluginOwner` it proves `CommandsAreRecorded` (`CommandsRecorded`) and `PluginIsSound`
(`PluginSound`: `UnloadQuiet`, `CurrentSound` and `RecordSound`) for any processes, builds
and bounds. `PluginInv` says what a process holds at each step (`ProcInv`), that one process
at most is inside an instance and each operation is one process's (`LockInv`), what both
journals say of an operation while its process is at a step (`JournalInv`), that every
command served or waiting was announced before and is noted by whoever still runs it or
has ended it (`CommandInv`), and what was loaded before it is bound or published
(`LoadInv`, `RefreshInv`, `AloneInv`). The heart is `LateInv`: one command at most
waits, and while it does, no process of this instance relies on a look at the plugin.
Only so does a look still hold when the command that rests on it is served: an answer to
the look means that nothing waited, and the lock keeps every other operation out.
`RecordInv` adds for `RecordSound` that a refresh works on a preparation of its own
build and that between record and link, while no other refresh overlaps, the record is
its own.

Of `SemanticDispatch` it proves `SendIsSound` (`SendSound`), `WhatIsShownIsMeant`
(`ShownIsMeant`) and `HelperStaysAlone` (`HelperAlone`) for any tokens, references and
limits, and for any number of changes, losses, deaths, observations and sends.
`SemanticInv` says what the worker is about at each step (`WorkerInv`), what the
compositor has of a token (`EffectInv`: one request with an effect on the wire at
most, and what each stage of an operation says of its effect), and what is believed
of it (`TokenInv`). Two words carry the argument: a token is `Quiet` while nothing was
sent of it, and `Never` says that nothing will come of it, be it quiet or an operation
that ended undone. Whoever tells the broker that a token did not take effect does
so of a token that is `Never`, although requests may still be on the wire, since the
compositor serves them when nobody waits any more; one answer is awaited at most
(`HeardInv`), so an answer is about the request that is waited for (`SendInv`). A
reference keeps for ever the lifetime it was published with (`SnapInv`, and `JobInv` for
what the helper is about to publish), and the send goes on only with a proof of
that lifetime: hence what takes effect is what was shown. `ProcessInv` is about the
helper's process.

After the proofs of a session, `SessionLifecycleProofs` holds those of the Codex gates:
`NotesBelongAlways` (`NotesBelong`), `AnsweredOnceAlways` (`AnsweredOnce`) and
`TextOnceAlways` (`TextOnce`), for any requests, clients, links, frames and limits.
`GateInv` is inductive under the steps of the authority gate. Its parts: a request on
offer has left no trace and what a client waits for is its own and unanswered
(`Untouched`, `Awaited`); while a page's race is open its reader runs and nothing was
answered (`Racing`), whence one answer (`AnsweredAtMost`) and a true count (`Counted`); a
turn that waits for its answer is the one of its client's scope (`TurnAwaited`), what a
scope has kept or knows is about a turn that was accepted, whose end was not told
(`Scopes`), a poll is for a turn that its client was given (`PolledTurns`), and `ToldTo`
is the promise itself. What makes the end of a turn the last note about it, whether a
push or the poll brings it, is in `Scopes`: whoever tells the end drops the scope in the
same step, and both look at the scope in the moment in which they tell. The notes kept
before the answer are sorted out by a recursive function (`About`); what it returns is
proved by induction on its length (`NumberInduction`). `CodexInv` adds that until
the text is used nothing was submitted (`Submitting`) and that a success is heard only by
the link whose text it was (`Heard`): the text is spent in the step that takes it, so no
failure, drop or second link brings it back.

The proofs rest on the assumptions named in the modules (finite sets of processes,
natural bounds, a `None` or `Null` that is no process, conversation, step, operation,
phase, commit, token, reference, snapshot or answer, a `Nil` that in `OwnerOpening` is
no window, process, kind of command, result or number and in `ReadViews` no read,
enrollment, entry, view or terms, reads and enrollments that are different requests,
at least one usage epoch, and for `NativeLease` budgets of the two modes of
`control.py`), which TLC evaluates on every run, and on nothing else.

Every safety property that a run checks, invariant or action property, is so stated by
a theorem; of `LeaseEndsRight` the safety half, `NotStolen`. What TLC checks and no proof
covers is liveness, since fairness and ENABLED are out of the prover's reach:
`SessionSettles`, `BrokerSettles`, `ActionsSettle`, `RequestsAnswered`, `HandshakeEnds`
and the half `ClosesHandBack` of `LeaseEndsRight`. They hold for the small instances of
their runs, and for those only.

## Assumptions of the models

* An action of a model is atomic because the broker's event loop is; every
  await is a boundary, file-system awaits included where a property can tell. In
  the Python processes every system call is a boundary where a property can tell.
* The worker answers requests in the order it took them; it may answer late,
  never, with garbage, or die.
* The compositor serves its requests in the order they were written, whether or
  not whoever wrote them still waits.
* `ReadUsage`: a file operation and the fsync after it are one step, since a
  power loss between the two is one before or after both; the clock and the
  timers of the runtime work; other programs leave the root alone.
* `UpdateActivation`: a file system loses directory changes only from the end
  (a journal); the contents of a sealed version are not damaged; the barrier is
  written before the broker's lease expires (120 s) and before a broker that
  died in between is up again (`LeaseLost`). The deliberate recovery of a
  standing barrier by a person is not modelled: a barrier stays.

## Not modelled, and why

Formatting, labels, pictures and messages; the contents of policies beyond the
classes they allow; `native.monitors` and `native.candidates`, which only read; the
parsing front ends (IPC, MCP, CLI); installers, service files and platform
adapters, which are sequential I/O run by a person; discovery of applications,
which is a function of files. The reader's helper (seccomp, descriptors, PNG) and
the framing of the connector's channel are kernel and format work; the connector's
socket is the sink of `ReadDelivery`, which starts where the handshake of
`ReadHello` ends. The tables of `policy.ts` on origins and paths are not modelled:
native sessions have the origins "any", and no caller in `session.ts` gives a
destination to `decide`, so they never apply. What a module leaves out of its own component is
said in its section above.

## Plan

Done, in this order because a wrong pause or a wrong hand-over harms the person
most: `SessionLifecycle`, `BrokerAdmission`, `ActionAdmission`,
`UpdateActivation`, then `ReadUsage` and `ReadViews` with `ReadDelivery`, which guard
what may be looked at, then the native side and the gates, the
handshake and the switch of a conversation.

The proofs followed the same order but for views and deliveries, which came last: their
totals and long calls needed the most lemmas. Nothing that is checked for safety is left
to prove; the liveness properties stay with TLC, and the parts named above as not
modelled stay outside.
