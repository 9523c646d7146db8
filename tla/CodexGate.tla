------------------------------ MODULE CodexGate ------------------------------
(***************************************************************************)
(* The authority gate of the private Codex client                            *)
(* (src/src/codex-authority-gate.ts).  A client reaches the owner's server    *)
(* through the gate only: what it asks is rebuilt or refused, what the owner  *)
(* says is projected or dropped.  A handler is an operator from the record of *)
(* a connection to its next record.                                           *)
(***************************************************************************)
EXTENDS Integers, Sequences, FiniteSets

CONSTANTS
    None,         \* no request, no scope
    Clients,      \* WebSocket clients of the gate
    StateClients, \* clients of its state socket
    Requests,     \* requests, each sent at most once
    Asked,        \* Asked[r]: its client, id, kind, and whether its shape is allowed
    Instances,    \* the sets of requests one of which is on offer in a behaviour
    Polling,      \* options.fixturePollSavedTurn
    MaxReaders,   \* MAX_ACTIVE_PAGE_READERS, MAX_ACTIVE_SECTION_READERS
    MaxQueue,     \* requests kept until the owner is connected
    MaxPending,   \* requests of a client without an answer
    MaxBuffered,  \* MAX_FIXTURE_NOTIFICATION_BUFFER
    MaxNotes,     \* MAX_FIXTURE_NOTIFICATION_COUNT
    MaxPolls,     \* attempts of a poll
    MaxStrays     \* bound: notifications of other threads and turns the owner sends

Methods == {"initialized", "account", "read", "metadata", "page", "section", "turn", "hello", "snapshot", "key"}
Whats == {"started", "item", "completed"}
TurnRequests == {r \in Requests : Asked[r].kind = "turn"}
\* A notification names the turn it is about; `clean` says that its thread is the pinned one
\* and that it has no credential field.
Note == [turn : TurnRequests \cup {None}, what : Whats, clean : BOOLEAN]
Scope == [by : TurnRequests, turn : TurnRequests \cup {None}, buffered : Seq(Note),
          count : 0..MaxNotes]

ASSUME GateAssumption ==
    /\ Asked \in [Requests -> [client : Clients \cup StateClients, id : STRING, kind : Methods,
                               safe : BOOLEAN]]
    /\ Clients \cap StateClients = {}
    /\ Instances \subseteq SUBSET Requests /\ Polling \in BOOLEAN
    /\ None \notin Requests /\ None \notin Scope
    /\ {MaxReaders, MaxQueue, MaxPending, MaxBuffered, MaxNotes, MaxStrays} \subseteq Nat
    /\ MaxPolls \in Nat \ {0}

VARIABLES
    conn,     \* conn[c]: the connection of client c
    offer,    \* requests a client may still send
    work,     \* work[r]: the reader of page or section r: its call, and the race of its answer
    readers,  \* activePageReaders, activeSectionReaders
    poll,     \* poll[r]: the poll for the saved turn of r, and its attempts
    same,     \* the owner's socket is the one that was prepared
    owner,    \* the owner: requests received, answered, turns saved, how far a turn has been told
    strays,   \* stray notifications sent
    answers,  \* history: answers[r]: what was answered
    told      \* history: told[c]: the notifications client c was sent

gateVars == <<conn, offer, work, readers, poll, same, owner, strays, answers, told>>

Read == {"page", "section"}
Connection == [link : {"idle", "open", "gone"}, up : BOOLEAN, queue : Seq(Requests),
               pending : SUBSET Requests, pages : SUBSET Requests,
               scope : Scope \cup {None}]
Answers == {"data", "error", "denied"}

Idle == [link |-> "idle", up |-> FALSE, queue |-> <<>>, pending |-> {}, pages |-> {},
         scope |-> None]

GateTypeOK ==
    /\ conn \in [Clients \cup StateClients -> Connection]
    /\ \A c \in Clients : conn[c].scope # None => Len(conn[c].scope.buffered) <= MaxBuffered
    /\ offer \subseteq Requests
    /\ work \in [Requests -> [call : {"none", "running", "ended"}, race : {"open", "decided"}]]
    /\ readers \in [Read -> Nat]
    /\ poll \in [TurnRequests -> [phase : {"off", "reading", "resting"}, tries : 0..MaxPolls]]
    /\ same \in BOOLEAN
    /\ owner \in [got : SUBSET Requests, answered : SUBSET Requests, saved : SUBSET TurnRequests,
                  stage : [TurnRequests -> 0..3]]
    /\ strays \in 0..MaxStrays
    /\ answers \in [Requests -> Seq(Answers)]
    /\ told \in [Clients -> Seq(Note)]

GateInit ==
    /\ conn = [c \in Clients \cup StateClients |-> Idle]
    /\ offer \in Instances
    /\ work = [r \in Requests |-> [call |-> "none", race |-> "decided"]]
    /\ readers = [kind \in Read |-> 0]
    /\ poll = [r \in TurnRequests |-> [phase |-> "off", tries |-> 0]]
    /\ same = TRUE
    /\ owner = [got |-> {}, answered |-> {}, saved |-> {}, stage |-> [r \in TurnRequests |-> 0]]
    /\ strays = 0
    /\ answers = [r \in Requests |-> <<>>]
    /\ told = [c \in Clients |-> <<>>]

-----------------------------------------------------------------------------
(* Connections *)

\* terminate, and the close handler: the scope goes, the owner's socket is closed.
Gone(k) == [Idle EXCEPT !.link = "gone"]

IsOpen(c) == conn[c].link = "open"
Sets(c, k) == conn' = [conn EXCEPT ![c] = k]
Answer(r, a) == answers' = [answers EXCEPT ![r] = Append(@, a)]
Holds(k, id) == \E q \in k.pending \cup k.pages : Asked[q].id = id

\* owner.send writes if the handshake is done and the socket is still the prepared one.
Reachable(k) == k.up /\ same

\* A request goes to the owner at once, or waits behind others until the owner is connected.
Forward(c, k, r) ==
    IF k.queue = <<>> /\ Reachable(k)
    THEN Sets(c, k) /\ owner' = [owner EXCEPT !.got = @ \cup {r}]
    ELSE /\ Sets(c, IF k.queue # <<>> /\ Len(k.queue) >= MaxQueue THEN Gone(k)
                    ELSE [k EXCEPT !.queue = Append(@, r)])
         /\ UNCHANGED owner

\* Bound: a client that has nothing to ask does not connect.
Connect(c) ==
    /\ conn[c].link = "idle" /\ \E r \in offer : Asked[r].client = c
    /\ Sets(c, IF same THEN [Idle EXCEPT !.link = "open"] ELSE Gone(Idle))
    /\ UNCHANGED <<offer, work, readers, poll, same, owner, strays, answers, told>>

\* The handshake is done; ready's continuation sends what was queued.
OwnerReady(c) ==
    /\ IsOpen(c) /\ ~conn[c].up
    /\ IF same
       THEN /\ Sets(c, [conn[c] EXCEPT !.up = TRUE, !.queue = <<>>])
            /\ owner' = [owner EXCEPT !.got = @ \cup {conn[c].queue[i] : i \in DOMAIN conn[c].queue}]
       ELSE Sets(c, Gone(conn[c])) /\ UNCHANGED owner
    /\ UNCHANGED <<offer, work, readers, poll, same, strays, answers, told>>

\* The client leaves, the handshake fails or takes too long, the owner hangs up, the gate closes.
Disconnect(c) ==
    /\ IsOpen(c) /\ Sets(c, Gone(conn[c]))
    /\ UNCHANGED <<offer, work, readers, poll, same, owner, strays, answers, told>>

\* Another socket appears at the owner's path.
Replaced ==
    /\ same /\ same' = FALSE
    /\ UNCHANGED <<conn, offer, work, readers, poll, owner, strays, answers, told>>

-----------------------------------------------------------------------------
(* Requests of a client *)

\* The methods that pass when their parameters have the allowed shape, from which they are
\* rebuilt: reads of the owner, pages and sections of a thread, a turn of the pinned thread.
SafeApp(r) == Asked[r].kind \in {"account", "read", "metadata"} /\ Asked[r].safe
SafePage(r) == Asked[r].kind \in Read /\ Asked[r].safe
SafeTurn(r) == Asked[r].kind = "turn" /\ Asked[r].safe

\* Anything else is refused, and so is a turn while the client has one.
Refused(c, r) == ~(SafeApp(r) \/ SafePage(r) \/ (SafeTurn(r) /\ conn[c].scope = None))

Denied(c, r) ==
    /\ Refused(c, r) /\ Answer(r, "denied")
    /\ UNCHANGED <<conn, work, readers, owner>>

\* Too many requests, or an id that still waits for its answer.
Misused(c, r) == \/ Cardinality(conn[c].pending \cup conn[c].pages) >= MaxPending
                 \/ Holds(conn[c], Asked[r].id)

Page(c, r) ==
    IF readers[Asked[r].kind] >= MaxReaders
    THEN Answer(r, "error") /\ UNCHANGED <<conn, work, readers>>
    ELSE /\ Sets(c, [conn[c] EXCEPT !.pages = @ \cup {r}])
         /\ readers' = [readers EXCEPT ![Asked[r].kind] = @ + 1]
         /\ work' = [work EXCEPT ![r] = [call |-> "running", race |-> "open"]]
         /\ UNCHANGED answers

NewScope(r) == [by |-> r, turn |-> None, buffered |-> <<>>, count |-> 0]

Passed(c, r) ==
    /\ Forward(c, [conn[c] EXCEPT !.pending = @ \cup {r},
                                  !.scope = IF Asked[r].kind = "turn" THEN NewScope(r) ELSE @], r)
    /\ UNCHANGED <<work, readers, answers>>

ClientSends(c, r) ==
    /\ IsOpen(c) /\ r \in offer /\ Asked[r].client = c
    /\ offer' = offer \ {r}
    /\ \/ /\ Asked[r].kind = "initialized"
          /\ Forward(c, conn[c], r) /\ UNCHANGED <<work, readers, answers>>
       \/ /\ Asked[r].kind # "initialized"
          /\ \/ Denied(c, r)
             \/ /\ ~Refused(c, r) /\ Misused(c, r)
                /\ Sets(c, Gone(conn[c])) /\ UNCHANGED <<work, readers, owner, answers>>
             \/ /\ ~Refused(c, r) /\ ~Misused(c, r)
                /\ IF SafePage(r) THEN Page(c, r) /\ UNCHANGED owner ELSE Passed(c, r)
    /\ UNCHANGED <<poll, same, strays, told>>

-----------------------------------------------------------------------------
(* Pages: the reader's call and the race of its answer with the deadline *)

RaceDecided(r, a) ==
    /\ Sets(Asked[r].client, [conn[Asked[r].client] EXCEPT !.pages = @ \ {r}])
    /\ IF IsOpen(Asked[r].client) THEN Answer(r, a) ELSE UNCHANGED answers

\* A page passes as it is, if it has no credential field, nothing unexpected and a bounded
\* size; a section is rebuilt from the fields that are known.
PageAnswer(body) == IF body = "clean" THEN "data" ELSE "error"
SectionAnswer(body) == IF body = "bad" THEN "error" ELSE "data"

PlaceFreed(r) == readers' = [readers EXCEPT ![Asked[r].kind] = @ - 1]

\* The reader ends: its place is free; what it read is sent if the race is open.
ReaderEnds(r, body) ==
    /\ work[r].call = "running"
    /\ PlaceFreed(r)
    /\ work' = [work EXCEPT ![r] = [call |-> "ended", race |-> "decided"]]
    /\ IF work[r].race = "open"
       THEN RaceDecided(r, IF Asked[r].kind = "page" THEN PageAnswer(body) ELSE SectionAnswer(body))
       ELSE UNCHANGED <<conn, answers>>
    /\ UNCHANGED <<offer, poll, same, owner, strays, told>>

\* A mutant: a late reader gives up its place with its answer.
PageDeadlineFrees(r) ==
    /\ work[r].race = "open"
    /\ work' = [work EXCEPT ![r].race = "decided"]
    /\ RaceDecided(r, "error") /\ PlaceFreed(r)
    /\ UNCHANGED <<offer, poll, same, owner, strays, told>>

\* The deadline: the client is answered, the reader keeps its place.
PageDeadline(r) ==
    /\ work[r].race = "open"
    /\ work' = [work EXCEPT ![r].race = "decided"]
    /\ RaceDecided(r, "error")
    /\ UNCHANGED <<offer, readers, poll, same, owner, strays, told>>

-----------------------------------------------------------------------------
(* What the owner says *)

Tell(c, notes) == told' = [told EXCEPT ![c] = @ \o notes]
IsFor(turn, n) == n.turn = turn /\ n.clean
Ends(notes) == \E i \in DOMAIN notes : notes[i].what = "completed"
Started(r) == [turn |-> r, what |-> "started", clean |-> TRUE]

\* A notification: dropped, kept until the turn is known, or passed on.
Noted(c, n) ==
    LET k == conn[c] s == k.scope IN
    IF s = None \/ ~n.clean THEN UNCHANGED <<conn, told>>
    ELSE IF s.turn = None
    THEN /\ Sets(c, IF Len(s.buffered) >= MaxBuffered THEN k
                    ELSE [k EXCEPT !.scope.buffered = Append(@, n)])
         /\ UNCHANGED told
    ELSE IF ~IsFor(s.turn, n) THEN UNCHANGED <<conn, told>>
    ELSE IF s.count + 1 > MaxNotes THEN Sets(c, Gone(k)) /\ UNCHANGED told
    ELSE /\ Sets(c, [k EXCEPT !.scope = IF n.what = "completed" THEN None
                                        ELSE [s EXCEPT !.count = @ + 1]])
         /\ Tell(c, <<n>>)

\* The notifications that are about the turn, in their order.
About(r, notes) ==
    LET f[i \in 0 .. Len(notes)] ==
            IF i = 0 THEN <<>>
            ELSE IF IsFor(r, notes[i]) THEN Append(f[i - 1], notes[i]) ELSE f[i - 1]
    IN f[Len(notes)]

\* The turn is known: the kept notifications about it are sent, the poll starts.
TurnKnown(c, k, r) ==
    LET s == k.scope
        notes == About(r, s.buffered)
        count == s.count + Len(notes)
        polls == Polling /\ ~Ends(notes)
    IN IF count > MaxNotes
       THEN Sets(c, Gone(k)) /\ Tell(c, SubSeq(notes, 1, MaxNotes - s.count)) /\ UNCHANGED poll
       ELSE /\ Sets(c, [k EXCEPT !.scope = IF Ends(notes) THEN None
                          ELSE [s EXCEPT !.turn = r, !.buffered = <<>>, !.count = count]])
            /\ Tell(c, IF polls /\ count = 0 THEN <<Started(r)>> ELSE notes)
            /\ poll' = IF polls THEN [poll EXCEPT ![r] = [phase |-> "reading", tries |-> 1]]
                       ELSE poll

\* The answer to a turn: one with a turn in it opens its scope, any other ends it.
TurnAnswered(c, k, r, body) ==
    /\ Answer(r, IF body = "result" THEN "data" ELSE "error")
    /\ IF body = "result" /\ k.scope # None /\ k.scope.by = r THEN TurnKnown(c, k, r)
       ELSE Sets(c, [k EXCEPT !.scope = None]) /\ UNCHANGED <<told, poll>>

\* appResponse: an error hides what the owner said of it, an account is cut down to what is
\* not secret, metadata is rebuilt or refused; anything else passes only without credentials.
Projected(kind, body) ==
    IF body = "error" \/ (body = "odd" /\ kind = "metadata") THEN "error" ELSE "data"

\* containsCredentialField: but for the two methods that are cut down, such an answer ends
\* the client.
Withheld(kind, body) == body = "secret" /\ kind # "account"

Responded(c, r, body) ==
    LET k == [conn[c] EXCEPT !.pending = @ \ {r}] IN
    IF Withheld(Asked[r].kind, body)
    THEN Sets(c, Gone(k)) /\ UNCHANGED <<answers, told, poll>>
    ELSE IF Asked[r].kind = "turn" THEN TurnAnswered(c, k, r, body)
    ELSE Sets(c, k) /\ Answer(r, Projected(Asked[r].kind, body)) /\ UNCHANGED <<told, poll>>

Unheard(c) == ~same /\ Sets(c, Gone(conn[c])) /\ UNCHANGED <<answers, told, poll>>

\* The owner answers a request, in any order; a frame from a replaced socket ends the client.
OwnerAnswers(c, r, body) ==
    /\ IsOpen(c) /\ conn[c].up /\ r \in (owner.got \cap conn[c].pending) \ owner.answered
    /\ owner' = [owner EXCEPT !.answered = @ \cup {r}]
    /\ Unheard(c) \/ (same /\ Responded(c, r, body))
    /\ UNCHANGED <<offer, work, readers, same, strays>>

\* The owner runs a turn and says so, before or after its answer.
OwnerNotes(c, r) ==
    /\ IsOpen(c) /\ conn[c].up /\ r \in owner.got /\ Asked[r].client = c /\ owner.stage[r] < 3
    /\ LET what == <<"started", "item", "completed">>[owner.stage[r] + 1] IN
       /\ what = "completed" => r \in owner.saved
       /\ Unheard(c) \/ (same /\ Noted(c, [turn |-> r, what |-> what, clean |-> TRUE])
                              /\ UNCHANGED <<answers, poll>>)
    /\ owner' = [owner EXCEPT !.stage[r] = @ + 1]
    /\ UNCHANGED <<offer, work, readers, same, strays>>

\* A notification about another turn of the thread, about another thread, or with a secret.
OwnerStrays(c, n) ==
    /\ IsOpen(c) /\ conn[c].up /\ same /\ strays < MaxStrays
    /\ n.turn = None \/ ~n.clean
    /\ strays' = strays + 1
    /\ Noted(c, n)
    /\ UNCHANGED <<offer, work, readers, poll, same, owner, answers>>

TurnSaved(r) ==
    /\ r \in owner.got \ owner.saved
    /\ owner' = [owner EXCEPT !.saved = @ \cup {r}]
    /\ UNCHANGED <<conn, offer, work, readers, poll, same, strays, answers, told>>

-----------------------------------------------------------------------------
(* pollSavedFixtureTurn *)

InScope(r) == LET s == conn[Asked[r].client].scope IN s # None /\ s.by = r
PollEnds(r) == poll' = [poll EXCEPT ![r].phase = "off"]

\* A mutant: the scope is not looked at again after the page was read.
PollAnsweredStale(r, seen, item) ==
    LET c == Asked[r].client IN
    /\ poll[r].phase = "reading" /\ (seen => r \in owner.saved)
    /\ IF seen /\ IsOpen(c)
       THEN /\ Sets(c, [conn[c] EXCEPT !.scope = None]) /\ PollEnds(r)
            /\ Tell(c, <<[turn |-> r, what |-> "completed", clean |-> TRUE]>>)
       ELSE poll' = [poll EXCEPT ![r].phase = "resting"] /\ UNCHANGED <<conn, told>>
    /\ UNCHANGED <<offer, work, readers, same, owner, strays, answers>>

\* The page arrives: a finished turn is told if its scope still is the client's; anything
\* else, a failed read included, is tried again.
PollAnswered(r, seen, item) ==
    LET c == Asked[r].client
        end == <<[turn |-> r, what |-> "completed", clean |-> TRUE]>>
        text == <<[turn |-> r, what |-> "item", clean |-> TRUE]>>
    IN
    /\ poll[r].phase = "reading" /\ (seen => r \in owner.saved)
    /\ IF seen /\ InScope(r)
       THEN /\ Tell(c, IF item THEN text \o end ELSE end)
            /\ Sets(c, [conn[c] EXCEPT !.scope = None]) /\ PollEnds(r)
       ELSE poll' = [poll EXCEPT ![r].phase = "resting"] /\ UNCHANGED <<conn, told>>
    /\ UNCHANGED <<offer, work, readers, same, owner, strays, answers>>

\* The item is sent before the end is measured: an end that is too large is not sent, and the
\* turn is read again.
PollTooLarge(r) ==
    /\ poll[r].phase = "reading" /\ r \in owner.saved /\ InScope(r)
    /\ Tell(Asked[r].client, <<[turn |-> r, what |-> "item", clean |-> TRUE]>>)
    /\ poll' = [poll EXCEPT ![r].phase = "resting"]
    /\ UNCHANGED <<conn, offer, work, readers, same, owner, strays, answers>>

\* The pause is over: another attempt, unless the scope went, the attempts or the time are used up.
PollAgain(r) ==
    /\ poll[r].phase = "resting"
    /\ \/ /\ InScope(r) /\ poll[r].tries < MaxPolls
          /\ poll' = [poll EXCEPT ![r] = [phase |-> "reading", tries |-> @.tries + 1]]
       \/ PollEnds(r)
    /\ UNCHANGED <<conn, offer, work, readers, same, owner, strays, answers, told>>

-----------------------------------------------------------------------------
(* The state socket *)

\* hello, snapshot and the keys of the sidebar pass; the id is looked at first.
StateSends(c, r) ==
    LET k == conn[c] IN
    /\ IsOpen(c) /\ r \in offer /\ Asked[r].client = c /\ offer' = offer \ {r}
    /\ \/ /\ Holds(k, Asked[r].id) /\ Sets(c, Gone(k)) /\ UNCHANGED <<owner, answers>>
       \/ /\ ~Holds(k, Asked[r].id) /\ ~Asked[r].safe
          /\ Answer(r, "denied") /\ UNCHANGED <<conn, owner>>
       \/ /\ ~Holds(k, Asked[r].id) /\ Asked[r].safe /\ UNCHANGED answers
          /\ IF k.up
             THEN IF same THEN /\ Sets(c, [k EXCEPT !.pending = @ \cup {r}])
                               /\ owner' = [owner EXCEPT !.got = @ \cup {r}]
                  ELSE Sets(c, Gone(k)) /\ UNCHANGED owner
             ELSE /\ Sets(c, IF Len(k.queue) >= MaxQueue THEN Gone(k)
                             ELSE [k EXCEPT !.queue = Append(@, r), !.pending = @ \cup {r}])
                  /\ UNCHANGED owner
    /\ UNCHANGED <<work, readers, poll, same, strays, told>>

\* A snapshot is cut down to the sidebar, a hello to the owner's identity, which must be there.
StateAnswers(c, r, body) ==
    LET k == [conn[c] EXCEPT !.pending = @ \ {r}] IN
    /\ IsOpen(c) /\ conn[c].up /\ r \in (owner.got \cap conn[c].pending) \ owner.answered
    /\ owner' = [owner EXCEPT !.answered = @ \cup {r}]
    /\ IF ~same \/ (body = "odd" /\ Asked[r].kind \in {"hello", "snapshot"})
       THEN Sets(c, Gone(k)) /\ UNCHANGED answers
       ELSE Sets(c, k) /\ Answer(r, IF body = "error" THEN "error" ELSE "data")
    /\ UNCHANGED <<offer, work, readers, poll, same, strays, told>>
=============================================================================
