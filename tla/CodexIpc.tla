------------------------------- MODULE CodexIpc -------------------------------
(***************************************************************************)
(* The scoped IPC gate (src/src/codex-ipc-gate.ts) in front of the authority  *)
(* gate.  A link joins one IPC client to the owner: it lets the client follow *)
(* one thread and, once in the life of the gate, have one text put to it as a  *)
(* turn.  That text goes through the authority gate as the only two requests  *)
(* of a client of its own, submitFixtureTextThroughGate.                      *)
(***************************************************************************)
EXTENDS CodexGate

CONSTANTS
    Links,        \* IPC connections
    Peers,        \* client ids of the owner's side
    Frames,       \* frames the IPC clients send, each at most once
    FrameSets,    \* the sets of frames one of which is on offer beside a text
    Framed,       \* Framed[f]: its link, kind, and for a text the peer it is addressed to
    Submitter,    \* the client of submitFixtureTextThroughGate
    SubmitHello,  \* its initialize
    SubmitTurn    \* its turn

IpcKinds == {"initialize", "follow", "text", "other"}

ASSUME IpcAssumption ==
    /\ Framed \in [Frames -> [link : Links, kind : IpcKinds, to : Peers \cup {None}]]
    /\ FrameSets \subseteq SUBSET Frames
    /\ Submitter \in Clients /\ {SubmitHello, SubmitTurn} \subseteq Requests
    /\ Asked[SubmitHello].client = Submitter /\ Asked[SubmitTurn].client = Submitter
    /\ Asked[SubmitTurn].kind = "turn" /\ None \notin Links \cup Peers

VARIABLES
    ipc,       \* ipc[l]: the link
    unsent,    \* frames not sent yet
    textUsed,  \* textTurnUsed, one for all links
    submit,    \* submitFixtureTextThroughGate
    submitted, \* history: texts handed to submitFixtureText
    passed     \* history: frames of clients the owner's side was given, with what was known then

allVars == <<gateVars, ipc, unsent, textUsed, submit, submitted, passed>>
ipcVars == <<ipc, unsent, textUsed, submit, submitted, passed>>

\* early: frames read before the owner's side is connected; client: what is known of the
\* client id; peer: ownerClientId; text: the answer of a text turn.
Link == [link : {"idle", "early", "open", "gone"}, early : Seq(Frames),
         client : {"unknown", "asked", "known"}, peer : Peers \cup {None},
         text : {"none", "pending", "success", "error"}]

NoLink == [link |-> "idle", early |-> <<>>, client |-> "unknown", peer |-> None, text |-> "none"]
GoneLink(k) == [k EXCEPT !.link = "gone", !.early = <<>>]

IpcTypeOK ==
    /\ GateTypeOK
    /\ ipc \in [Links -> Link] /\ unsent \subseteq Frames /\ textUsed \in BOOLEAN
    /\ submit \in [phase : {"off", "opening", "hello", "turn", "done"}, for : Links \cup {None}]
    /\ submitted \in [Links -> Nat]
    /\ passed \subseteq [frame : Frames, client : {"unknown", "asked", "known"}, peer : Peers \cup {None}]

IpcInit ==
    /\ GateInit
    /\ ipc = [l \in Links |-> NoLink] /\ textUsed = FALSE
    /\ unsent \in IF SubmitTurn \in offer THEN FrameSets ELSE {{}}
    /\ submit = [phase |-> "off", for |-> None]
    /\ submitted = [l \in Links |-> 0] /\ passed = {}

Saw(f, k) == [frame |-> f, client |-> k.client, peer |-> k.peer]

-----------------------------------------------------------------------------
(* handleClientMessage, as an operator from the record of a link to its next record *)

IsInitialize(f, k) == Framed[f].kind = "initialize" /\ k.client = "unknown"
IsFollow(f, k) == Framed[f].kind = "follow" /\ k.client = "known"
\* A mutant: one text for each link.
IsTextPerLink(f, k, used) ==
    /\ Framed[f].kind = "text" /\ k.text = "none" /\ k.client = "known"
    /\ k.peer # None /\ Framed[f].to = k.peer
IsText(f, k, used) ==
    /\ Framed[f].kind = "text" /\ ~used /\ k.text # "pending" /\ k.client = "known"
    /\ k.peer # None /\ Framed[f].to = k.peer

\* What a frame changes on its link; a request that is none of these is answered "denied".
Handled(f, k, used) ==
    IF IsInitialize(f, k) THEN [k EXCEPT !.client = "asked"]
    ELSE IF IsText(f, k, used) THEN [k EXCEPT !.text = "pending"]
    ELSE k

Goes(f, k, used) == IsInitialize(f, k) \/ IsFollow(f, k) \/ IsText(f, k, used)

-----------------------------------------------------------------------------
(* Links *)

\* Bound: a link that has nothing to send does not connect.
LinkConnects(l) ==
    /\ ipc[l].link = "idle" /\ \E f \in unsent : Framed[f].link = l
    /\ ipc' = [ipc EXCEPT ![l].link = "early"]
    /\ UNCHANGED <<gateVars, unsent, textUsed, submit, submitted, passed>>

\* What a text starts: the flag goes up before the submission begins.
Submits(l, texts) ==
    IF texts = {} THEN UNCHANGED <<textUsed, submit, submitted>>
    ELSE /\ textUsed' = TRUE
         /\ submit' = IF submit.phase = "off" THEN [phase |-> "opening", for |-> l] ELSE submit
         /\ submitted' = [submitted EXCEPT ![l] = @ + 1]

ClientFrame(f) ==
    LET l == Framed[f].link k == ipc[l] IN
    /\ f \in unsent /\ k.link \in {"early", "open"} /\ unsent' = unsent \ {f}
    /\ IF k.link = "early"
       THEN /\ ipc' = [ipc EXCEPT ![l].early = Append(@, f)]
            /\ UNCHANGED <<textUsed, submit, submitted, passed>>
       ELSE /\ ipc' = [ipc EXCEPT ![l] = Handled(f, k, textUsed)]
            /\ Submits(l, IF IsText(f, k, textUsed) THEN {f} ELSE {})
            /\ passed' = IF Goes(f, k, textUsed) THEN passed \cup {Saw(f, k)} ELSE passed
    /\ UNCHANGED gateVars

\* The owner's side is connected and still the socket it was; the early frames are handled
\* in their order. None of them can be more than an initialize: the client id is unknown.
LinkOpens(l) ==
    LET k == ipc[l]
        Initializes(i) == Framed[k.early[i]].kind = "initialize"
        firsts == {i \in DOMAIN k.early : Initializes(i) /\ \A j \in 1 .. i - 1 : ~Initializes(j)}
    IN
    /\ k.link = "early"
    /\ ipc' = [ipc EXCEPT ![l] = [k EXCEPT !.link = "open", !.early = <<>>,
                                            !.client = IF firsts = {} THEN @ ELSE "asked"]]
    /\ passed' = passed \cup {Saw(k.early[i], k) : i \in firsts}
    /\ UNCHANGED <<gateVars, unsent, textUsed, submit, submitted>>

\* Either end closes, the owner's side is another socket, a buffer is full, or the gate closes.
LinkDrops(l) ==
    /\ ipc[l].link \in {"early", "open"} /\ ipc' = [ipc EXCEPT ![l] = GoneLink(@)]
    /\ UNCHANGED <<gateVars, unsent, textUsed, submit, submitted, passed>>

\* The owner's side answers the initialize.
Initialized(l, ok) ==
    /\ ipc[l].link = "open" /\ ipc[l].client = "asked"
    /\ ipc' = [ipc EXCEPT ![l] = IF ok THEN [@ EXCEPT !.client = "known"] ELSE GoneLink(@)]
    /\ UNCHANGED <<gateVars, unsent, textUsed, submit, submitted, passed>>

\* A snapshot of the thread says who on the owner's side holds it now.
SnapshotFrom(l, p) ==
    /\ ipc[l].link = "open" /\ ipc[l].peer # p
    /\ ipc' = [ipc EXCEPT ![l].peer = p]
    /\ UNCHANGED <<gateVars, unsent, textUsed, submit, submitted, passed>>

-----------------------------------------------------------------------------
(* submitFixtureTextThroughGate *)

\* Its promise settles: the link is told if it still is there and waits.
Settled(outcome) ==
    /\ submit' = [submit EXCEPT !.phase = "done"]
    /\ ipc' = IF ipc[submit.for].link = "open" /\ ipc[submit.for].text = "pending"
              THEN [ipc EXCEPT ![submit.for].text = outcome] ELSE ipc
    /\ UNCHANGED <<unsent, textUsed, submitted, passed>>

Moves(phase) == /\ submit' = [submit EXCEPT !.phase = phase]
                /\ UNCHANGED <<ipc, unsent, textUsed, submitted, passed>>

SubmitOpens == submit.phase = "opening" /\ Connect(Submitter) /\ Moves("hello")
SubmitsHello ==
    /\ submit.phase = "hello" /\ SubmitHello \in offer
    /\ ClientSends(Submitter, SubmitHello) /\ UNCHANGED ipcVars
\* (The "initialized" it sends in between changes nothing at the gate.)
SubmitsTurn ==
    /\ submit.phase = "hello" /\ answers[SubmitHello] = <<"data">>
    /\ ClientSends(Submitter, SubmitTurn) /\ Moves("turn")

\* The turn is answered, in a status that counts as under way, and the client is closed.
SubmitAnswered(ok) ==
    /\ submit.phase = "turn" /\ IsOpen(Submitter) /\ answers[SubmitTurn] # <<>>
    /\ Disconnect(Submitter)
    /\ Settled(IF answers[SubmitTurn] = <<"data">> /\ ok THEN "success" ELSE "error")

\* A call was refused or timed out, or the gate hung up; the turn may be running.
SubmitFails ==
    /\ submit.phase \in {"hello", "turn"}
    /\ IF IsOpen(Submitter) THEN Disconnect(Submitter) ELSE UNCHANGED gateVars
    /\ Settled("error")

-----------------------------------------------------------------------------
\* Bound: the submitter reads no notifications, so the owner is silent about its turn.
GateStep ==
    \/ \E c \in Clients \ {Submitter} : \/ Connect(c) \/ \E r \in Requests : ClientSends(c, r)
                                        \/ \E r \in TurnRequests : OwnerNotes(c, r)
                                        \/ \E n \in Note : OwnerStrays(c, n)
    \/ \E c \in Clients : \/ OwnerReady(c) \/ Disconnect(c)
                          \/ \E r \in Requests : OwnerAnswers(c, r, "secret")
                                                 \/ OwnerAnswers(c, r, "error")
                                                 \/ OwnerAnswers(c, r, "odd")
                                                 \/ OwnerAnswers(c, r, "result")
    \/ \E c \in StateClients : \/ Connect(c) \/ OwnerReady(c) \/ Disconnect(c)
                               \/ \E r \in Requests : \/ StateSends(c, r)
                                     \/ \E b \in {"error", "odd", "result"} : StateAnswers(c, r, b)
    \/ \E r \in Requests : \/ PageDeadline(r) \/ \E body \in {"clean", "extra", "bad"} : ReaderEnds(r, body)
    \/ \E r \in TurnRequests \ {SubmitTurn} : \/ TurnSaved(r) \/ PollAgain(r) \/ PollTooLarge(r)
                               \/ \E seen, item \in BOOLEAN : PollAnswered(r, seen, item)
    \/ Replaced

IpcStep ==
    \/ \E l \in Links : \/ LinkConnects(l) \/ LinkOpens(l) \/ LinkDrops(l)
                        \/ \E ok \in BOOLEAN : Initialized(l, ok)
                        \/ \E p \in Peers : SnapshotFrom(l, p)
    \/ \E f \in Frames : ClientFrame(f)
    \/ SubmitOpens \/ SubmitsHello \/ SubmitsTurn \/ SubmitFails
    \/ \E ok \in BOOLEAN : SubmitAnswered(ok)

IpcNext == (GateStep /\ UNCHANGED ipcVars) \/ IpcStep

IpcSpec == IpcInit /\ [][IpcNext]_allVars

-----------------------------------------------------------------------------
(* Properties *)

\* A client is told of turns it started itself, of the pinned thread, after their answer,
\* and of the end of a turn once, as the last thing about it: whether the owner's push or
\* the poll of the saved turn comes first. A turn that waits for its answer is the one turn
\* of its client (fixtureNotification, pollSavedFixtureTurn).
NotesBelong ==
    /\ IpcTypeOK
    /\ \A c \in Clients : \A i \in DOMAIN told[c] :
        LET n == told[c][i] IN
        /\ n.clean /\ n.turn # None /\ Asked[n.turn].client = c
        /\ answers[n.turn] = <<"data">>
        /\ n.what = "completed" => \A j \in DOMAIN told[c] : j > i => told[c][j].turn # n.turn
    /\ \A c \in Clients : \A r \in TurnRequests :
        r \in conn[c].pending => conn[c].scope # None /\ conn[c].scope.by = r

\* No request is answered twice, although an answer races its deadline, a reader comes late
\* and an id is used again; no more readers run than may, those without a client included,
\* and the counts of them are true (activePageReaders).
AnsweredOnce ==
    /\ \A r \in Requests : Len(answers[r]) <= 1
    /\ \A kind \in Read :
          /\ readers[kind] = Cardinality({r \in Requests : Asked[r].kind = kind
                                                          /\ work[r].call = "running"})
          /\ readers[kind] <= MaxReaders

\* All links together put one text to the owner, addressed to the peer that held the thread
\* by the last snapshot, after the client was known; a link hears of success only for a
\* turn the owner accepted (textTurnUsed, pendingTextTurnId).
TextOnce ==
    /\ \A l, m \in Links : submitted[l] + (IF l = m THEN 0 ELSE submitted[m]) <= 1
    /\ \A p \in passed : CASE Framed[p.frame].kind = "initialize" -> p.client = "unknown"
                           [] Framed[p.frame].kind = "follow" -> p.client = "known"
                           [] Framed[p.frame].kind = "text" ->
                                 p.client = "known" /\ p.peer # None /\ p.peer = Framed[p.frame].to
                           [] OTHER -> FALSE
    /\ \A l \in Links : ipc[l].text = "success" =>
          /\ l = submit.for /\ answers[SubmitTurn] = <<"data">> /\ SubmitTurn \in owner.answered
=============================================================================
