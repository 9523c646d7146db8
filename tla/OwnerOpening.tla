---------------------------- MODULE OwnerOpening ----------------------------
(***************************************************************************)
(* Opening an application of the owner on a workspace nobody uses, and       *)
(* presenting a workspace on a monitor (native.open and native.present in    *)
(* session.ts; NativeBackend.openApplication and presentationRequest in      *)
(* hyprland.ts; native/owner_open.py with its evidence, placement and launch *)
(* helper).  Each runs in a worker of its own, one after the other, against  *)
(* a desktop the owner goes on using.                                        *)
(*                                                                         *)
(* The compositor serves one request after the other, also those whose asker *)
(* has given up; it, the applications and the owner are external.            *)
(***************************************************************************)
EXTENDS Integers, Sequences, FiniteSets

CONSTANTS Wins,         \* windows
          OldWin,       \* the window that is there before
          Nil,          \* nothing: no window, no process, no code
          Target,       \* the workspace of the opening
          Selections,   \* workspaces somebody asks to present on the side monitor
          Cases         \* what a behaviour may do: see OpeningInit

Launched == {"root", "child"}     \* the process of the receipt, and one below it
Procs    == Launched \cup {"server"}
Kinds    == {"open", "present"}
Results  == {"refused", "uncertain", "candidate", "opened", "forwarded"}
Spending == {"forks", "exits", "maps", "tokens", "closes", "focuses", "shows", "crossings",
             "calls", "refusals", "kills", "losses"}

ASSUME OpeningAssumption ==
    /\ OldWin \in Wins /\ Nil \notin Wins /\ Nil \notin Nat
    /\ Nil \notin Procs \cup Kinds \cup Results \cup {"running", "lost"}
    /\ Target \in Nat \ {0} /\ Selections \subseteq Nat \ {0}
    /\ Cases \subseteq [plugin : BOOLEAN, lua : BOOLEAN, bus : BOOLEAN, may : [Spending -> Nat]]

VARIABLES desk,     \* the compositor, its windows and the processes behind them
          opening,  \* nativeOpens: what the broker keeps of the opening
          showing,  \* nativePresentations: what it keeps of the presentation
          creations,    \* creationTail
          job,      \* the worker that runs, and what it has sampled
          left      \* what the behaviour may still do

openingVars == <<desk, opening, showing, creations, job, left>>

Mapped(d)   == {w \in Wins : d.wins[w].proc # Nil}
Shown(d)    == {d.front, d.side}
Ours(d, w)  == d.wins[w].token \/ d.wins[w].proc \in Launched

----------------------------------------------------------------------------
(* The compositor: what it answers and does *)

\* Mutant: the placement does not ask whether the owner is in the window.
PlaceableAnyway(d, w) == w \in Mapped(d)
\* place_new_window's guard runs in the compositor with the placement.
Placeable(d, w) == w \in Mapped(d) /\ d.focus # w

\* presentWorkspace, before anything changes.
NotReady(d, s) == s # d.side /\ (d.focusMon = "side" \/ s = d.front)

Reply(d, c) ==
    CASE c.cmd = "register" -> IF ~d.plugin THEN "unknown" ELSE IF d.ticket.on THEN "refused" ELSE "ok"
      [] c.cmd = "eval"     -> IF d.lua THEN "ok" ELSE "nolua"
      [] c.cmd = "place"    -> IF ~d.lua THEN "nolua" ELSE IF Placeable(d, c.win) THEN "ok" ELSE "refused"
      [] c.cmd = "present"  -> IF NotReady(d, c.sel) THEN "not-ready" ELSE "ok"
      [] OTHER              -> "ok"

Moved(d, w) == [d.wins[w] EXCEPT !.ws = Target, !.moved = @ + 1]
Hits(d, w)  == [win |-> w, focused |-> d.focus = w, ours |-> Ours(d, w)]
NoTicket == [on |-> FALSE, win |-> Nil, many |-> FALSE]
Applied(d, c) ==
    IF Reply(d, c) # "ok" THEN d ELSE
    CASE c.cmd = "register" -> [d EXCEPT !.ticket = [NoTicket EXCEPT !.on = TRUE]]
      [] c.cmd = "forget"   -> [d EXCEPT !.ticket = NoTicket]
      [] c.cmd \in {"eval", "exec"} -> [d EXCEPT !.helper = "started", !.starts = @ + 1]
      [] c.cmd = "place"    -> [d EXCEPT !.wins[c.win] = Moved(d, c.win), !.hits = @ \cup {Hits(d, c.win)}]
      [] c.cmd = "present"  -> IF d.side = c.sel THEN d ELSE [d EXCEPT !.side = c.sel, !.shows = @ + 1]
Served(d) ==
    LET f[i \in 0 .. Len(d.late)] == IF i = 0 THEN [d EXCEPT !.late = <<>>] ELSE Applied(f[i - 1], d.late[i])
    IN f[Len(d.late)]

LateServed ==
    /\ desk.late # <<>>
    /\ desk' = Served(desk)
    /\ UNCHANGED <<opening, showing, creations, job, left>>

\* A token is kept for ninety seconds.
TicketExpires ==
    /\ desk.ticket.on
    /\ desk' = [desk EXCEPT !.ticket = NoTicket]
    /\ UNCHANGED <<opening, showing, creations, job, left>>

----------------------------------------------------------------------------
(* The application and the owner *)

Spends(what) ==
    /\ left.may[what] > 0
    /\ left' = [may |-> [left.may EXCEPT ![what] = @ - 1], spoiled |-> left.spoiled \/ what \in {"losses", "kills"}]
Does(what, d) == Spends(what) /\ desk' = d /\ UNCHANGED <<opening, showing, creations, job>>

\* owner_open_helper: the receipt, then the application in its place.  A
\* specification that has expired starts nothing.
HelperRuns ==
    /\ desk.helper = "started"
    /\ \/ desk' = [desk EXCEPT !.helper = "ran", !.alive = @ \cup {"root"}]
       \/ desk' = [desk EXCEPT !.helper = "expired"]
    /\ UNCHANGED <<opening, showing, creations, job, left>>
ChildStarts == "root" \in desk.alive /\ "child" \notin desk.alive /\ Does("forks", [desk EXCEPT !.alive = @ \cup {"child"}])
RootExits   == "root" \in desk.alive /\ Does("exits", [desk EXCEPT !.alive = @ \ {"root"},
                    !.wins = [w \in Wins |-> IF desk.wins[w].proc = "root" THEN [desk.wins[w] EXCEPT !.proc = Nil] ELSE desk.wins[w]],
                    !.focus = IF desk.focus # Nil /\ desk.wins[desk.focus].proc = "root" THEN Nil ELSE desk.focus])

\* A window appears, for whatever reason; the rules of the launch put those of
\* its own processes on the workspace.
Mapping(w, p) == [desk.wins[w] EXCEPT !.seen = TRUE, !.proc = p, !.ws = IF p \in Launched THEN Target ELSE desk.front]
Maps == \E w \in Wins \ {OldWin}, p \in desk.alive :
    ~desk.wins[w].seen /\ Does("maps", [desk EXCEPT !.wins[w] = Mapping(w, p)])
\* xdg_activation with the token of the launch, by a process that was given it.
Noted(t, w) == IF ~t.on THEN t ELSE IF t.win \notin {Nil, w} THEN [t EXCEPT !.many = TRUE] ELSE [t EXCEPT !.win = w]
Activates == \E w \in Mapped(desk) :
    /\ desk.helper = "ran" /\ desk.plugin
    /\ Does("tokens", [desk EXCEPT !.wins[w].token = TRUE, !.ticket = Noted(desk.ticket, w)])
Closes == \E w \in Mapped(desk) :
    Does("closes", [desk EXCEPT !.wins[w].proc = Nil, !.focus = IF @ = w THEN Nil ELSE @])
Focuses == \E w \in Mapped(desk) : w # desk.focus /\ Does("focuses", [desk EXCEPT !.focus = w])
OwnerShows == \E s \in Selections \cup {Target} :
    s \notin Shown(desk) /\ Does("shows", [desk EXCEPT !.front = s])
OwnerCrosses == Does("crossings", [desk EXCEPT !.focusMon = IF @ = "side" THEN "front" ELSE "side"])

----------------------------------------------------------------------------
(* The broker *)

NoJob == [kind |-> Nil, step |-> "idle", attempted |-> FALSE, ticket |-> FALSE, base |-> {}, before |-> {},
          focus |-> Nil, tokens |-> {}, placed |-> {}, win |-> Nil, result |-> Nil]

Ask(what, q) == /\ Spends("calls")
                /\ creations' = IF q THEN Append(creations, what) ELSE creations
                /\ UNCHANGED <<desk, job>>

\* An identity that is known is answered with what is kept of it.
NativeOpen ==
    /\ Ask("open", opening.code = Nil)
    /\ opening' = IF opening.code = Nil THEN [opening EXCEPT !.code = "running"] ELSE opening
    /\ UNCHANGED showing
Present(s) ==
    LET again == showing.sel = Nil \/ (showing.sel = s /\ showing.run = "free") IN
    /\ Ask("present", again)
    /\ showing' = IF again THEN [sel |-> s, run |-> "running"] ELSE showing
    /\ UNCHANGED opening

\* What is kept of a presentation: a request that changed nothing is free.
Keeps(code) ==
    CASE code = "not-ready"               -> [showing EXCEPT !.run = "free"]
      [] code \in {"approval", "incompatible"} -> [sel |-> Nil, run |-> "none"]
      [] OTHER                            -> [showing EXCEPT !.run = code]

\* The worker answers, or it is gone, and the next request may start.
Ends(code, win) ==
    /\ job' = NoJob
    /\ IF job.kind = "open"
       THEN /\ opening' = IF code = "approval" THEN [opening EXCEPT !.code = Nil]
                          ELSE [code |-> code, win |-> win, base |-> job.base, before |-> job.before]
            /\ UNCHANGED showing
       ELSE showing' = Keeps(code) /\ UNCHANGED opening
    /\ UNCHANGED <<creations>>

\* Still admitted, ready and, for an opening, on a workspace nobody uses.
Starts ==
    /\ job.kind = Nil /\ creations # <<>>
    /\ creations' = Tail(creations)
    /\ job' = [NoJob EXCEPT !.kind = Head(creations), !.step = "ready"]
    /\ UNCHANGED <<desk, opening, showing, left>>
Ready ==
    /\ job.step = "ready"
    /\ \/ job' = [job EXCEPT !.step = "admit"] /\ UNCHANGED <<opening, showing, creations, left>>
       \/ /\ Spends("refusals")
          /\ Ends(IF job.kind = "open" THEN "refused" ELSE "not-ready", Nil)
    /\ UNCHANGED desk
\* ActionControl admits the operation or an approval is missing.
Admits ==
    /\ job.step = "admit"
    /\ \/ /\ job' = [job EXCEPT !.step = IF job.kind = "open" THEN "register" ELSE "build"]
          /\ UNCHANGED <<opening, showing, creations, left>>
       \/ /\ Spends("refusals")
          /\ Ends("approval", Nil)
    /\ UNCHANGED desk
\* The worker is killed, or does not answer in time.
Lost ==
    /\ job.kind # Nil /\ job.step # "ready" /\ Spends("kills")
    /\ Ends(IF job.kind = "open" THEN "lost" ELSE "unconfirmed", Nil)
    /\ UNCHANGED desk

----------------------------------------------------------------------------
(* The worker *)

\* How one exchange may end: served now, with an answer, or given up.
Answered(c) == desk' = Applied(Served(desk), c) /\ UNCHANGED left
GivenUp(c)  == desk' = [desk EXCEPT !.late = Append(@, c)] /\ Spends("losses")
AnswerTo(c) == Reply(Served(desk), c)
\* One that only reads: it sees Served(desk), or nothing.
Looks  == desk' = Served(desk) /\ UNCHANGED left
Misses == UNCHANGED desk /\ Spends("losses")

Goes(step) == job' = [job EXCEPT !.step = step]
\* The context manager forgets the token, whatever came out.
Leaves(result, win) == job' = [job EXCEPT !.step = IF job.ticket THEN "forget" ELSE "answer", !.result = result, !.win = win]
\* An error after the launch was attempted says that it is uncertain.
Trouble(j) == IF j.attempted THEN "uncertain" ELSE "refused"
Fails == Leaves(Trouble(job), Nil)
At(step) == job.kind = "open" /\ job.step = step /\ UNCHANGED <<opening, showing, creations>>

Registers ==
    LET c == [cmd |-> "register"] IN
    /\ At("register")
    /\ \/ /\ Answered(c)
          /\ job' = CASE AnswerTo(c) = "ok"      -> [job EXCEPT !.step = "inspect", !.ticket = TRUE]
                      [] AnswerTo(c) = "unknown" -> [job EXCEPT !.step = "inspect"]
                      [] OTHER                   -> [job EXCEPT !.step = "answer", !.result = "refused"]
       \/ GivenUp(c) /\ job' = [job EXCEPT !.step = "answer", !.result = "refused"]

\* The plugin takes no token while its admission is paused, or beside 64 others.
RegisterRefused ==
    /\ At("register") /\ desk.plugin /\ Spends("refusals")
    /\ desk' = Served(desk)
    /\ job' = [job EXCEPT !.step = "answer", !.result = "refused"]

\* The windows and processes that are there before.
Before(d) == {d.wins[w].proc : w \in Mapped(d)} \cup (IF d.bus THEN {"server"} ELSE {})
Inspects ==
    /\ At("inspect")
    /\ \/ Looks /\ job' = [job EXCEPT !.step = "guard", !.base = Mapped(Served(desk)), !.before = Before(Served(desk))]
       \/ Misses /\ Fails

\* The workspace is empty and not displayed, but for the window w.
Busy(d, w) == Target \in Shown(d) \/ \E v \in Mapped(d) \ {w} : d.wins[v].ws = Target
Guards ==
    /\ At("guard") \/ At("guard2")
    /\ \/ Looks /\ Busy(Served(desk), Nil) /\ Fails
       \/ Looks /\ ~Busy(Served(desk), Nil) /\ Goes(IF job.step = "guard" THEN "eval" ELSE "exec")
       \/ Misses /\ Fails

\* Mutant: the launch counts as attempted once it was answered.
AttemptsAnswered(a) == [job EXCEPT !.attempted = a = "ok"]
Attempts(a) == [job EXCEPT !.attempted = TRUE]
Launches ==
    LET c == [cmd |-> job.step]
        Then(a) == LET j == Attempts(a) IN
            job' = CASE a = "ok"    -> [j EXCEPT !.step = "watch"]
                     [] a = "nolua" -> [j EXCEPT !.step = "guard2"]
                     [] OTHER       -> [j EXCEPT !.step = IF j.ticket THEN "forget" ELSE "answer", !.result = Trouble(j)]
    IN /\ At("eval") \/ At("exec")
       /\ (Answered(c) /\ Then(AnswerTo(c))) \/ (GivenUp(c) /\ Then("lost"))

\* One round: the focused window, the surfaces of the token, the windows.
Watches ==
    /\ At("watch")
    /\ \/ desk.helper = "ran" /\ Looks /\ job' = [job EXCEPT !.step = "tokens", !.focus = Served(desk).focus]
       \/ desk.helper = "ran" /\ Misses /\ Fails
       \/ Fails /\ UNCHANGED <<desk, left>>          \* sixty seconds have passed
Tokens ==
    /\ At("tokens")
    /\ \/ Misses /\ (Goes("watch") \/ Fails)           \* a timeout, or another failure
       \/ Looks /\ Served(desk).ticket.many /\ Fails
       \/ /\ Looks /\ ~Served(desk).ticket.many
          /\ job' = [job EXCEPT !.step = "clients",
                                !.tokens = IF job.ticket THEN {Served(desk).ticket.win} \cap Mapped(Served(desk)) ELSE {}]

\* What binds a new window to the launch.
Proof(d, w) ==
    CASE d.wins[w].proc \in Launched /\ "root" \in d.alive -> "launch-ancestry"
      [] w \in job.tokens                                  -> "activation-token"
      [] d.bus /\ d.wins[w].proc = "server"                -> "registered-dbus-client"
      [] d.wins[w].proc \in Launched                       -> "launch-scope"
      [] OTHER                                             -> "none"
\* A surface of the token in a process that was there before, and the launcher gone.
Forwarded(d, w) == w \in job.tokens /\ d.wins[w].proc \in job.before \ {"root"} /\ "root" \notin d.alive

\* The one window that was found.  Where the code waits up to a second it looks
\* again or goes on.
Judges(d, w) ==
    LET proof == Proof(d, w) IN
    \/ proof = "registered-dbus-client" /\ (Goes("watch") \/ Leaves("candidate", w))
    \/ /\ proof # "registered-dbus-client" /\ job.focus = w
       /\ IF w \in job.placed THEN Fails ELSE Leaves("candidate", w)
    \/ /\ proof # "registered-dbus-client" /\ job.focus # w
       /\ \/ /\ ~Forwarded(d, w) /\ proof = "activation-token" /\ d.wins[w].proc \in job.before
             /\ Goes("watch")
          \/ /\ proof # "launch-ancestry" /\ w \notin job.placed
             /\ job' = [job EXCEPT !.step = "destination", !.win = w]
          \/ /\ proof = "launch-ancestry" \/ w \in job.placed
             /\ d.wins[w].ws # Target /\ Fails
          \/ /\ proof = "launch-ancestry" \/ w \in job.placed
             /\ d.wins[w].ws = Target
             /\ job' = [job EXCEPT !.step = "settle", !.win = w,
                                   !.result = IF Forwarded(d, w) THEN "forwarded" ELSE "opened"]
Clients ==
    LET d     == Served(desk)
        found == {w \in Mapped(d) \ job.base : Proof(d, w) # "none"}
        old   == job.tokens \cap job.base \cap Mapped(d)
    IN /\ At("clients")
       /\ \/ Misses /\ Fails
          \/ Looks /\ \E w \in old : Leaves("candidate", w)
          \/ Looks /\ old = {} /\ Cardinality(found) > 1 /\ Leaves("uncertain", Nil)
          \/ Looks /\ old = {} /\ found = {} /\ Goes("watch")
          \/ Looks /\ old = {} /\ \E w \in found : found = {w} /\ Judges(d, w)

Destination ==
    /\ At("destination")
    /\ \/ Misses /\ Fails
       \/ Looks /\ Busy(Served(desk), job.win) /\ Leaves("candidate", job.win)
       \/ Looks /\ ~Busy(Served(desk), job.win) /\ Goes("place")
Places ==
    LET c == [cmd |-> "place", win |-> job.win] IN
    /\ At("place")
    /\ \/ Answered(c) /\ AnswerTo(c) = "ok" /\ job' = [job EXCEPT !.step = "watch", !.placed = @ \cup {job.win}]
       \/ Answered(c) /\ AnswerTo(c) = "nolua" /\ Leaves("candidate", job.win)
       \/ Answered(c) /\ AnswerTo(c) = "refused" /\ Fails
       \/ GivenUp(c) /\ Fails
\* Measured and its constraints of the same sample, or another round.
Settles ==
    /\ At("settle")
    /\ \/ Misses /\ Fails
       \/ Looks /\ (Goes("watch") \/ Leaves(job.result, job.win))
Forgets ==
    LET c == [cmd |-> "forget"] IN
    /\ At("forget")
    /\ \/ Answered(c) /\ Goes("answer")
       \/ GivenUp(c) /\ job' = [job EXCEPT !.step = "answer", !.result = Trouble(job)]
Answers == job.step = "answer" /\ Ends(job.result, job.win) /\ UNCHANGED <<desk, left>>

\* The plugin's build is checked, then the workspace is presented.
Builds ==
    /\ job.step = "build"
    /\ \/ Goes("show") /\ UNCHANGED <<opening, showing, creations, left>>
       \/ /\ Spends("refusals")
          /\ \E code \in {"incompatible", "unconfirmed"} : Ends(code, Nil)
    /\ UNCHANGED desk
Shows ==
    LET c == [cmd |-> "present", sel |-> showing.sel] IN
    /\ job.step = "show"
    /\ \/ Answered(c) /\ AnswerTo(c) = "not-ready" /\ Ends("not-ready", Nil)
       \* shown, but the owner's focus may have moved
       \/ Answered(c) /\ AnswerTo(c) = "ok" /\ \E code \in {"ok", "unconfirmed"} : Ends(code, Nil)
       \/ GivenUp(c) /\ Ends("unconfirmed", Nil)

----------------------------------------------------------------------------
OpeningInit == \E c \in Cases :
    /\ desk = [front |-> 1, side |-> 3, focusMon |-> "front", focus |-> Nil, late |-> <<>>, plugin |-> c.plugin,
               lua |-> c.lua, bus |-> c.bus, ticket |-> NoTicket, helper |-> "none", starts |-> 0, shows |-> 0, hits |-> {},
               alive |-> {"server"},
               wins |-> [w \in Wins |-> [seen |-> w = OldWin, proc |-> IF w = OldWin THEN "server" ELSE Nil,
                                         ws |-> 1, token |-> FALSE, moved |-> 0]]]
    /\ opening = [code |-> Nil, win |-> Nil, base |-> {}, before |-> {}]
    /\ showing = [sel |-> Nil, run |-> "none"]
    /\ creations = <<>> /\ job = NoJob
    /\ left = [may |-> c.may, spoiled |-> FALSE]

OpeningNext ==
    \/ LateServed \/ TicketExpires \/ HelperRuns \/ ChildStarts \/ RootExits \/ Maps \/ Activates \/ Closes
    \/ Focuses \/ OwnerShows \/ OwnerCrosses
    \/ NativeOpen \/ (\E s \in Selections : Present(s)) \/ Starts \/ Ready \/ Admits \/ Lost
    \/ Registers \/ RegisterRefused \/ Inspects \/ Guards \/ Launches \/ Watches \/ Tokens \/ Clients
    \/ Destination \/ Places \/ Settles \/ Forgets \/ Answers \/ Builds \/ Shows

OpeningSpec == OpeningInit /\ [][OpeningNext]_openingVars

----------------------------------------------------------------------------
Command == [cmd : {"register", "forget", "eval", "exec"}] \cup [cmd : {"place"}, win : Wins]
           \cup [cmd : {"present"}, sel : Selections]
Window  == [seen : BOOLEAN, proc : Procs \cup {Nil}, ws : Nat, token : BOOLEAN, moved : Nat]
Ticket  == [on : BOOLEAN, win : Wins \cup {Nil}, many : BOOLEAN]
Hit     == [win : Wins, focused : BOOLEAN, ours : BOOLEAN]
Desk    == [front : Nat, side : Nat, focusMon : {"front", "side"}, focus : Wins \cup {Nil}, late : Seq(Command),
            plugin : BOOLEAN, lua : BOOLEAN, bus : BOOLEAN, ticket : Ticket,
            helper : {"none", "started", "ran", "expired"}, starts : Nat, shows : Nat,
            hits : SUBSET Hit, alive : SUBSET Procs, wins : [Wins -> Window]]
Opening == [code : Results \cup {"running", "lost", Nil}, win : Wins \cup {Nil},
            base : SUBSET Wins, before : SUBSET Procs]
Showing == [sel : Selections \cup {Nil}, run : {"none", "running", "free", "ok", "unconfirmed"}]
OpenSteps == {"ready", "admit", "register", "inspect", "guard", "eval", "guard2", "exec", "watch", "tokens",
              "clients", "destination", "place", "settle", "forget", "answer"}
ShowSteps == {"ready", "admit", "build", "show"}
Job     == [kind : Kinds \cup {Nil}, step : OpenSteps \cup ShowSteps \cup {"idle"},
            attempted : BOOLEAN, ticket : BOOLEAN, base : SUBSET Wins, before : SUBSET Procs,
            focus : Wins \cup {Nil}, tokens : SUBSET Wins, placed : SUBSET Wins,
            win : Wins \cup {Nil}, result : Results \cup {Nil}]

OpeningTypeOK ==
    /\ desk \in Desk /\ opening \in Opening /\ showing \in Showing
    /\ creations \in Seq(Kinds) /\ job \in Job
    /\ left \in [may : [Spending -> Nat], spoiled : BOOLEAN]

\* A refusal means that nothing was launched and nothing will be, and however
\* often the opening is asked for, given up or falls back, the application is
\* started once at most.  Without a loss or a kill no token is left, which would
\* keep the plugin from being unloaded.
LaunchTold ==
    /\ (opening.code = "refused" \/ job.result = "refused" \/ (job.kind = "open" /\ job.step = "admit")) =>
        /\ desk.starts = 0
        /\ \A i \in 1 .. Len(desk.late) : desk.late[i].cmd \notin {"eval", "exec"}
    /\ desk.starts <= 1
    /\ job.kind # "open" /\ desk.late = <<>> /\ ~left.spoiled => ~desk.ticket.on

\* Whatever the owner does meanwhile, a placement moves a window of this launch,
\* once, and not while the owner is in it; of the windows that were there before
\* and of the owner's own none is moved.
OwnerUndisturbed ==
    /\ \A h \in desk.hits : h.ours /\ ~h.focused /\ h.win # OldWin
    /\ \A w \in Wins : desk.wins[w].moved <= 1

\* The window that is reported as opened is new and of this launch, and
\* `forwarded' is true: its process was there and shows what the token asked for.
OpenedIsOurs == opening.code \in {"opened", "forwarded"} =>
    LET w == opening.win IN
    /\ w \notin opening.base
    /\ desk.wins[w].token \/ desk.wins[w].proc \in Launched \cup {Nil}
    /\ opening.code = "forwarded" => desk.wins[w].token /\ opening.before # {}

\* What is moved and what is reported is of this launch, beside an owner who opens
\* and enters windows (open_application, native.open).
OnlyOurs == OwnerUndisturbed /\ OpenedIsOurs

\* A presentation changes the display once at most per identity, for all its
\* retries, and one that is free to be retried changed nothing.
PresentedOnce ==
    /\ desk.shows <= 1
    /\ showing.run \in {"none", "free"} =>
          desk.shows = 0 /\ \A i \in 1 .. Len(desk.late) : desk.late[i].cmd # "present"

\* The application is started and the display changed at most once per identity, and a
\* refusal of either is true.
AskedOnce == OpeningTypeOK /\ LaunchTold /\ PresentedOnce
=============================================================================
