--------------------------- MODULE NativeLeaseProofs ---------------------------
(***************************************************************************)
(* What an application lease promises, proved for any number of workers and   *)
(* for every budget of crashes, losses, approvals and repairs (NativeLease):   *)
(* whoever holds the client is recorded, a pause that was heard of is one, an  *)
(* input reaches the client once, an approval admits one action, and nobody    *)
(* takes the lease of a worker that runs.                                     *)
(***************************************************************************)
EXTENDS NativeLease, TLAPS

Steps     == {"off", "idle", "begin", "spend", "info", "asks", "handback", "reap", "finish"}
Processes == [up : BOOLEAN, holds : BOOLEAN, fate : {"ok", "refused", "ended"}, op : Ops \cup {None},
              step : Steps]
Backends  == [state : {"off", "open", "closing", "ended", "done"}, asks : Ops \cup {None},
              pipe : Ops \cup {None}, told : {"none", "running", "paused"}]
Commands  == {"claim", "info", "input", "pause", "resume", "handback", "reap"}
Requests  == [from : Senders, cmd : Commands, lease : Workers, heard : BOOLEAN]
Approvals == {<<op, x>> : op \in Ops, x \in Workers \cup {None}}
Controls  == [mode : {"protected", "full"}, approval : Approvals \cup {None}, lock : Workers \cup {None}]
Tools     == [step : {"idle", "info", "handback", "reap"}, lease : Workers \cup {None},
              live : SUBSET Workers, alive : BOOLEAN, noted : BOOLEAN]
Leases    == [holder : Workers \cup {None}, paused : BOOLEAN, typing : BOOLEAN,
              client : BOOLEAN, retired : SUBSET Workers]
Lefts     == [todo : [Workers -> SUBSET Ops], kills : Int, losses : Int, approvals : Int, repairs : Int,
              typing : Int, ends : BOOLEAN, given : Nat, spent : Nat, hits : [Workers -> Nat]]

\* Where a process waits for an answer.
Asking == {"info", "asks", "handback", "reap"}

\* The types of what NativeTypeOK leaves open.
MoreTypes ==
    /\ wire \in Seq(Requests) /\ control \in Controls /\ tool \in Tools /\ left \in Lefts

\* A worker that ended does not run again.
Gone(x) == broker[x].state # "off" /\ ~worker[x].up

\* No request of p is on its way.
NoneFrom(p) == \A i \in DOMAIN wire : wire[i].from # p
\* Whatever else, the client that w holds is paused.
PausedFor(w) == plugin.holder = w => plugin.paused

----------------------------------------------------------------------------
(* One worker and its backend.                                              *)

\* Where a worker can be.
StepInv(w) ==
    /\ worker[w].up <=> worker[w].step # "off"
    /\ worker[w].step \in {"off", "idle"} <=> worker[w].op = None
    /\ worker[w].step = "spend" => /\ worker[w].op \in Executes /\ control.lock = w
                                   /\ control.approval # None
    /\ worker[w].step \in {"handback", "reap"} => worker[w].op \in {"handback", "close"}
    /\ worker[w].step = "asks" => worker[w].op \notin {"handback", "close"}
    /\ broker[w].state = "off" => /\ ~worker[w].up /\ NoneFrom(w) /\ plugin.holder # w
                                  /\ broker[w].pipe = None

\* The broker has one request under way, in the pipe or with the worker.
PipeInv(w) ==
    /\ broker[w].pipe # None => worker[w].op = None
    /\ broker[w].asks # None => /\ broker[w].state = "open" /\ broker[w].pipe \in {None, broker[w].asks}
                                /\ worker[w].op \in {None, broker[w].asks}
    /\ broker[w].state \in {"off", "open"} /\ broker[w].asks = None =>
          broker[w].pipe = None /\ worker[w].op = None

\* The record is there before the claim.
RecordInv(w) ==
    /\ worker[w].op = "claim" \/ plugin.holder = w => w \in record
    /\ \A i \in DOMAIN wire : wire[i].from = w =>
          wire[i].lease = w /\ (wire[i].cmd = "claim" => w \in record)

\* A worker waits for its last request, and an answer that came leaves nothing behind.
AskedInv(w) ==
    /\ \A i \in DOMAIN wire : wire[i].from = w /\ wire[i].heard =>
          /\ answer[w] = "none" /\ worker[w].step \in Asking
          /\ \A j \in DOMAIN wire : j > i => wire[j].from # w
          /\ worker[w].step = "reap" => wire[i].cmd = "reap"
          /\ worker[w].step = "asks" /\ worker[w].op = "pause" => wire[i].cmd = "pause"
    /\ answer[w] \notin {"none", "lost"} => NoneFrom(w)
    /\ worker[w].step = "reap" /\ answer[w] = "ok" => plugin.holder # w
    /\ worker[w].step = "asks" /\ worker[w].op = "pause" /\ answer[w] = "ok" => PausedFor(w)

\* What a request came to that went well.
FinishInv(w) ==
    worker[w].step = "finish" /\ worker[w].fate = "ok" =>
        /\ worker[w].op \in {"handback", "close"} /\ worker[w].holds => plugin.holder # w /\ NoneFrom(w)
        /\ worker[w].op = "pause" => PausedFor(w) /\ NoneFrom(w)

\* A pause that was heard of is not undone by anything that is still on its way.
PauseInv(w) ==
    broker[w].told = "paused" =>
        /\ PausedFor(w)
        /\ worker[w].op \notin {"claim", "resume"} /\ broker[w].pipe \notin {"claim", "resume"}
        /\ \A i \in DOMAIN wire : wire[i].from = w => wire[i].cmd \notin {"claim", "resume"}

\* An input that is still to be sent has not been delivered.
ToSend(w) ==
    \/ "act" \in left.todo[w] \/ broker[w].pipe = "act"
    \/ worker[w].op = "act" /\ worker[w].step \in {"begin", "spend", "info"}
    \/ worker[w].op = "act" /\ worker[w].step = "asks" /\ answer[w] = "owner"
IsInput(i, w) == wire[i].from = w /\ wire[i].cmd = "input"
InputInv(w) ==
    /\ left.hits[w] <= 1
    /\ ToSend(w) => left.hits[w] = 0 /\ \A i \in DOMAIN wire : ~IsInput(i, w)
    /\ \A i \in DOMAIN wire : IsInput(i, w) =>
          left.hits[w] = 0 /\ \A j \in DOMAIN wire : j # i => ~IsInput(j, w)
    /\ broker[w].pipe = "act" \/ worker[w].op = "act" => "act" \notin left.todo[w]

LocalInv(w) ==
    /\ StepInv(w) /\ PipeInv(w) /\ RecordInv(w) /\ AskedInv(w) /\ FinishInv(w) /\ PauseInv(w)
    /\ InputInv(w)

----------------------------------------------------------------------------
(* The owner's process, and the approvals.                                  *)

\* What the owner's process sends is about a worker that ended, or it asks first.
OwnerInv ==
    /\ tool.step # "idle" => tool.lease \in Workers
    /\ tool.step \in {"handback", "reap"} => Gone(tool.lease)
    /\ \A i \in DOMAIN wire : wire[i].from = Owner =>
          /\ wire[i].cmd \in {"info", "handback", "reap"}
          /\ wire[i].cmd = "handback" => Gone(wire[i].lease)
          /\ wire[i].heard =>
                /\ answer[Owner] = "none" /\ tool.step # "idle"
                /\ wire[i].cmd = tool.step /\ wire[i].lease = tool.lease
                /\ \A j \in DOMAIN wire : j > i => wire[j].from # Owner
    /\ answer[Owner] \notin {"none", "lost"} => NoneFrom(Owner)

\* The release finds the client of a worker that ended, and nothing of it on its way.
ReleaseInv ==
    /\ tool.step = "info" /\ ~tool.alive /\ ~Gone(tool.lease) =>
          /\ answer[Owner] # "held"
          /\ \A i \in DOMAIN wire : wire[i].from = Owner /\ wire[i].heard =>
                /\ plugin.holder # tool.lease
                /\ \A j \in DOMAIN wire : j < i => wire[j].from # tool.lease
    /\ tool.step = "reap" =>
          /\ \A i \in DOMAIN wire : wire[i].from = Owner /\ wire[i].heard =>
                \A j \in DOMAIN wire : j > i => wire[j].from # tool.lease
          /\ answer[Owner] = "ok" => plugin.holder # tool.lease /\ NoneFrom(tool.lease)

\* An approval that stands has not been spent.
ApprovalInv == IF control.approval = None THEN left.spent <= left.given ELSE left.spent < left.given

LeaseInv ==
    /\ NativeTypeOK /\ MoreTypes
    /\ (\A w \in Workers : LocalInv(w)) /\ OwnerInv /\ ReleaseInv /\ ApprovalInv

----------------------------------------------------------------------------
(* The invariant, taken apart and put together.                             *)

Typed ==
    /\ worker \in [Workers -> Processes] /\ broker \in [Workers -> Backends] /\ record \subseteq Workers
    /\ plugin \in Leases /\ answer \in [Senders -> Answers] /\ MoreTypes

\* The types as the proofs use them.
LEMMA Parts ==
    ASSUME LeaseInv
    PROVE  Typed /\ (\A w \in Workers : LocalInv(w)) /\ OwnerInv /\ ReleaseInv /\ ApprovalInv
BY DEF LeaseInv, NativeTypeOK, Typed, Processes, Backends, Leases, Steps

\* And after a step.
LEMMA Together ==
    ASSUME Typed', \A w \in Workers : LocalInv(w)', OwnerInv', ReleaseInv', ApprovalInv'
    PROVE  LeaseInv'
<1>1. \A w \in Workers : worker'[w].up <=> worker'[w].step # "off"
  BY DEF LocalInv, StepInv
<1>2. NativeTypeOK'
  BY <1>1 DEF NativeTypeOK, Typed, Processes, Backends, Leases, Steps, MoreTypes, Controls
<1> QED BY <1>2 DEF LeaseInv, Typed

----------------------------------------------------------------------------
(* The wire.                                                                *)

\* A step of w keeps what is in the wire, perhaps unheard, and adds its own at the end.
WireStep(w) ==
    /\ wire' \in Seq(Requests) /\ DOMAIN wire \subseteq DOMAIN wire'
    /\ \A i \in DOMAIN wire :
          /\ wire'[i].from = wire[i].from /\ wire'[i].cmd = wire[i].cmd /\ wire'[i].lease = wire[i].lease
          /\ wire'[i].heard => wire[i].heard
          /\ wire[i].from # w => wire'[i].heard = wire[i].heard
          /\ \A j \in DOMAIN wire' \ DOMAIN wire : i < j
    /\ \A j \in DOMAIN wire' \ DOMAIN wire : wire'[j].from = w /\ worker[w].up

\* Nothing that p waits for is in the wire.
Ready(p) == \A i \in DOMAIN wire : wire[i].from = p => ~wire[i].heard

\* A request has come to the end of the wire, and whoever sent it waits.
Arrives(p, cmd, x) ==
    /\ wire' \in Seq(Requests) /\ DOMAIN wire' = DOMAIN wire \cup {Len(wire) + 1}
    /\ Len(wire) + 1 \notin DOMAIN wire /\ (\A i \in DOMAIN wire : i < Len(wire) + 1)
    /\ (\A i \in DOMAIN wire : wire'[i] = wire[i])
    /\ wire'[Len(wire) + 1].from = p /\ wire'[Len(wire) + 1].cmd = cmd
    /\ wire'[Len(wire) + 1].lease = x /\ wire'[Len(wire) + 1].heard
    /\ answer' \in [Senders -> Answers] /\ answer'[p] = "none"
    /\ \A o \in Senders \ {p} : answer'[o] = answer[o]

\* A request goes to the end of the wire.
LEMMA Sent ==
    ASSUME Typed, NEW p \in Senders, NEW cmd \in Commands, NEW x \in Workers, Sends(p, cmd, x)
    PROVE  Arrives(p, cmd, x)
<1> DEFINE q == [from |-> p, cmd |-> cmd, lease |-> x, heard |-> TRUE]
<1>1. q \in Requests /\ q.from = p /\ q.cmd = cmd /\ q.lease = x /\ q.heard
  BY DEF Requests
<1>2. wire' = Append(wire, q) /\ wire \in Seq(Requests)
  BY DEF Sends, Typed, MoreTypes
<1> HIDE DEF q
<1>3. /\ wire' \in Seq(Requests) /\ DOMAIN wire' = DOMAIN wire \cup {Len(wire) + 1}
      /\ Len(wire) + 1 \notin DOMAIN wire /\ (\A i \in DOMAIN wire : i < Len(wire) + 1)
      /\ (\A i \in DOMAIN wire : wire'[i] = wire[i]) /\ wire'[Len(wire) + 1] = q
  BY <1>1, <1>2
<1>4. /\ answer' \in [Senders -> Answers] /\ answer'[p] = "none"
      /\ \A o \in Senders \ {p} : answer'[o] = answer[o]
  BY DEF Sends, Typed, Answers
<1> QED BY <1>1, <1>3, <1>4 DEF Arrives

\* What that means to whoever sends it.
LEMMA SentStep ==
    ASSUME Typed, NEW w \in Workers, NEW cmd \in Commands, Sends(w, cmd, w), worker[w].up
    PROVE  WireStep(w)
BY Sent DEF Arrives, WireStep, Senders

\* Without a request the wire stays.
LEMMA SilentStep ==
    ASSUME Typed, NEW w \in Workers, wire' = wire
    PROVE  WireStep(w)
BY DEF WireStep, Typed, MoreTypes

\* What a process abandons is served all the same, and nobody hears of it.
LEMMA AbandonedStep ==
    ASSUME Typed, NEW p \in Senders, wire' = Abandoned(p)
    PROVE  /\ wire' \in Seq(Requests) /\ DOMAIN wire' = DOMAIN wire
           /\ \A i \in DOMAIN wire :
                 /\ wire'[i].from = wire[i].from /\ wire'[i].cmd = wire[i].cmd /\ wire'[i].lease = wire[i].lease
                 /\ wire'[i].heard <=> wire[i].heard /\ wire[i].from # p
                 /\ wire[i].from # p => wire'[i].heard = wire[i].heard
<1>1. ASSUME NEW r \in Requests
      PROVE  /\ [r EXCEPT !.heard = FALSE] \in Requests
             /\ [r EXCEPT !.heard = FALSE].from = r.from /\ [r EXCEPT !.heard = FALSE].cmd = r.cmd
             /\ [r EXCEPT !.heard = FALSE].lease = r.lease /\ ~[r EXCEPT !.heard = FALSE].heard
  BY DEF Requests
<1>2. wire \in Seq(Requests) /\ DOMAIN wire = 1..Len(wire) /\ Len(wire) \in Nat
  BY DEF Typed, MoreTypes
<1>3. /\ DOMAIN wire' = DOMAIN wire
      /\ \A i \in DOMAIN wire :
            wire'[i] = IF wire[i].from = p THEN [wire[i] EXCEPT !.heard = FALSE] ELSE wire[i]
  BY DEF Abandoned
<1>4. ASSUME NEW i \in DOMAIN wire
      PROVE  /\ wire'[i] \in Requests
             /\ wire'[i].from = wire[i].from /\ wire'[i].cmd = wire[i].cmd /\ wire'[i].lease = wire[i].lease
             /\ wire'[i].heard <=> wire[i].heard /\ wire[i].from # p
             /\ wire[i].from # p => wire'[i].heard = wire[i].heard
  <2>1. wire[i] \in Requests
    BY <1>2, <1>4
  <2>2. CASE wire[i].from = p
    BY <1>1, <1>3, <1>4, <2>1, <2>2
  <2>3. CASE wire[i].from # p
    BY <1>3, <1>4, <2>1, <2>3
  <2> QED BY <2>2, <2>3
<1>5. wire' \in Seq(Requests)
  <2>1. wire' \in [1..Len(wire) -> Requests]
    BY <1>2, <1>3, <1>4 DEF Abandoned
  <2> QED BY <1>2, <2>1
<1> QED BY <1>3, <1>4, <1>5

----------------------------------------------------------------------------
(* A step of one worker and its backend.                                    *)

\* It leaves everything of the others alone.
OthersStay(w) ==
    /\ \A v \in Workers \ {w} :
          /\ worker'[v] = worker[v] /\ broker'[v] = broker[v] /\ answer'[v] = answer[v]
          /\ v \in record' <=> v \in record
          /\ left'.todo[v] = left.todo[v] /\ left'.hits[v] = left.hits[v]
          /\ control.lock = v => control'.lock = v /\ control'.approval = control.approval
    /\ answer'[Owner] = answer[Owner]
    /\ plugin' = plugin /\ tool' = tool
    /\ WireStep(w) /\ (Gone(w) => Gone(w)')

\* A step that is not about v: nothing of v changes but, once v is done with it, its record.
Aside(v) ==
    /\ worker'[v] = worker[v] /\ broker'[v] = broker[v] /\ answer'[v] = answer[v]
    /\ v \in record' \/ (v \in record => plugin.holder # v /\ worker[v].op # "claim" /\ NoneFrom(v))
    /\ left'.todo[v] = left.todo[v] /\ left'.hits[v] = left.hits[v]
    /\ control.lock = v => control'.lock = v /\ control'.approval = control.approval
    /\ plugin' = plugin
    /\ \A j \in DOMAIN wire' : wire'[j].from = v =>
          /\ j \in DOMAIN wire /\ wire[j].from = v /\ wire'[j].cmd = wire[j].cmd
          /\ wire'[j].lease = wire[j].lease /\ wire'[j].heard = wire[j].heard

\* What holds of v still does.
LEMMA AsideKept ==
    ASSUME NEW v \in Workers, LocalInv(v), Aside(v)
    PROVE  LocalInv(v)'
<1>1. /\ worker'[v] = worker[v] /\ broker'[v] = broker[v] /\ answer'[v] = answer[v]
      /\ v \in record' \/ (v \in record => plugin.holder # v /\ worker[v].op # "claim" /\ NoneFrom(v))
      /\ left'.todo[v] = left.todo[v] /\ left'.hits[v] = left.hits[v]
      /\ control.lock = v => control'.lock = v /\ control'.approval = control.approval
      /\ plugin' = plugin
  BY DEF Aside
<1>2. \A j \in DOMAIN wire' : wire'[j].from = v =>
          /\ j \in DOMAIN wire /\ wire[j].from = v /\ wire'[j].cmd = wire[j].cmd
          /\ wire'[j].lease = wire[j].lease /\ wire'[j].heard = wire[j].heard
  BY DEF Aside
<1>3. StepInv(v) /\ PipeInv(v) /\ RecordInv(v) /\ AskedInv(v) /\ FinishInv(v) /\ PauseInv(v) /\ InputInv(v)
  BY DEF LocalInv
<1>4. StepInv(v)'
  BY <1>1, <1>2, <1>3 DEF StepInv, NoneFrom
<1>5. PipeInv(v)'
  BY <1>1, <1>3 DEF PipeInv
<1>6. RecordInv(v)'
  BY <1>1, <1>2, <1>3 DEF RecordInv, NoneFrom
<1>7. AskedInv(v)'
  BY <1>1, <1>2, <1>3 DEF AskedInv, NoneFrom, PausedFor
<1>8. FinishInv(v)'
  BY <1>1, <1>2, <1>3 DEF FinishInv, NoneFrom, PausedFor
<1>9. PauseInv(v)'
  BY <1>1, <1>2, <1>3 DEF PauseInv, PausedFor
<1>10. InputInv(v)'
  BY <1>1, <1>2, <1>3 DEF InputInv, ToSend, IsInput
<1> QED BY <1>4, <1>5, <1>6, <1>7, <1>8, <1>9, <1>10 DEF LocalInv

\* In particular of the others when it is a step of w.
LEMMA OtherKept ==
    ASSUME Typed, NEW w \in Workers, NEW v \in Workers \ {w}, LocalInv(v), OthersStay(w)
    PROVE  LocalInv(v)'
<1>1. Aside(v)
  BY DEF OthersStay, WireStep, Aside
<1> QED BY <1>1, AsideKept

\* What is gone stays gone.
LEMMA GoneStays ==
    ASSUME NEW w \in Workers, OthersStay(w), NEW x \in Workers, broker[x].state # "off", ~worker[x].up
    PROVE  broker'[x].state # "off" /\ ~worker'[x].up
BY DEF OthersStay, Gone

\* Nothing that the owner's process waits for is touched.
LEMMA OwnerKept ==
    ASSUME Typed, NEW w \in Workers, OthersStay(w), OwnerInv, ReleaseInv
    PROVE  OwnerInv' /\ ReleaseInv'
<1>1. \A j \in DOMAIN wire' : wire'[j].from = Owner =>
          /\ j \in DOMAIN wire /\ wire[j].from = Owner /\ wire'[j].cmd = wire[j].cmd
          /\ wire'[j].lease = wire[j].lease /\ wire'[j].heard = wire[j].heard
  BY NativeLeaseAssumption DEF OthersStay, WireStep
<1>2. tool' = tool /\ answer'[Owner] = answer[Owner] /\ plugin' = plugin
  BY DEF OthersStay
<1>3. \A i \in DOMAIN wire : wire[i].lease \in Workers
  <2>1. wire \in Seq(Requests)
    BY DEF Typed, MoreTypes
  <2>2. \A i \in DOMAIN wire : wire[i] \in Requests
    BY <2>1
  <2> QED BY <2>2 DEF Requests
<1>4. OwnerInv'
  <2>1. tool.step # "idle" => tool.lease \in Workers
    BY DEF OwnerInv
  <2>2. tool.step \in {"handback", "reap"} => Gone(tool.lease)'
    BY <1>2, <2>1, GoneStays DEF OwnerInv, Gone
  <2>3. ASSUME NEW j \in DOMAIN wire', wire'[j].from = Owner
        PROVE  /\ wire'[j].cmd \in {"info", "handback", "reap"}
               /\ wire'[j].cmd = "handback" =>
                     broker'[wire'[j].lease].state # "off" /\ ~worker'[wire'[j].lease].up
               /\ wire'[j].heard =>
                     /\ answer'[Owner] = "none" /\ tool'.step # "idle"
                     /\ wire'[j].cmd = tool'.step /\ wire'[j].lease = tool'.lease
                     /\ \A i \in DOMAIN wire' : i > j => wire'[i].from # Owner
    <3>1. /\ j \in DOMAIN wire /\ wire[j].from = Owner /\ wire'[j].cmd = wire[j].cmd
          /\ wire'[j].lease = wire[j].lease /\ wire'[j].heard = wire[j].heard
          /\ wire[j].lease \in Workers
      BY <1>1, <1>3, <2>3
    <3>2. wire[j].cmd = "handback" => broker[wire[j].lease].state # "off" /\ ~worker[wire[j].lease].up
      BY <3>1 DEF OwnerInv, Gone
    <3>3. wire'[j].cmd = "handback" =>
              broker'[wire'[j].lease].state # "off" /\ ~worker'[wire'[j].lease].up
      BY <3>1, <3>2, GoneStays
    <3>4. wire'[j].heard => \A i \in DOMAIN wire' : i > j => wire'[i].from # Owner
      BY <1>1, <3>1 DEF OwnerInv
    <3> QED BY <1>2, <3>1, <3>3, <3>4 DEF OwnerInv
  <2>4. answer'[Owner] \notin {"none", "lost"} => \A j \in DOMAIN wire' : wire'[j].from # Owner
    BY <1>1, <1>2 DEF OwnerInv, NoneFrom
  <2> QED BY <1>2, <2>1, <2>2, <2>3, <2>4 DEF OwnerInv, NoneFrom, Gone
<1>5. ReleaseInv'
  <2>1. tool.step = "info" /\ ~Gone(tool.lease)' => ~Gone(tool.lease)
    BY <1>2, GoneStays DEF OwnerInv, Gone
  <2>2. \A i \in DOMAIN wire, j \in DOMAIN wire' : j < i => j \in DOMAIN wire /\ wire'[j].from = wire[j].from
    BY DEF OthersStay, WireStep, Typed, MoreTypes
  <2>3. tool.step = "reap" => \A j \in DOMAIN wire' : wire'[j].from = tool.lease =>
            j \in DOMAIN wire /\ wire[j].from = tool.lease
    <3> SUFFICES ASSUME tool.step = "reap", NEW j \in DOMAIN wire', wire'[j].from = tool.lease
                 PROVE  j \in DOMAIN wire /\ wire[j].from = tool.lease
      OBVIOUS
    <3>1. Gone(tool.lease)
      BY DEF OwnerInv
    <3> QED BY <3>1 DEF OthersStay, WireStep, Gone
  <2>4. tool.step = "info" /\ ~tool.alive /\ ~Gone(tool.lease)' =>
          /\ answer'[Owner] # "held"
          /\ \A i \in DOMAIN wire' : wire'[i].from = Owner /\ wire'[i].heard =>
                /\ plugin'.holder # tool.lease
                /\ \A j \in DOMAIN wire' : j < i => wire'[j].from # tool.lease
    BY <1>1, <1>2, <2>1, <2>2 DEF ReleaseInv
  <2>5. tool.step = "reap" =>
          /\ \A i \in DOMAIN wire' : wire'[i].from = Owner /\ wire'[i].heard =>
                \A j \in DOMAIN wire' : j > i => wire'[j].from # tool.lease
          /\ answer'[Owner] = "ok" => plugin'.holder # tool.lease /\ NoneFrom(tool.lease)'
    BY <1>1, <1>2, <2>3 DEF ReleaseInv, NoneFrom
  <2> QED BY <1>2, <2>4, <2>5 DEF ReleaseInv
<1> QED BY <1>4, <1>5

\* So a step of w is right when it is right for w.
LEMMA WorkerSteps ==
    ASSUME LeaseInv, NEW w \in Workers, OthersStay(w), Typed', LocalInv(w)', ApprovalInv'
    PROVE  LeaseInv'
<1>1. Typed /\ (\A v \in Workers : LocalInv(v)) /\ OwnerInv /\ ReleaseInv
  BY Parts
<1>2. \A v \in Workers : LocalInv(v)'
  BY <1>1, OtherKept
<1>3. OwnerInv' /\ ReleaseInv'
  BY <1>1, OwnerKept
<1> QED BY <1>2, <1>3, Together

----------------------------------------------------------------------------
(* The records of one worker and its backend.                               *)

\* The record of w becomes this one, and no other changes.
Becomes(w, u, o, s, f, h) ==
    /\ worker' \in [Workers -> Processes] /\ (\A v \in Workers \ {w} : worker'[v] = worker[v])
    /\ worker'[w].up = u /\ worker'[w].op = o /\ worker'[w].step = s
    /\ worker'[w].fate = f /\ worker'[w].holds = h

Backed(w, st, as, pi, to) ==
    /\ broker' \in [Workers -> Backends] /\ (\A v \in Workers \ {w} : broker'[v] = broker[v])
    /\ broker'[w].state = st /\ broker'[w].asks = as /\ broker'[w].pipe = pi /\ broker'[w].told = to

\* A record put in place of another.
LEMMA Put ==
    ASSUME worker \in [Workers -> Processes], NEW w \in Workers, NEW r \in Processes,
           worker' = [worker EXCEPT ![w] = r]
    PROVE  Becomes(w, r.up, r.op, r.step, r.fate, r.holds)
BY DEF Becomes

\* The same for a backend.
LEMMA PutBack ==
    ASSUME broker \in [Workers -> Backends], NEW w \in Workers, NEW r \in Backends,
           broker' = [broker EXCEPT ![w] = r]
    PROVE  Backed(w, r.state, r.asks, r.pipe, r.told)
BY DEF Backed

\* A worker that goes on.
LEMMA GoesOn ==
    ASSUME Typed, NEW w \in Workers, NEW s \in Steps, Goes(w, s)
    PROVE  Becomes(w, worker[w].up, worker[w].op, s, worker[w].fate, worker[w].holds)
<1>1. worker' = [worker EXCEPT ![w] = [worker[w] EXCEPT !.step = s]] /\ worker[w] \in Processes
  BY DEF Goes, Typed
<1> DEFINE r == [worker[w] EXCEPT !.step = s]
<1>2. /\ r \in Processes /\ r.up = worker[w].up /\ r.op = worker[w].op /\ r.step = s
      /\ r.fate = worker[w].fate /\ r.holds = worker[w].holds
  BY <1>1 DEF Processes
<1> HIDE DEF r
<1> QED BY <1>1, <1>2, Put DEF Typed, r

\* A worker whose operation failed.
LEMMA FailsSo ==
    ASSUME Typed, NEW w \in Workers, Fails(w)
    PROVE  Becomes(w, worker[w].up, worker[w].op, "finish", "refused", worker[w].holds)
<1>1. worker' = [worker EXCEPT ![w] = [worker[w] EXCEPT !.step = "finish", !.fate = "refused"]]
      /\ worker[w] \in Processes
  BY DEF Fails, Typed
<1> DEFINE r == [worker[w] EXCEPT !.step = "finish", !.fate = "refused"]
<1>2. /\ r \in Processes /\ r.up = worker[w].up /\ r.op = worker[w].op /\ r.step = "finish"
      /\ r.fate = "refused" /\ r.holds = worker[w].holds
  BY <1>1 DEF Processes, Steps
<1> HIDE DEF r
<1> QED BY <1>1, <1>2, Put DEF Typed, r

\* A worker that finds its lease gone; a failure that was there stays.
LEMMA EndedSo ==
    ASSUME Typed, NEW w \in Workers, Ended(w)
    PROVE  \E f \in {"refused", "ended"} :
               Becomes(w, worker[w].up, worker[w].op, "finish", f, worker[w].holds)
<1> DEFINE f == IF worker[w].fate = "refused" THEN worker[w].fate ELSE "ended"
           r == [worker[w] EXCEPT !.step = "finish", !.fate = f]
<1>1. worker' = [worker EXCEPT ![w] = r] /\ worker[w] \in Processes /\ f \in {"refused", "ended"}
  BY DEF Ended, Typed
<1>2. /\ r \in Processes /\ r.up = worker[w].up /\ r.op = worker[w].op /\ r.step = "finish"
      /\ r.fate = f /\ r.holds = worker[w].holds
  BY <1>1 DEF Processes, Steps
<1> HIDE DEF f, r
<1> QED BY <1>1, <1>2, Put DEF Typed

\* A worker that answered and reads on.
LEMMA RestsSo ==
    ASSUME Typed, NEW w \in Workers, worker' = Rests(w)
    PROVE  Becomes(w, worker[w].up, None, "idle", "ok", worker[w].holds)
<1> DEFINE r == [worker[w] EXCEPT !.step = "idle", !.op = None, !.fate = "ok"]
<1>1. worker' = [worker EXCEPT ![w] = r] /\ worker[w] \in Processes
  BY DEF Rests, Typed
<1>2. /\ r \in Processes /\ r.up = worker[w].up /\ r.op = None /\ r.step = "idle"
      /\ r.fate = "ok" /\ r.holds = worker[w].holds
  BY <1>1 DEF Processes, Steps
<1> HIDE DEF r
<1> QED BY <1>1, <1>2, Put DEF Typed

\* What the broker makes of an answer.
LEMMA ToldSo ==
    ASSUME Typed, NEW w \in Workers, NEW res, broker' = Told(w, res), worker[w].op # None
    PROVE  /\ broker' \in [Workers -> Backends] /\ (\A v \in Workers \ {w} : broker'[v] = broker[v])
           /\ broker'[w].pipe = broker[w].pipe
           /\ \/ broker' = broker /\ broker[w].asks # worker[w].op
              \/ /\ broker[w].asks = worker[w].op /\ broker'[w].asks = None
                 /\ broker'[w].state \in {broker[w].state, "closing"}
                 /\ \/ broker'[w].told = broker[w].told
                    \/ res = "ok" /\ broker'[w].told = "running"
                    \/ res = "ok" /\ worker[w].op = "pause" /\ broker'[w].told = "paused"
<1>1. broker \in [Workers -> Backends] /\ broker[w] \in Backends
  BY DEF Typed
<1>2. CASE broker[w].asks # worker[w].op
  BY <1>1, <1>2 DEF Told
<1>3. CASE broker[w].asks = worker[w].op /\ res = "ok"
  <2> DEFINE t == CASE worker[w].op = "claim" -> "running"
                    [] worker[w].op = "pause" -> "paused" [] OTHER -> broker[w].told
             r == [broker[w] EXCEPT !.asks = None, !.told = t]
  <2>1. broker' = [broker EXCEPT ![w] = r]
    BY <1>3 DEF Told
  <2>2. t \in {"none", "running", "paused"} /\ (t = broker[w].told \/ t = "running"
            \/ (worker[w].op = "pause" /\ t = "paused"))
    BY <1>1 DEF Backends
  <2> HIDE DEF t
  <2>3. /\ r \in Backends /\ r.state = broker[w].state /\ r.asks = None /\ r.pipe = broker[w].pipe
        /\ r.told = t
    BY <1>1, <2>2 DEF Backends
  <2> HIDE DEF r
  <2>4. Backed(w, r.state, r.asks, r.pipe, r.told)
    BY <1>1, <2>1, <2>3, PutBack
  <2> QED BY <1>3, <2>2, <2>3, <2>4 DEF Backed
<1>4. CASE broker[w].asks = worker[w].op /\ res # "ok"
  <2>1. CASE broker' = Closing(w)
    <3> DEFINE r == [broker[w] EXCEPT !.state = "closing", !.asks = None]
    <3>1. broker' = [broker EXCEPT ![w] = r]
      BY <2>1 DEF Closing
    <3>2. /\ r \in Backends /\ r.state = "closing" /\ r.asks = None /\ r.pipe = broker[w].pipe
          /\ r.told = broker[w].told
      BY <1>1 DEF Backends
    <3> HIDE DEF r
    <3>3. Backed(w, r.state, r.asks, r.pipe, r.told)
      BY <1>1, <3>1, <3>2, PutBack
    <3> QED BY <1>4, <3>2, <3>3 DEF Backed
  <2>2. CASE broker' = [broker EXCEPT ![w].asks = None]
    <3> DEFINE r == [broker[w] EXCEPT !.asks = None]
    <3>1. broker' = [broker EXCEPT ![w] = r]
      BY <2>2
    <3>2. /\ r \in Backends /\ r.state = broker[w].state /\ r.asks = None /\ r.pipe = broker[w].pipe
          /\ r.told = broker[w].told
      BY <1>1 DEF Backends
    <3> HIDE DEF r
    <3>3. Backed(w, r.state, r.asks, r.pipe, r.told)
      BY <1>1, <3>1, <3>2, PutBack
    <3> QED BY <1>4, <3>2, <3>3 DEF Backed
  <2> QED BY <1>4, <2>1, <2>2 DEF Told
<1> QED BY <1>2, <1>3, <1>4

----------------------------------------------------------------------------
(* What a step of w means to w.                                             *)

\* A worker that does not wait, or has its answer, has nothing in the wire that it hears of.
LEMMA ReadyWhen ==
    ASSUME NEW w \in Workers, AskedInv(w), answer[w] # "none" \/ worker[w].step \notin Asking
    PROVE  Ready(w)
BY DEF Ready, AskedInv

\* After a request the worker waits for it.
LEMMA AskedSent ==
    ASSUME Typed, NEW w \in Workers, NEW cmd \in Commands, Ready(w), Sends(w, cmd, w),
           worker'[w].step \in Asking, worker'[w].step = "reap" => cmd = "reap",
           worker'[w].step = "asks" /\ worker'[w].op = "pause" => cmd = "pause"
    PROVE  AskedInv(w)'
<1>0. Len(wire) \in Nat /\ DOMAIN wire \subseteq Nat
  <2>1. wire \in Seq(Requests)
    BY DEF Typed, MoreTypes
  <2> QED BY <2>1
<1>1. /\ DOMAIN wire' = DOMAIN wire \cup {Len(wire) + 1} /\ (\A i \in DOMAIN wire : i < Len(wire) + 1)
      /\ (\A i \in DOMAIN wire : wire'[i] = wire[i]) /\ wire'[Len(wire) + 1].cmd = cmd
      /\ answer'[w] = "none"
  BY Sent DEF Arrives, Senders
<1>2. ASSUME NEW i \in DOMAIN wire', wire'[i].from = w, wire'[i].heard PROVE i = Len(wire) + 1
  BY <1>1, <1>2 DEF Ready
<1>3. ASSUME NEW i \in DOMAIN wire', wire'[i].from = w, wire'[i].heard
      PROVE  \A j \in DOMAIN wire' : j > i => wire'[j].from # w
  BY <1>0, <1>1, <1>2, <1>3
<1> QED BY <1>1, <1>2, <1>3 DEF AskedInv

\* Without a request it waits for nothing.
LEMMA AskedQuiet ==
    ASSUME Typed, NEW w \in Workers, Ready(w), AskedInv(w), wire' = wire, plugin' = plugin,
           answer'[w] = "none" \/ (answer'[w] = answer[w] /\ worker'[w].step \notin {"reap", "asks"})
    PROVE  AskedInv(w)'
BY DEF AskedInv, Ready, NoneFrom, PausedFor

\* The record is there, and is not dropped.
LEMMA RecordKept ==
    ASSUME Typed, NEW w \in Workers, RecordInv(w), plugin' = plugin,
           wire' = wire \/ \E cmd \in Commands : Sends(w, cmd, w) /\ (cmd = "claim" => w \in record'),
           w \in record => w \in record', worker'[w].op = "claim" => w \in record'
    PROVE  RecordInv(w)'
<1>1. CASE wire' = wire
  BY <1>1 DEF RecordInv
<1>2. ASSUME NEW cmd \in Commands, Sends(w, cmd, w), cmd = "claim" => w \in record' PROVE RecordInv(w)'
  <2>1. /\ DOMAIN wire' = DOMAIN wire \cup {Len(wire) + 1}
        /\ (\A i \in DOMAIN wire : wire'[i] = wire[i]) /\ wire'[Len(wire) + 1].cmd = cmd
        /\ wire'[Len(wire) + 1].lease = w
    BY <1>2, Sent DEF Arrives, Senders
  <2> QED BY <1>2, <2>1 DEF RecordInv
<1> QED BY <1>1, <1>2

\* A pause that was heard of is not undone by what is sent.
LEMMA PauseKept ==
    ASSUME Typed, NEW w \in Workers, PauseInv(w), plugin' = plugin,
           broker'[w].told = "paused" =>
              /\ broker[w].told = "paused"
              /\ worker'[w].op \notin {"claim", "resume"} /\ broker'[w].pipe \notin {"claim", "resume"}
              /\ wire' = wire \/ \E cmd \in Commands \ {"claim", "resume"} : Sends(w, cmd, w)
    PROVE  PauseInv(w)'
<1> SUFFICES ASSUME broker'[w].told = "paused"
             PROVE  \A i \in DOMAIN wire' : wire'[i].from = w => wire'[i].cmd \notin {"claim", "resume"}
  BY DEF PauseInv, PausedFor
<1>1. CASE wire' = wire
  BY <1>1 DEF PauseInv
<1>2. ASSUME NEW cmd \in Commands \ {"claim", "resume"}, Sends(w, cmd, w)
      PROVE  \A i \in DOMAIN wire' : wire'[i].from = w => wire'[i].cmd \notin {"claim", "resume"}
  <2>1. /\ DOMAIN wire' = DOMAIN wire \cup {Len(wire) + 1}
        /\ (\A i \in DOMAIN wire : wire'[i] = wire[i]) /\ wire'[Len(wire) + 1].cmd = cmd
    BY <1>2, Sent DEF Arrives, Senders
  <2> QED BY <1>2, <2>1 DEF PauseInv
<1> QED BY <1>1, <1>2

\* Whoever still has to send an input has not delivered it, and sends it once.
LEMMA InputKept ==
    ASSUME Typed, NEW w \in Workers, InputInv(w), left'.hits[w] = left.hits[w],
           ToSend(w)' => ToSend(w),
           \/ wire' = wire
           \/ \E cmd \in Commands \ {"input"} : Sends(w, cmd, w)
           \/ Sends(w, "input", w) /\ ToSend(w) /\ ~ToSend(w)',
           broker'[w].pipe = "act" \/ worker'[w].op = "act" => "act" \notin left'.todo[w]
    PROVE  InputInv(w)'
<1>1. CASE wire' = wire
  BY <1>1 DEF InputInv, IsInput
<1>2. ASSUME NEW cmd \in Commands \ {"input"}, Sends(w, cmd, w) PROVE InputInv(w)'
  <2>1. /\ DOMAIN wire' = DOMAIN wire \cup {Len(wire) + 1}
        /\ (\A i \in DOMAIN wire : wire'[i] = wire[i]) /\ wire'[Len(wire) + 1].cmd = cmd
    BY <1>2, Sent DEF Arrives, Senders
  <2>2. \A i \in DOMAIN wire' : IsInput(i, w)' => i \in DOMAIN wire /\ IsInput(i, w)
    BY <1>2, <2>1 DEF IsInput
  <2> QED BY <2>2 DEF InputInv
<1>3. CASE Sends(w, "input", w) /\ ToSend(w) /\ ~ToSend(w)'
  <2>1. /\ DOMAIN wire' = DOMAIN wire \cup {Len(wire) + 1}
        /\ (\A i \in DOMAIN wire : wire'[i] = wire[i])
    BY <1>3, Sent DEF Arrives, Senders, Commands
  <2>2. left.hits[w] = 0 /\ \A i \in DOMAIN wire : ~IsInput(i, w)
    BY <1>3 DEF InputInv
  <2>3. \A i \in DOMAIN wire' : IsInput(i, w)' => i = Len(wire) + 1
    BY <2>1, <2>2 DEF IsInput
  <2> QED BY <1>3, <2>2, <2>3 DEF InputInv
<1> QED BY <1>1, <1>2, <1>3

----------------------------------------------------------------------------
(* The broker's steps.                                                      *)

\* A step that leaves the wire, the answers, the plugin and the settings alone.
LEMMA QuietStep ==
    ASSUME LeaseInv, NEW w \in Workers, NEW u, NEW o, NEW s, NEW f, NEW h, NEW st, NEW as, NEW pi, NEW to,
           Becomes(w, u, o, s, f, h), Backed(w, st, as, pi, to),
           UNCHANGED <<record, plugin, wire, answer, control, tool, left>>,
           broker[w].state # "off" /\ ~worker[w].up => st # "off" /\ ~u,
           StepInv(w)', PipeInv(w)', s \notin Asking \cup {"finish"}, ~ToSend(w) => ~ToSend(w)', o # "claim",
           to = "paused" => broker[w].told = "paused" /\ o # "resume" /\ pi \notin {"claim", "resume"},
           Ready(w), pi = "act" \/ o = "act" => "act" \notin left.todo[w]
    PROVE  LeaseInv'
<1>1. Typed /\ LocalInv(w) /\ ApprovalInv
  BY Parts
<1>2. Typed'
  BY <1>1 DEF Typed, MoreTypes, Becomes, Backed
<1>3. WireStep(w)
  BY <1>1, SilentStep
<1>4. OthersStay(w)
  BY <1>3 DEF OthersStay, Gone, Becomes, Backed
<1>5. AskedInv(w)'
  BY <1>1, AskedQuiet DEF LocalInv, Becomes, Asking
<1>6. RecordInv(w)'
  BY <1>1, RecordKept DEF LocalInv, Becomes
<1>7. PauseInv(w)'
  BY <1>1, PauseKept DEF LocalInv, Becomes, Backed
<1>8. InputInv(w)'
  BY <1>1, InputKept DEF LocalInv, Becomes, Backed
<1>9. FinishInv(w)'
  BY DEF FinishInv, Becomes
<1>10. LocalInv(w)' /\ ApprovalInv'
  BY <1>1, <1>5, <1>6, <1>7, <1>8, <1>9 DEF LocalInv, ApprovalInv
<1> QED BY <1>2, <1>4, <1>10, WorkerSteps

\* The process and the backend of w as they are.
LEMMA AsItIs ==
    ASSUME Typed, NEW w \in Workers
    PROVE  /\ worker[w] \in Processes /\ broker[w] \in Backends
           /\ worker' = worker =>
                 Becomes(w, worker[w].up, worker[w].op, worker[w].step, worker[w].fate, worker[w].holds)
           /\ broker' = broker =>
                 Backed(w, broker[w].state, broker[w].asks, broker[w].pipe, broker[w].told)
BY DEF Typed, Becomes, Backed

\* NativeWorker.create.
LEMMA StartStep ==
    ASSUME LeaseInv, NEW w \in Workers, Start(w)
    PROVE  LeaseInv'
<1>1. Typed /\ LocalInv(w)
  BY Parts
<1>2. worker[w] \in Processes /\ broker[w] \in Backends
  BY <1>1, AsItIs
<1> DEFINE r == [worker[w] EXCEPT !.up = TRUE, !.step = "idle"]
           b == [broker[w] EXCEPT !.state = "open"]
<1>3. worker' = [worker EXCEPT ![w] = r] /\ broker' = [broker EXCEPT ![w] = b]
  BY DEF Start
<1>4. /\ r \in Processes /\ r.up /\ r.op = worker[w].op /\ r.step = "idle" /\ r.fate = worker[w].fate
      /\ r.holds = worker[w].holds
  BY <1>2 DEF Processes, Steps
<1>5. b \in Backends /\ b.state = "open" /\ b.asks = broker[w].asks /\ b.pipe = broker[w].pipe
      /\ b.told = broker[w].told
  BY <1>2 DEF Backends
<1> HIDE DEF r, b
<1>6. Becomes(w, r.up, r.op, r.step, r.fate, r.holds) /\ Backed(w, b.state, b.asks, b.pipe, b.told)
  BY <1>1, <1>3, <1>4, <1>5, Put, PutBack DEF Typed
<1>7. StepInv(w)' /\ PipeInv(w)'
  BY <1>1, <1>4, <1>5, <1>6 DEF LocalInv, StepInv, PipeInv, Becomes, Backed, Start
<1>8. Ready(w) /\ worker[w].op = None
  BY <1>1 DEF LocalInv, StepInv, Start, Ready, NoneFrom
<1>9. ~ToSend(w) => ~ToSend(w)'
  BY <1>4, <1>5, <1>6, <1>8, NativeLeaseAssumption DEF ToSend, Becomes, Backed, Start, Ops, Executes
<1>10. "act" \in left.todo[w] => b.pipe # "act" /\ r.op # "act"
  BY <1>1, <1>4, <1>5 DEF LocalInv, InputInv
<1>11. b.told = "paused" => broker[w].told = "paused" /\ r.op # "resume" /\ b.pipe \notin {"claim", "resume"}
  BY <1>1, <1>4, <1>5 DEF LocalInv, PauseInv
<1>12. r.op # "claim"
  BY <1>4, <1>8, NativeLeaseAssumption DEF Ops, Executes
<1>13. UNCHANGED <<record, plugin, wire, answer, control, tool, left>>
       /\ broker[w].state = "off"
  BY DEF Start
<1> QED BY <1>4, <1>6, <1>7, <1>8, <1>9, <1>10, <1>11, <1>12, <1>13, QuietStep DEF Asking

\* A step of the backend alone that only forgets.
LEMMA BackendStep ==
    ASSUME LeaseInv, NEW w \in Workers, NEW st, NEW as, NEW pi, Backed(w, st, as, pi, broker[w].told),
           UNCHANGED <<worker, record, plugin, wire, answer, control, tool, left>>,
           st # "off", broker[w].state # "off", pi \in {None, broker[w].pipe},
           as # None => as = broker[w].asks /\ st = "open",
           st = "open" => as = broker[w].asks /\ broker[w].state = "open"
    PROVE  LeaseInv'
<1>1. Typed /\ LocalInv(w) /\ ApprovalInv
  BY Parts
<1>2. Typed'
  BY <1>1 DEF Typed, MoreTypes, Backed
<1>3. WireStep(w)
  BY <1>1, SilentStep
<1>4. OthersStay(w)
  BY <1>3 DEF OthersStay, Gone, Backed
<1>5. StepInv(w)'
  BY <1>1 DEF LocalInv, StepInv, Backed
<1>6. PipeInv(w)'
  <2>1. CASE st = "open"
    BY <1>1, <2>1 DEF LocalInv, PipeInv, Backed
  <2>2. CASE st # "open"
    BY <1>1, <2>2 DEF LocalInv, PipeInv, Backed
  <2> QED BY <2>1, <2>2
<1>7. RecordInv(w)' /\ AskedInv(w)' /\ FinishInv(w)'
  BY <1>1 DEF LocalInv, RecordInv, AskedInv, FinishInv, NoneFrom, PausedFor
<1>8. PauseInv(w)'
  BY <1>1, NativeLeaseAssumption DEF LocalInv, PauseInv, PausedFor, Backed, Ops, Executes
<1>9. InputInv(w)'
  BY <1>1, NativeLeaseAssumption DEF LocalInv, InputInv, ToSend, IsInput, Backed, Ops, Executes
<1>10. LocalInv(w)' /\ ApprovalInv'
  BY <1>1, <1>5, <1>6, <1>7, <1>8, <1>9 DEF LocalInv, ApprovalInv
<1> QED BY <1>2, <1>4, <1>10, WorkerSteps

\* close, and a request that took too long.
LEMMA StopStep ==
    ASSUME LeaseInv, NEW w \in Workers, Stop(w)
    PROVE  LeaseInv'
<1>1. Typed /\ LocalInv(w)
  BY Parts
<1>2. worker[w] \in Processes /\ broker[w] \in Backends
  BY <1>1, AsItIs
<1> DEFINE b == [broker[w] EXCEPT !.state = "closing", !.asks = None]
<1>3. worker' = worker /\ broker' = [broker EXCEPT ![w] = b]
  BY DEF Stop, Closing
<1>5. b \in Backends /\ b.state = "closing" /\ b.asks = None /\ b.pipe = broker[w].pipe
      /\ b.told = broker[w].told
  BY <1>2 DEF Backends
<1> HIDE DEF b
<1>6. Backed(w, b.state, b.asks, b.pipe, b.told)
  BY <1>1, <1>3, <1>5, PutBack DEF Typed
<1> QED BY <1>1, <1>3, <1>5, <1>6, BackendStep DEF Stop

\* The child's close event.
LEMMA ExitedStep ==
    ASSUME LeaseInv, NEW w \in Workers, Exited(w)
    PROVE  LeaseInv'
<1>1. Typed /\ LocalInv(w)
  BY Parts
<1>2. worker[w] \in Processes /\ broker[w] \in Backends
  BY <1>1, AsItIs
<1> DEFINE b == [broker[w] EXCEPT !.state = "ended", !.asks = None, !.pipe = None]
<1>3. broker' = [broker EXCEPT ![w] = b]
  BY DEF Exited
<1>5. b \in Backends /\ b.state = "ended" /\ b.asks = None /\ b.pipe = None /\ b.told = broker[w].told
  BY <1>2 DEF Backends
<1> HIDE DEF b
<1>6. Backed(w, b.state, b.asks, b.pipe, b.told)
  BY <1>1, <1>3, <1>5, PutBack DEF Typed
<1> QED BY <1>1, <1>3, <1>5, <1>6, BackendStep DEF Exited

\* reapWorkerLease.
LEMMA ReapWorkerStep ==
    ASSUME LeaseInv, NEW w \in Workers, ReapWorker(w)
    PROVE  LeaseInv'
<1>1. Typed /\ LocalInv(w)
  BY Parts
<1>2. worker[w] \in Processes /\ broker[w] \in Backends
  BY <1>1, AsItIs
<1> DEFINE b == [broker[w] EXCEPT !.state = "done"]
<1>3. broker' = [broker EXCEPT ![w] = b]
  BY DEF ReapWorker
<1>5. b \in Backends /\ b.state = "done" /\ b.asks = broker[w].asks /\ b.pipe = broker[w].pipe
      /\ b.told = broker[w].told
  BY <1>2 DEF Backends
<1> HIDE DEF b
<1>6. Backed(w, b.state, b.asks, b.pipe, b.told)
  BY <1>1, <1>3, <1>5, PutBack DEF Typed
<1>7. broker[w].asks = None
  BY <1>1 DEF LocalInv, PipeInv, ReapWorker
<1> QED BY <1>1, <1>3, <1>5, <1>6, <1>7, BackendStep DEF ReapWorker

\* A request is written to the pipe of a worker that reads it.
LEMMA AskStep ==
    ASSUME LeaseInv, NEW w \in Workers, NEW op \in left.todo[w], Ask(w, op)
    PROVE  LeaseInv'
<1>1. Typed /\ LocalInv(w) /\ ApprovalInv
  BY Parts
<1>2. worker[w] \in Processes /\ broker[w] \in Backends /\ left \in Lefts /\ op \in Ops
  <2>1. left \in Lefts
    BY <1>1 DEF Typed, MoreTypes
  <2> QED BY <1>1, <2>1, AsItIs DEF Lefts
<1> DEFINE t == IF op = "resume" THEN "running" ELSE broker[w].told
           b == [broker[w] EXCEPT !.asks = op, !.pipe = op, !.told = t]
<1>3. worker' = worker /\ broker' = [broker EXCEPT ![w] = b]
  BY DEF Ask
<1>4. t \in {"none", "running", "paused"} /\ (t = "paused" => broker[w].told = "paused" /\ op # "resume")
  BY <1>2 DEF Backends
<1> HIDE DEF t
<1>5. b \in Backends /\ b.state = broker[w].state /\ b.asks = op /\ b.pipe = op /\ b.told = t
  BY <1>2, <1>4 DEF Backends
<1> HIDE DEF b
<1>6. Backed(w, broker[w].state, op, op, t)
  BY <1>1, <1>3, <1>5, PutBack DEF Typed
<1>7. /\ left' \in Lefts /\ left'.hits = left.hits /\ left'.spent = left.spent /\ left'.given = left.given
      /\ left'.todo[w] = left.todo[w] \ {op} /\ (\A v \in Workers \ {w} : left'.todo[v] = left.todo[v])
  BY <1>2 DEF Ask, Lefts
<1>8. UNCHANGED <<record, plugin, wire, answer, control, tool>> /\ broker[w].state = "open"
      /\ broker[w].asks = None /\ worker[w].op = None /\ op # None
  BY <1>1, <1>2, NativeLeaseAssumption DEF Ask, LocalInv, PipeInv
<1>9. Typed'
  BY <1>1, <1>3, <1>6, <1>7, <1>8 DEF Typed, MoreTypes, Backed
<1>10. OthersStay(w)
  <2>1. WireStep(w)
    BY <1>1, <1>8, SilentStep
  <2> QED BY <1>3, <1>6, <1>7, <1>8, <2>1 DEF OthersStay, Gone, Backed
<1>11. StepInv(w)' /\ PipeInv(w)'
  BY <1>1, <1>3, <1>6, <1>8 DEF LocalInv, StepInv, PipeInv, Backed
<1>12. RecordInv(w)' /\ AskedInv(w)' /\ FinishInv(w)'
  BY <1>1, <1>3, <1>8 DEF LocalInv, RecordInv, AskedInv, FinishInv, NoneFrom, PausedFor
<1>13. PauseInv(w)'
  <2>1. op = "claim" => broker[w].told = "none"
    BY DEF Ask, Fitting
  <2> QED BY <1>1, <1>3, <1>4, <1>6, <1>8, <2>1 DEF LocalInv, PauseInv, PausedFor, Backed
<1>14. InputInv(w)'
  <2>1. ToSend(w)' => ToSend(w)
    BY <1>3, <1>6, <1>7, <1>8 DEF ToSend, Backed
  <2> QED BY <1>1, <1>3, <1>6, <1>7, <1>8, <2>1, InputKept, NativeLeaseAssumption
          DEF LocalInv, Backed, Ops, Executes
<1>15. LocalInv(w)' /\ ApprovalInv'
  BY <1>1, <1>7, <1>8, <1>11, <1>12, <1>13, <1>14 DEF LocalInv, ApprovalInv
<1> QED BY <1>9, <1>10, <1>15, WorkerSteps

\* A process that is gone: what it wrote is still on its way.
LEMMA DiesStep ==
    ASSUME LeaseInv, NEW w \in Workers, worker[w].up, Dies(w),
           UNCHANGED <<broker, record, plugin, tool>>, left' \in Lefts, left'.todo = left.todo,
           left'.hits = left.hits, left'.spent = left.spent, left'.given = left.given
    PROVE  LeaseInv'
<1>1. Typed /\ LocalInv(w) /\ ApprovalInv
  BY Parts
<1>2. worker[w] \in Processes /\ control \in Controls
  BY <1>1, AsItIs DEF Typed, MoreTypes
<1> DEFINE r == [worker[w] EXCEPT !.up = FALSE, !.step = "off", !.op = None]
<1>3. worker' = [worker EXCEPT ![w] = r]
  BY DEF Dies
<1>4. r \in Processes /\ ~r.up /\ r.op = None /\ r.step = "off"
  BY <1>2 DEF Processes, Steps
<1> HIDE DEF r
<1>5. Becomes(w, r.up, r.op, r.step, r.fate, r.holds)
  BY <1>1, <1>3, <1>4, Put DEF Typed
<1>6. control' \in Controls /\ control'.approval = control.approval
      /\ (\A v \in Workers \ {w} : control.lock = v => control'.lock = v)
  BY <1>2 DEF Dies, Controls
<1>7. /\ wire' \in Seq(Requests) /\ DOMAIN wire' = DOMAIN wire
      /\ \A i \in DOMAIN wire :
            /\ wire'[i].from = wire[i].from /\ wire'[i].cmd = wire[i].cmd /\ wire'[i].lease = wire[i].lease
            /\ wire'[i].heard <=> wire[i].heard /\ wire[i].from # w
            /\ wire[i].from # w => wire'[i].heard = wire[i].heard
  BY <1>1, AbandonedStep DEF Dies, Senders
<1>8. answer' \in [Senders -> Answers] /\ answer'[w] = "none" /\ \A o \in Senders \ {w} : answer'[o] = answer[o]
  BY <1>1 DEF Dies, Typed, Answers, Senders
<1>9. Typed'
  BY <1>1, <1>5, <1>6, <1>7, <1>8 DEF Typed, MoreTypes, Becomes
<1>10. OthersStay(w)
  <2>1. WireStep(w)
    BY <1>7 DEF WireStep
  <2>2. \A v \in Workers \ {w} : answer'[v] = answer[v]
    BY <1>8 DEF Senders
  <2>3. answer'[Owner] = answer[Owner]
    BY <1>8, NativeLeaseAssumption DEF Senders
  <2> QED BY <1>5, <1>6, <2>1, <2>2, <2>3 DEF OthersStay, Gone, Becomes
<1>11. StepInv(w)' /\ PipeInv(w)'
  BY <1>1, <1>4, <1>5 DEF LocalInv, StepInv, PipeInv, Becomes
<1>12. RecordInv(w)' /\ AskedInv(w)' /\ FinishInv(w)'
  <2>1. RecordInv(w)'
    BY <1>1, <1>4, <1>5, <1>7, NativeLeaseAssumption DEF LocalInv, RecordInv, Becomes, Ops, Executes
  <2>2. AskedInv(w)'
    BY <1>4, <1>5, <1>7, <1>8 DEF AskedInv, NoneFrom, Becomes
  <2>3. FinishInv(w)'
    BY <1>4, <1>5 DEF FinishInv, Becomes
  <2> QED BY <2>1, <2>2, <2>3
<1>13. PauseInv(w)'
  BY <1>1, <1>4, <1>5, <1>7, NativeLeaseAssumption DEF LocalInv, PauseInv, PausedFor, Becomes, Ops, Executes
<1>14. InputInv(w)'
  BY <1>1, <1>4, <1>5, <1>7, NativeLeaseAssumption
     DEF LocalInv, InputInv, ToSend, IsInput, Becomes, Ops, Executes
<1>15. LocalInv(w)' /\ ApprovalInv'
  BY <1>1, <1>6, <1>11, <1>12, <1>13, <1>14 DEF LocalInv, ApprovalInv
<1> QED BY <1>9, <1>10, <1>15, WorkerSteps

\* Signals, and a crash.
LEMMA EndStep ==
    ASSUME LeaseInv, NEW w \in Workers, Signals(w) \/ Crashes(w)
    PROVE  LeaseInv'
<1>1. left \in Lefts
  BY Parts DEF Typed, MoreTypes
<1>2. CASE Signals(w)
  BY <1>1, <1>2, DiesStep DEF Signals
<1>3. CASE Crashes(w)
  <2>1. /\ left' \in Lefts /\ left'.todo = left.todo /\ left'.hits = left.hits
        /\ left'.spent = left.spent /\ left'.given = left.given
    BY <1>1, <1>3 DEF Crashes, Lefts
  <2> QED BY <1>3, <2>1, DiesStep DEF Crashes
<1> QED BY <1>2, <1>3

\* The deadline of an exchange of a worker.
LEMMA ExpiresStep ==
    ASSUME LeaseInv, NEW w \in Workers, ExchangeExpires(w)
    PROVE  LeaseInv'
<1>1. Typed /\ LocalInv(w) /\ ApprovalInv /\ left \in Lefts
  BY Parts DEF Typed, MoreTypes
<1>2. /\ wire' \in Seq(Requests) /\ DOMAIN wire' = DOMAIN wire
      /\ \A i \in DOMAIN wire :
            /\ wire'[i].from = wire[i].from /\ wire'[i].cmd = wire[i].cmd /\ wire'[i].lease = wire[i].lease
            /\ wire'[i].heard <=> wire[i].heard /\ wire[i].from # w
            /\ wire[i].from # w => wire'[i].heard = wire[i].heard
  BY <1>1, AbandonedStep DEF ExchangeExpires, Senders
<1>3. answer' \in [Senders -> Answers] /\ answer'[w] = "lost" /\ \A o \in Senders \ {w} : answer'[o] = answer[o]
  BY <1>1 DEF ExchangeExpires, Typed, Answers, Senders
<1>4. /\ left' \in Lefts /\ left'.todo = left.todo /\ left'.hits = left.hits
      /\ left'.spent = left.spent /\ left'.given = left.given
  BY <1>1 DEF ExchangeExpires, Lefts
<1>5. UNCHANGED <<worker, broker, record, plugin, control, tool>>
  BY DEF ExchangeExpires
<1>6. Typed'
  BY <1>1, <1>2, <1>3, <1>4, <1>5 DEF Typed, MoreTypes
<1>7. OthersStay(w)
  <2>1. WireStep(w)
    BY <1>2 DEF WireStep
  <2>2. \A v \in Workers \ {w} : answer'[v] = answer[v]
    BY <1>3 DEF Senders
  <2>3. answer'[Owner] = answer[Owner]
    BY <1>3, NativeLeaseAssumption DEF Senders
  <2> QED BY <1>4, <1>5, <2>1, <2>2, <2>3 DEF OthersStay, Gone
<1>8. StepInv(w)' /\ PipeInv(w)'
  BY <1>1, <1>2, <1>5 DEF LocalInv, StepInv, PipeInv, NoneFrom
<1>9. RecordInv(w)' /\ AskedInv(w)' /\ FinishInv(w)'
  BY <1>1, <1>2, <1>3, <1>5 DEF LocalInv, RecordInv, AskedInv, FinishInv, NoneFrom, PausedFor
<1>10. PauseInv(w)'
  BY <1>1, <1>2, <1>5 DEF LocalInv, PauseInv, PausedFor
<1>11. InputInv(w)'
  <2>1. InputInv(w)
    BY <1>1 DEF LocalInv
  <2>2. ToSend(w)' => ToSend(w)
    BY <1>3, <1>4, <1>5 DEF ToSend
  <2>3. \A i \in DOMAIN wire : IsInput(i, w)' <=> IsInput(i, w)
    BY <1>2 DEF IsInput
  <2> QED BY <1>2, <1>4, <1>5, <2>1, <2>2, <2>3 DEF InputInv
<1>12. LocalInv(w)' /\ ApprovalInv'
  BY <1>1, <1>4, <1>5, <1>8, <1>9, <1>10, <1>11 DEF LocalInv, ApprovalInv
<1> QED BY <1>6, <1>7, <1>12, WorkerSteps

\* ActionControl.configure: the owner approves one exact request.
LEMMA ApprovesStep ==
    ASSUME LeaseInv, NEW w \in Workers, NEW op \in left.todo[w], Approves(w, op)
    PROVE  LeaseInv'
<1>1. Typed /\ LocalInv(w) /\ ApprovalInv /\ left \in Lefts /\ control \in Controls
  BY Parts DEF Typed, MoreTypes
<1>2. op \in Ops
  BY <1>1 DEF Lefts
<1>3. Request(w, op) \in Approvals /\ Request(w, op) # None
  BY <1>2, NativeLeaseAssumption DEF Request, Approvals
<1>4. control' \in Controls /\ control'.approval # None /\ control.lock = None /\ control'.lock = None
  BY <1>1, <1>3 DEF Approves, Controls
<1>5. /\ left' \in Lefts /\ left'.todo = left.todo /\ left'.hits = left.hits
      /\ left'.spent = left.spent /\ left'.given = left.given + 1
      /\ left.spent \in Nat /\ left.given \in Nat
  <2>1. left.spent \in Nat /\ left.given \in Nat /\ left.approvals \in Int
    BY <1>1 DEF Lefts
  <2>2. left.given + 1 \in Nat /\ left.approvals - 1 \in Int
    BY <2>1
  <2>3. left' = [left EXCEPT !.approvals = left.approvals - 1, !.given = left.given + 1]
    BY DEF Approves
  <2> QED BY <1>1, <2>1, <2>2, <2>3 DEF Lefts
<1>6. UNCHANGED <<worker, broker, record, plugin, wire, answer, tool>>
  BY DEF Approves
<1>7. Typed'
  BY <1>1, <1>4, <1>5, <1>6 DEF Typed, MoreTypes
<1>8. OthersStay(w)
  <2>1. WireStep(w)
    BY <1>1, <1>6, SilentStep
  <2> QED BY <1>4, <1>5, <1>6, <2>1, NativeLeaseAssumption DEF OthersStay, Gone
<1>9. StepInv(w)' /\ PipeInv(w)'
  BY <1>1, <1>4, <1>6, NativeLeaseAssumption DEF LocalInv, StepInv, PipeInv, NoneFrom
<1>10. RecordInv(w)' /\ AskedInv(w)' /\ FinishInv(w)' /\ PauseInv(w)'
  BY <1>1, <1>6 DEF LocalInv, RecordInv, AskedInv, FinishInv, PauseInv, NoneFrom, PausedFor
<1>11. InputInv(w)'
  BY <1>1, <1>5, <1>6 DEF LocalInv, InputInv, ToSend, IsInput
<1>12. ApprovalInv'
  BY <1>1, <1>4, <1>5 DEF ApprovalInv
<1>13. LocalInv(w)'
  BY <1>9, <1>10, <1>11 DEF LocalInv
<1> QED BY <1>7, <1>8, <1>12, <1>13, WorkerSteps

----------------------------------------------------------------------------
(* The worker's steps.                                                      *)

\* The lock that another worker holds stays, with the approval it found.
LocksKept(w) == \A v \in Workers \ {w} :
    control.lock = v => control'.lock = v /\ control'.approval = control.approval

\* What w sends as it goes on to s.
Exchanges(w, s) ==
    \/ Silent /\ s \notin Asking
    \/ Forgets(w) /\ s \notin Asking
    \/ \E cmd \in Commands :
          /\ Sends(w, cmd, w) /\ s \in Asking /\ (s = "reap" => cmd = "reap")
          /\ s = "asks" /\ worker[w].op = "pause" => cmd = "pause"
          /\ cmd \in {"claim", "resume"} => worker[w].op = cmd
          /\ cmd = "input" => ToSend(w) /\ worker[w].op = "act" /\ s = "asks"

\* What is behind w when its operation went well.
Concludes(w, s, f) ==
    s = "finish" /\ f = "ok" =>
        /\ worker[w].op \in {"handback", "close"} /\ worker[w].holds => plugin.holder # w /\ NoneFrom(w)
        /\ worker[w].op = "pause" => PausedFor(w) /\ NoneFrom(w)

\* A step of a worker that runs touches its own records, and perhaps sends one request.
LEMMA WorkFrame ==
    ASSUME Typed, NEW w \in Workers, worker[w].up,
           worker' \in [Workers -> Processes], \A v \in Workers \ {w} : worker'[v] = worker[v],
           broker' \in [Workers -> Backends], \A v \in Workers \ {w} : broker'[v] = broker[v],
           record' \subseteq Workers, \A v \in Workers \ {w} : v \in record' <=> v \in record,
           plugin' = plugin, tool' = tool, Silent \/ Forgets(w) \/ \E cmd \in Commands : Sends(w, cmd, w),
           control' \in Controls, LocksKept(w), left' \in Lefts, left'.todo = left.todo, left'.hits = left.hits
    PROVE  Typed' /\ OthersStay(w)
<1>1. /\ answer' \in [Senders -> Answers] /\ wire' \in Seq(Requests) /\ WireStep(w)
      /\ \A o \in Senders \ {w} : answer'[o] = answer[o]
  <2>1. CASE Silent
    BY <2>1, SilentStep DEF Silent, Typed, MoreTypes
  <2>2. CASE Forgets(w)
    BY <2>2, SilentStep DEF Forgets, Typed, MoreTypes, Answers
  <2>3. ASSUME NEW cmd \in Commands, Sends(w, cmd, w)
        PROVE  /\ answer' \in [Senders -> Answers] /\ wire' \in Seq(Requests) /\ WireStep(w)
               /\ \A o \in Senders \ {w} : answer'[o] = answer[o]
    BY <2>3, Sent, SentStep DEF Arrives, Senders
  <2> QED BY <2>1, <2>2, <2>3
<1>2. /\ \A v \in Workers \ {w} : answer'[v] = answer[v]
      /\ answer'[Owner] = answer[Owner]
  BY <1>1, NativeLeaseAssumption DEF Senders
<1> QED BY <1>1, <1>2 DEF Typed, MoreTypes, OthersStay, Gone, LocksKept

\* A worker goes on with its operation.
LEMMA GoesStep ==
    ASSUME LeaseInv, NEW w \in Workers, NEW s \in Steps \ {"off", "idle"}, NEW f,
           worker[w].step \notin {"off", "idle"},
           Becomes(w, worker[w].up, worker[w].op, s, f, worker[w].holds),
           UNCHANGED <<broker, record, plugin, tool>>,
           control' \in Controls, LocksKept(w), left' \in Lefts,
           left'.todo = left.todo, left'.hits = left.hits, ApprovalInv', Ready(w),
           s = "spend" => worker[w].op \in Executes /\ control'.lock = w /\ control'.approval # None,
           s \in {"handback", "reap"} => worker[w].op \in {"handback", "close"},
           s = "asks" => worker[w].op \notin {"handback", "close"},
           Exchanges(w, s), Concludes(w, s, f),
           worker[w].op = "act" /\ s \in {"begin", "spend", "info"} =>
              worker[w].step \in {"begin", "spend", "info"}
    PROVE  LeaseInv'
<1>1. Typed /\ LocalInv(w) /\ worker[w].up /\ worker[w].op # None
  BY Parts DEF LocalInv, StepInv
<1>2. Typed' /\ OthersStay(w)
  <2>1. broker' \in [Workers -> Backends] /\ record' \subseteq Workers
    BY <1>1 DEF Typed
  <2>2. Silent \/ Forgets(w) \/ \E cmd \in Commands : Sends(w, cmd, w)
    BY DEF Exchanges
  <2>3. worker' \in [Workers -> Processes] /\ \A v \in Workers \ {w} : worker'[v] = worker[v]
    BY DEF Becomes
  <2> QED BY <1>1, <2>1, <2>2, <2>3, WorkFrame
<1>3. Silent \/ Forgets(w) => wire' = wire /\ answer'[w] \in {"none", answer[w]}
  BY <1>1 DEF Silent, Forgets, Typed, Senders
<1>4. StepInv(w)'
  BY <1>1 DEF LocalInv, StepInv, Becomes
<1>5. PipeInv(w)'
  BY <1>1 DEF LocalInv, PipeInv, Becomes
<1>6. RecordInv(w)'
  <2>1. worker[w].op = "claim" => w \in record
    BY <1>1 DEF LocalInv, RecordInv
  <2> QED BY <1>1, <1>3, <2>1, RecordKept DEF LocalInv, Becomes, Exchanges
<1>7. AskedInv(w)'
  <2>1. CASE (Silent \/ Forgets(w)) /\ s \notin Asking
    BY <1>1, <1>3, <2>1, AskedQuiet DEF LocalInv, Becomes, Asking
  <2>2. CASE ~((Silent \/ Forgets(w)) /\ s \notin Asking)
    BY <1>1, <2>2, AskedSent DEF Becomes, Exchanges
  <2> QED BY <2>1, <2>2
<1>8. FinishInv(w)'
  BY <1>3 DEF FinishInv, Becomes, NoneFrom, PausedFor, Asking, Exchanges, Concludes
<1>9. PauseInv(w)'
  <2>1. broker[w].told = "paused" => worker[w].op \notin {"claim", "resume"}
                                     /\ broker[w].pipe \notin {"claim", "resume"}
    BY <1>1 DEF LocalInv, PauseInv
  <2>2. broker[w].told = "paused" => wire' = wire \/ \E cmd \in Commands \ {"claim", "resume"} : Sends(w, cmd, w)
    BY <1>3, <2>1 DEF Exchanges
  <2> QED BY <1>1, <2>1, <2>2, PauseKept DEF LocalInv, Becomes
<1>10. InputInv(w)'
  <2>1. worker[w].op = "act" => "act" \notin left.todo[w] /\ broker[w].pipe = None
    BY <1>1 DEF LocalInv, InputInv, PipeInv
  <2>2. answer'[w] = "owner" => s # "asks"
    BY <1>1, <1>3, Sent DEF Arrives, Asking, Senders, Exchanges
  <2>3. ToSend(w)' => ToSend(w)
    BY <2>2 DEF ToSend, Becomes
  <2>4. worker[w].op = "act" /\ s = "asks" => ~ToSend(w)'
    BY <2>1, <2>2, NativeLeaseAssumption DEF ToSend, Becomes, Ops, Executes
  <2>5. "act" \in left.todo[w] => broker[w].pipe # "act"
    BY <1>1 DEF LocalInv, InputInv
  <2>6. \/ wire' = wire
        \/ \E cmd \in Commands \ {"input"} : Sends(w, cmd, w)
        \/ Sends(w, "input", w) /\ ToSend(w) /\ ~ToSend(w)'
    BY <1>3, <2>4 DEF Exchanges
  <2> QED BY <1>1, <2>1, <2>3, <2>5, <2>6, InputKept DEF LocalInv, Becomes
<1>11. LocalInv(w)'
  BY <1>4, <1>5, <1>6, <1>7, <1>8, <1>9, <1>10 DEF LocalInv
<1> QED BY <1>2, <1>11, WorkerSteps

\* A worker that is done answers, or ends: what the broker makes of it.
LEMMA RestsStep ==
    ASSUME LeaseInv, NEW w \in Workers, NEW res, NEW u \in BOOLEAN, NEW s \in {"off", "idle"}, NEW f, NEW h,
           worker[w].step \notin {"off", "idle"}, broker' = Told(w, res), Becomes(w, u, None, s, f, h),
           u <=> s # "off", Silent \/ Forgets(w), UNCHANGED <<plugin, control, tool, left>>,
           record' \subseteq Workers, \A v \in Workers \ {w} : v \in record' <=> v \in record,
           w \in record' \/ (record' \subseteq record /\ (w \in record => plugin.holder # w /\ NoneFrom(w))),
           Ready(w), res = "ok" /\ worker[w].op = "pause" => PausedFor(w) /\ NoneFrom(w)
    PROVE  LeaseInv'
<1>1. Typed /\ LocalInv(w) /\ ApprovalInv /\ worker[w].up /\ worker[w].op # None
  BY Parts DEF LocalInv, StepInv
<1>2. /\ broker' \in [Workers -> Backends] /\ (\A v \in Workers \ {w} : broker'[v] = broker[v])
      /\ broker'[w].pipe = broker[w].pipe
      /\ \/ broker' = broker /\ broker[w].asks # worker[w].op
         \/ /\ broker[w].asks = worker[w].op /\ broker'[w].asks = None
            /\ broker'[w].state \in {broker[w].state, "closing"}
            /\ \/ broker'[w].told = broker[w].told
               \/ res = "ok" /\ broker'[w].told = "running"
               \/ res = "ok" /\ worker[w].op = "pause" /\ broker'[w].told = "paused"
  BY <1>1, ToldSo
<1>3. Typed' /\ OthersStay(w)
  <2>1. control' \in Controls /\ left' \in Lefts /\ LocksKept(w)
    BY <1>1 DEF Typed, MoreTypes, LocksKept
  <2>2. worker' \in [Workers -> Processes] /\ \A v \in Workers \ {w} : worker'[v] = worker[v]
    BY DEF Becomes
  <2> QED BY <1>1, <1>2, <2>1, <2>2, WorkFrame
<1>4. wire' = wire /\ answer'[w] \in {"none", answer[w]}
  BY <1>1 DEF Silent, Forgets, Typed, Senders
<1>5. broker[w].state # "off" /\ broker[w].pipe = None /\ broker'[w].state # "off"
  BY <1>1, <1>2 DEF LocalInv, StepInv, PipeInv
<1>6. StepInv(w)'
  BY <1>1, <1>5 DEF LocalInv, StepInv, Becomes
<1>7. PipeInv(w)'
  BY <1>1, <1>2, <1>5 DEF LocalInv, PipeInv, Becomes
<1>8. RecordInv(w)'
  <2>1. None # "claim"
    BY NativeLeaseAssumption DEF Ops, Executes
  <2>2. CASE w \in record'
    BY <1>1, <1>4, <2>1, <2>2 DEF LocalInv, RecordInv, Becomes
  <2>3. CASE w \notin record'
    BY <1>1, <1>4, <2>1, <2>3 DEF LocalInv, RecordInv, Becomes, NoneFrom
  <2> QED BY <2>2, <2>3
<1>9. AskedInv(w)'
  BY <1>1, <1>4, AskedQuiet DEF LocalInv, Becomes, Asking
<1>10. FinishInv(w)'
  BY DEF FinishInv, Becomes
<1>11. PauseInv(w)'
  <2>1. None \notin {"claim", "resume"}
    BY NativeLeaseAssumption DEF Ops, Executes
  <2>2. CASE broker[w].told = "paused"
    BY <1>1, <1>4, <1>5, <2>1, <2>2, <1>2 DEF LocalInv, PauseInv, PausedFor, Becomes
  <2>3. CASE broker[w].told # "paused"
    BY <1>4, <1>5, <2>1, <2>3, <1>2 DEF PauseInv, PausedFor, NoneFrom, Becomes
  <2> QED BY <2>2, <2>3
<1>12. InputInv(w)'
  <2>1. None # "act"
    BY NativeLeaseAssumption DEF Ops, Executes
  <2>2. ToSend(w)' => ToSend(w)
    BY <1>2, <2>1 DEF ToSend, Becomes
  <2> QED BY <1>1, <1>2, <1>4, <1>5, <2>1, <2>2, InputKept DEF LocalInv, Becomes
<1>13. LocalInv(w)' /\ ApprovalInv'
  BY <1>1, <1>6, <1>7, <1>8, <1>9, <1>10, <1>11, <1>12 DEF LocalInv, ApprovalInv
<1> QED BY <1>3, <1>13, WorkerSteps

\* An answer that leaves the record alone.
LEMMA AnsweredStep ==
    ASSUME LeaseInv, NEW w \in Workers, NEW res, worker[w].step \notin {"off", "idle"}, Answered(w, res),
           Silent \/ Forgets(w), UNCHANGED <<record, plugin, control, tool, left>>, Ready(w),
           res = "ok" /\ worker[w].op = "pause" => PausedFor(w) /\ NoneFrom(w)
    PROVE  LeaseInv'
<1>1. Typed /\ LocalInv(w)
  BY Parts
<1>2. worker[w].up /\ (plugin.holder = w => w \in record) /\ record \subseteq Workers
  BY <1>1 DEF Typed, LocalInv, StepInv, RecordInv
<1>3. Becomes(w, TRUE, None, "idle", "ok", worker[w].holds)
  BY <1>1, <1>2, RestsSo, AsItIs DEF Answered, Processes
<1>4. broker' = Told(w, res)
  BY DEF Answered
<1>5. w \in record' \/ (record' \subseteq record /\ (w \in record => plugin.holder # w /\ NoneFrom(w)))
  OBVIOUS
<1> QED BY <1>2, <1>3, <1>4, <1>5, RestsStep

\* The main loop reads a request, or the end of its input.
LEMMA ReadsStep ==
    ASSUME LeaseInv, NEW w \in Workers, Reads(w)
    PROVE  LeaseInv'
<1>1. Typed /\ LocalInv(w) /\ ApprovalInv
  BY Parts
<1>2. worker[w] \in Processes /\ broker[w] \in Backends
  BY <1>1, AsItIs
<1> DEFINE op == IF broker[w].pipe = None THEN "close" ELSE broker[w].pipe
           s == IF op \in {"pause", "resume"} THEN "info" ELSE "begin"
           r == [worker[w] EXCEPT !.op = op, !.holds = worker[w].holds \/ op = "claim", !.step = s]
           b == [broker[w] EXCEPT !.pipe = None]
<1>3. /\ op \in Ops /\ op # None /\ s \in {"info", "begin"}
      /\ op = "act" => s = "begin" /\ broker[w].pipe = "act"
      /\ op \in {"claim", "resume"} => broker[w].pipe = op
  BY <1>2, NativeLeaseAssumption DEF Backends, Ops, Executes, Cleanups
<1>4. worker' = [worker EXCEPT ![w] = r] /\ broker' = [broker EXCEPT ![w] = b]
  BY DEF Reads
<1>5. /\ broker[w].pipe = None => broker[w].state = "closing"
      /\ record' = IF op = "claim" THEN record \cup {w} ELSE record
      /\ (Silent /\ s = "begin") \/ (Sends(w, "info", w) /\ s = "info")
      /\ worker[w].step = "idle" /\ UNCHANGED <<plugin, control, tool, left>>
  BY DEF Reads
<1>6. broker[w].pipe # None => op = broker[w].pipe
  OBVIOUS
<1> HIDE DEF op, s
<1>7. /\ r \in Processes /\ r.up = worker[w].up /\ r.op = op /\ r.step = s
  BY <1>2, <1>3 DEF Processes, Steps
<1>8. b \in Backends /\ b.state = broker[w].state /\ b.asks = broker[w].asks /\ b.pipe = None
      /\ b.told = broker[w].told
  BY <1>2 DEF Backends
<1> HIDE DEF r, b
<1>9. Becomes(w, worker[w].up, op, s, r.fate, r.holds)
      /\ Backed(w, broker[w].state, broker[w].asks, None, broker[w].told)
  BY <1>1, <1>4, <1>7, <1>8, Put, PutBack DEF Typed
<1>10. worker[w].up /\ worker[w].op = None /\ Ready(w)
  BY <1>1, <1>5, ReadyWhen DEF LocalInv, StepInv, Asking
<1>11. Typed' /\ OthersStay(w)
  <2>1. worker' \in [Workers -> Processes] /\ \A v \in Workers \ {w} : worker'[v] = worker[v]
    BY <1>9 DEF Becomes
  <2>2. broker' \in [Workers -> Backends] /\ \A v \in Workers \ {w} : broker'[v] = broker[v]
    BY <1>9 DEF Backed
  <2>3. control' \in Controls /\ left' \in Lefts /\ record' \subseteq Workers /\ LocksKept(w)
    BY <1>1, <1>5 DEF Typed, MoreTypes, LocksKept
  <2>4. Silent \/ \E cmd \in Commands : Sends(w, cmd, w)
    BY <1>5 DEF Commands
  <2>5. \A v \in Workers \ {w} : v \in record' <=> v \in record
    BY <1>5
  <2> QED BY <1>1, <1>5, <1>10, <2>1, <2>2, <2>3, <2>4, <2>5, WorkFrame
<1>12. StepInv(w)'
  BY <1>1, <1>3, <1>5, <1>9, <1>10 DEF LocalInv, StepInv, Becomes, Backed
<1>13. PipeInv(w)'
  BY <1>1, <1>3, <1>5, <1>6, <1>9, <1>10 DEF LocalInv, PipeInv, Becomes, Backed
<1>14. RecordInv(w)'
  <2>1. wire' = wire \/ \E cmd \in Commands : Sends(w, cmd, w) /\ (cmd = "claim" => w \in record')
    <3>1. "info" \in Commands
      BY DEF Commands
    <3> QED BY <1>5, <3>1 DEF Silent
  <2>2. (w \in record => w \in record') /\ (op = "claim" => w \in record')
    BY <1>5
  <2> QED BY <1>1, <1>5, <1>9, <2>1, <2>2, RecordKept DEF LocalInv, Becomes
<1>15. AskedInv(w)'
  <2>1. CASE Silent /\ s = "begin"
    BY <1>1, <1>5, <1>9, <1>10, <2>1, AskedQuiet DEF LocalInv, Becomes, Silent
  <2>2. CASE Sends(w, "info", w) /\ s = "info"
    BY <1>1, <1>5, <1>9, <1>10, <2>2, AskedSent DEF LocalInv, Becomes, Asking, Commands
  <2> QED BY <1>5, <2>1, <2>2
<1>16. FinishInv(w)'
  BY <1>3, <1>9 DEF FinishInv, Becomes
<1>17. PauseInv(w)'
  <2>1. None \notin {"claim", "resume"}
    BY NativeLeaseAssumption DEF Ops, Executes
  <2>2. broker[w].told = "paused" => op \notin {"claim", "resume"}
    BY <1>1, <1>3 DEF LocalInv, PauseInv
  <2>3. wire' = wire \/ \E cmd \in Commands \ {"claim", "resume"} : Sends(w, cmd, w)
    BY <1>5 DEF Silent, Commands
  <2> QED BY <1>1, <1>5, <1>9, <2>1, <2>2, <2>3, PauseKept DEF LocalInv, Becomes, Backed
<1>18. InputInv(w)'
  <2>1. None # "act"
    BY NativeLeaseAssumption DEF Ops, Executes
  <2>2. ToSend(w)' => ToSend(w)
    BY <1>3, <1>5, <1>9, <2>1 DEF ToSend, Becomes, Backed
  <2>3. wire' = wire \/ \E cmd \in Commands \ {"input"} : Sends(w, cmd, w)
    BY <1>5 DEF Silent, Commands
  <2>4. op = "act" => "act" \notin left.todo[w]
    BY <1>1, <1>3 DEF LocalInv, InputInv
  <2> QED BY <1>1, <1>5, <1>9, <2>1, <2>2, <2>3, <2>4, InputKept DEF LocalInv, Becomes, Backed
<1>19. LocalInv(w)' /\ ApprovalInv'
  BY <1>1, <1>5, <1>12, <1>13, <1>14, <1>15, <1>16, <1>17, <1>18 DEF LocalInv, ApprovalInv
<1> QED BY <1>11, <1>19, WorkerSteps

\* What GoesStep asks of a step that leaves the settings and the budget alone.
LEMMA WorkStep ==
    ASSUME LeaseInv, NEW w \in Workers, NEW s \in Steps \ {"off", "idle", "spend"}, NEW f,
           worker[w].step \notin {"off", "idle", "spend"},
           Becomes(w, worker[w].up, worker[w].op, s, f, worker[w].holds),
           UNCHANGED <<broker, record, plugin, control, tool, left>>,
           Ready(w),
           s \in {"handback", "reap"} => worker[w].op \in {"handback", "close"},
           s = "asks" => worker[w].op \notin {"handback", "close"},
           Exchanges(w, s), Concludes(w, s, f),
           worker[w].op = "act" /\ s \in {"begin", "info"} => worker[w].step \in {"begin", "info"}
    PROVE  LeaseInv'
<1>1. control' \in Controls /\ left' \in Lefts /\ ApprovalInv' /\ LocksKept(w)
  BY Parts DEF Typed, MoreTypes, ApprovalInv, LocksKept
<1> QED BY <1>1, GoesStep

\* ActionControl.execute, its first part, where it admits what it is asked.
LEMMA BeginsStep ==
    ASSUME LeaseInv, NEW w \in Workers, Begins(w)
    PROVE  LeaseInv'
<1>1. Typed /\ LocalInv(w) /\ ApprovalInv /\ control \in Controls
  BY Parts DEF Typed, MoreTypes
<1>2. worker[w].step = "begin" /\ worker[w].op \in Executes /\ control.lock = None
      /\ UNCHANGED <<record, plugin, tool, left>>
  BY DEF Begins
<1>3. Ready(w)
  BY <1>1, <1>2, ReadyWhen DEF LocalInv, Asking
<1>4. CASE control.mode = "full"
  <2>1. Sends(w, First(worker[w].op), w) /\ Goes(w, Then(worker[w].op)) /\ UNCHANGED <<broker, control>>
    BY <1>4 DEF Begins, Goes
  <2>2. First(worker[w].op) \in Commands /\ Then(worker[w].op) \in {"info", "asks"}
    BY <1>2 DEF First, Then, Commands, Executes
  <2>3. Becomes(w, worker[w].up, worker[w].op, Then(worker[w].op), worker[w].fate, worker[w].holds)
    BY <1>1, <2>1, <2>2, GoesOn DEF Steps
  <2>4. /\ First(worker[w].op) \in {"claim", "resume"} => worker[w].op = First(worker[w].op)
        /\ First(worker[w].op) # "input" /\ worker[w].op \notin {"pause", "handback", "close"}
    BY <1>2 DEF First, Executes
  <2>5. Exchanges(w, Then(worker[w].op)) /\ Concludes(w, Then(worker[w].op), worker[w].fate)
    BY <2>1, <2>2, <2>4 DEF Exchanges, Concludes, Asking
  <2> QED BY <1>2, <1>3, <2>1, <2>2, <2>3, <2>4, <2>5, WorkStep DEF Steps
<1>5. CASE control.mode = "protected" /\ control.approval = Request(w, worker[w].op)
  <2>1. control' = [control EXCEPT !.lock = w] /\ Goes(w, "spend") /\ Silent /\ UNCHANGED broker
    BY <1>5 DEF Begins, Goes
  <2>2. control' \in Controls /\ control'.lock = w /\ control'.approval = control.approval
    BY <1>1, <2>1 DEF Controls
  <2>3. Becomes(w, worker[w].up, worker[w].op, "spend", worker[w].fate, worker[w].holds)
    BY <1>1, <2>1, GoesOn DEF Steps
  <2>4. control.approval # None
    BY <1>2, <1>5, NativeLeaseAssumption DEF Request, Ops
  <2>5. left' \in Lefts /\ ApprovalInv'
    BY <1>1, <1>2, <2>2 DEF Typed, MoreTypes, ApprovalInv
  <2>6. LocksKept(w)
    BY <1>2, NativeLeaseAssumption DEF LocksKept
  <2>7. Exchanges(w, "spend") /\ Concludes(w, "spend", worker[w].fate)
    BY <2>1 DEF Exchanges, Concludes, Asking
  <2> QED BY <1>2, <1>3, <2>1, <2>2, <2>3, <2>4, <2>5, <2>6, <2>7, GoesStep DEF Steps
<1>6. CASE control.mode # "full" /\ ~(control.mode = "protected" /\ control.approval = Request(w, worker[w].op))
  <2>1. Answered(w, "refused") /\ Silent /\ UNCHANGED control
    BY <1>6 DEF Begins
  <2> QED BY <1>2, <1>3, <2>1, AnsweredStep
<1> QED BY <1>4, <1>5, <1>6

\* ActionControl.execute, its second part: the approval is spent and the request goes out.
LEMMA SpendsStep ==
    ASSUME LeaseInv, NEW w \in Workers, Spends(w)
    PROVE  LeaseInv'
<1>1. Typed /\ LocalInv(w) /\ ApprovalInv /\ control \in Controls /\ left \in Lefts
  BY Parts DEF Typed, MoreTypes
<1>2. /\ worker[w].step = "spend" /\ worker[w].op \in Executes /\ control.lock = w
      /\ control.approval # None /\ UNCHANGED <<broker, record, plugin, tool>>
      /\ Sends(w, First(worker[w].op), w) /\ Goes(w, Then(worker[w].op))
  BY <1>1 DEF Spends, LocalInv, StepInv, Goes
<1>3. Ready(w)
  BY <1>1, <1>2, ReadyWhen DEF LocalInv, Asking
<1>4. First(worker[w].op) \in Commands /\ Then(worker[w].op) \in {"info", "asks"}
  BY <1>2 DEF First, Then, Commands, Executes
<1>5. Becomes(w, worker[w].up, worker[w].op, Then(worker[w].op), worker[w].fate, worker[w].holds)
  BY <1>1, <1>2, <1>4, GoesOn DEF Steps
<1>6. /\ First(worker[w].op) \in {"claim", "resume"} => worker[w].op = First(worker[w].op)
      /\ First(worker[w].op) # "input" /\ worker[w].op \notin {"pause", "handback", "close"}
  BY <1>2 DEF First, Executes
<1>7. control' \in Controls /\ control'.approval = None
  BY <1>1 DEF Spends, Controls
<1>8. /\ left' \in Lefts /\ left'.todo = left.todo /\ left'.hits = left.hits
      /\ left'.spent = left.spent + 1 /\ left'.given = left.given
      /\ left.spent \in Nat /\ left.given \in Nat
  <2>1. left.spent \in Nat /\ left.given \in Nat
    BY <1>1 DEF Lefts
  <2>2. left' = [left EXCEPT !.spent = left.spent + 1] /\ left.spent + 1 \in Nat
    BY <2>1 DEF Spends
  <2> QED BY <1>1, <2>1, <2>2 DEF Lefts
<1>9. ApprovalInv'
  BY <1>1, <1>2, <1>7, <1>8 DEF ApprovalInv
<1>10. LocksKept(w)
  BY <1>2 DEF LocksKept
<1>11. Exchanges(w, Then(worker[w].op)) /\ Concludes(w, Then(worker[w].op), worker[w].fate)
  BY <1>2, <1>4, <1>6 DEF Exchanges, Concludes, Asking
<1> QED BY <1>2, <1>3, <1>4, <1>5, <1>6, <1>7, <1>8, <1>9, <1>10, <1>11, GoesStep DEF Steps

\* ActionControl.cleanup: the cleanup goes on whether or not it was noted.
LEMMA CleansUpStep ==
    ASSUME LeaseInv, NEW w \in Workers, CleansUp(w)
    PROVE  LeaseInv'
<1>1. Typed /\ LocalInv(w)
  BY Parts
<1>2. worker[w].step = "begin" /\ worker[w].op \in Cleanups
      /\ UNCHANGED <<broker, record, plugin, control, tool, left>>
  BY DEF CleansUp
<1>3. Ready(w) /\ worker[w] \in Processes
  BY <1>1, <1>2, ReadyWhen, AsItIs DEF LocalInv, Asking
<1> DEFINE s == IF worker[w].op = "pause" THEN "asks" ELSE IF worker[w].holds THEN "info" ELSE "finish"
<1>4. PICK noted \in BOOLEAN :
          worker' = [worker EXCEPT ![w].fate = IF ~noted /\ worker[w].holds THEN "refused" ELSE @,
                                   ![w].step = s]
  BY DEF CleansUp
<1> DEFINE f == IF ~noted /\ worker[w].holds THEN "refused" ELSE worker[w].fate
           r == [worker[w] EXCEPT !.fate = f, !.step = s]
<1>5. worker' = [worker EXCEPT ![w] = r]
  BY <1>4
<1>6. f \in {"ok", "refused", "ended"}
  BY <1>3 DEF Processes
<1>7. /\ s \in Steps \ {"off", "idle", "spend"}
      /\ s \in {"asks", "info", "finish"} /\ (s = "asks" <=> worker[w].op = "pause")
      /\ s = "info" <=> worker[w].op # "pause" /\ worker[w].holds
  BY DEF Steps
<1>8. \/ s = "asks" /\ Sends(w, "pause", w)
      \/ s = "info" /\ Sends(w, "info", w)
      \/ s = "finish" /\ Silent
  BY DEF CleansUp
<1> HIDE DEF s, f
<1>9. r \in Processes /\ r.up = worker[w].up /\ r.op = worker[w].op /\ r.step = s /\ r.fate = f
      /\ r.holds = worker[w].holds
  BY <1>3, <1>6, <1>7 DEF Processes
<1> HIDE DEF r
<1>10. Becomes(w, worker[w].up, worker[w].op, s, f, worker[w].holds)
  BY <1>1, <1>5, <1>9, Put DEF Typed
<1>11. Exchanges(w, s)
  BY <1>7, <1>8 DEF Exchanges, Asking, Commands
<1>12. Concludes(w, s, f)
  BY <1>7, <1>3 DEF Concludes, Processes
<1>13. worker[w].op # "act" /\ (s = "asks" => worker[w].op \notin {"handback", "close"})
  BY <1>2, <1>7 DEF Cleanups
<1> QED BY <1>2, <1>3, <1>7, <1>10, <1>11, <1>12, <1>13, WorkStep

\* _info was answered.
LEMMA HearsInfoStep ==
    ASSUME LeaseInv, NEW w \in Workers, HearsInfo(w)
    PROVE  LeaseInv'
<1>1. Typed /\ LocalInv(w)
  BY Parts
<1>2. worker[w].step = "info" /\ answer[w] # "none" /\ UNCHANGED <<record, plugin, control, tool, left>>
  BY DEF HearsInfo
<1>3. Ready(w) /\ worker[w].op # None
  BY <1>1, <1>2, ReadyWhen DEF LocalInv, StepInv
<1> DEFINE op == worker[w].op
           a == answer[w]
<1>4. CASE op \in {"pause", "resume"} /\ a = "held"
  <2>1. Goes(w, "begin") /\ UNCHANGED broker /\ Forgets(w)
    BY <1>4 DEF HearsInfo
  <2>2. Becomes(w, worker[w].up, worker[w].op, "begin", worker[w].fate, worker[w].holds)
    BY <1>1, <2>1, GoesOn DEF Steps
  <2>3. Exchanges(w, "begin") /\ Concludes(w, "begin", worker[w].fate)
    BY <2>1 DEF Exchanges, Concludes, Asking
  <2> QED BY <1>2, <1>3, <1>4, <2>1, <2>2, <2>3, WorkStep DEF Steps
<1>5. CASE op \in {"pause", "resume"} /\ a # "held"
  <2>1. PICK res \in {"ended", "refused"} : Answered(w, res)
    BY <1>5 DEF HearsInfo
  <2>2. Forgets(w)
    BY <1>5 DEF HearsInfo
  <2> QED BY <1>2, <1>3, <2>1, <2>2, AnsweredStep
<1>6. CASE op \in {"handback", "close"} /\ a # "lost"
  <2>1. PICK cmd \in {"handback", "reap"} : Sends(w, cmd, w) /\ Goes(w, cmd) /\ UNCHANGED broker
    BY <1>6 DEF HearsInfo
  <2>2. Becomes(w, worker[w].up, worker[w].op, cmd, worker[w].fate, worker[w].holds)
    BY <1>1, <2>1, GoesOn DEF Steps
  <2>3. Exchanges(w, cmd) /\ Concludes(w, cmd, worker[w].fate)
    BY <2>1 DEF Exchanges, Concludes, Asking, Commands
  <2> QED BY <1>2, <1>3, <1>6, <2>1, <2>2, <2>3, WorkStep DEF Steps
<1>7. CASE op = "act" /\ a = "held"
  <2>1. Sends(w, "input", w) /\ Goes(w, "asks") /\ UNCHANGED broker
    BY <1>7 DEF HearsInfo
  <2>2. Becomes(w, worker[w].up, worker[w].op, "asks", worker[w].fate, worker[w].holds)
    BY <1>1, <2>1, GoesOn DEF Steps
  <2>3. ToSend(w)
    BY <1>2, <1>7 DEF ToSend
  <2>4. Exchanges(w, "asks") /\ Concludes(w, "asks", worker[w].fate)
    BY <1>7, <2>1, <2>3 DEF Exchanges, Concludes, Asking, Commands
  <2> QED BY <1>2, <1>3, <1>7, <2>1, <2>2, <2>4, WorkStep DEF Steps
<1>8. CASE op \in {"act", "claim"} /\ a = "unavailable"
  <2>1. Ended(w) /\ Forgets(w) /\ UNCHANGED broker
    BY <1>8 DEF HearsInfo
  <2>2. PICK f \in {"refused", "ended"} : Becomes(w, worker[w].up, worker[w].op, "finish", f, worker[w].holds)
    BY <1>1, <2>1, EndedSo
  <2>3. Exchanges(w, "finish") /\ Concludes(w, "finish", f)
    BY <2>1 DEF Exchanges, Concludes, Asking
  <2> QED BY <1>2, <1>3, <2>1, <2>2, <2>3, WorkStep DEF Steps
<1>9. CASE op = "claim" /\ a = "held"
  <2>1. Goes(w, "finish") /\ Forgets(w) /\ UNCHANGED broker
    BY <1>9 DEF HearsInfo
  <2>2. Becomes(w, worker[w].up, worker[w].op, "finish", worker[w].fate, worker[w].holds)
    BY <1>1, <2>1, GoesOn DEF Steps
  <2>3. Exchanges(w, "finish") /\ Concludes(w, "finish", worker[w].fate)
    BY <1>9, <2>1 DEF Exchanges, Concludes, Asking
  <2> QED BY <1>2, <1>3, <2>1, <2>2, <2>3, WorkStep DEF Steps
<1>10. CASE ~(op \in {"pause", "resume"}) /\ ~(op \in {"handback", "close"} /\ a # "lost")
            /\ ~(op = "act" /\ a = "held") /\ ~(op \in {"act", "claim"} /\ a = "unavailable")
            /\ ~(op = "claim" /\ a = "held")
  <2>1. Fails(w) /\ Forgets(w) /\ UNCHANGED broker
    BY <1>10 DEF HearsInfo
  <2>2. Becomes(w, worker[w].up, worker[w].op, "finish", "refused", worker[w].holds)
    BY <1>1, <2>1, FailsSo
  <2>3. Exchanges(w, "finish") /\ Concludes(w, "finish", "refused")
    BY <2>1 DEF Exchanges, Concludes, Asking
  <2> QED BY <1>2, <1>3, <2>1, <2>2, <2>3, WorkStep DEF Steps
<1> QED BY <1>4, <1>5, <1>6, <1>7, <1>8, <1>9, <1>10

\* The command itself was answered.
LEMMA HearsAskedStep ==
    ASSUME LeaseInv, NEW w \in Workers, HearsAsked(w)
    PROVE  LeaseInv'
<1>1. Typed /\ LocalInv(w)
  BY Parts
<1>2. worker[w].step = "asks" /\ answer[w] # "none"
      /\ UNCHANGED <<broker, record, plugin, control, tool, left>>
  BY DEF HearsAsked
<1>3. Ready(w) /\ worker[w].op # None /\ worker[w].op \notin {"handback", "close"}
  BY <1>1, <1>2, ReadyWhen DEF LocalInv, StepInv
<1>4. CASE worker[w].op = "claim" /\ Sends(w, "info", w) /\ Goes(w, "info")
  <2>1. Becomes(w, worker[w].up, worker[w].op, "info", worker[w].fate, worker[w].holds)
    BY <1>1, <1>4, GoesOn DEF Steps
  <2>2. Exchanges(w, "info") /\ Concludes(w, "info", worker[w].fate)
    BY <1>4 DEF Exchanges, Concludes, Asking, Commands
  <2> QED BY <1>2, <1>3, <1>4, <2>1, <2>2, WorkStep DEF Steps
<1>5. CASE worker[w].op = "act" /\ answer[w] = "owner" /\ Sends(w, "input", w) /\ Goes(w, "asks")
  <2>1. Becomes(w, worker[w].up, worker[w].op, "asks", worker[w].fate, worker[w].holds)
    BY <1>1, <1>5, GoesOn DEF Steps
  <2>2. ToSend(w)
    BY <1>2, <1>5 DEF ToSend
  <2>3. Exchanges(w, "asks") /\ Concludes(w, "asks", worker[w].fate)
    BY <1>5, <2>2 DEF Exchanges, Concludes, Asking, Commands
  <2> QED BY <1>2, <1>3, <1>5, <2>1, <2>3, WorkStep DEF Steps
<1>6. CASE answer[w] = "ok" /\ Goes(w, "finish") /\ Forgets(w)
  <2>1. Becomes(w, worker[w].up, worker[w].op, "finish", worker[w].fate, worker[w].holds)
    BY <1>1, <1>6, GoesOn DEF Steps
  <2>2. Exchanges(w, "finish")
    BY <1>6 DEF Exchanges, Asking
  <2>3. Concludes(w, "finish", worker[w].fate)
    BY <1>1, <1>2, <1>3, <1>6 DEF Concludes, LocalInv, AskedInv
  <2> QED BY <1>2, <1>3, <1>6, <2>1, <2>2, <2>3, WorkStep DEF Steps
<1>7. CASE Ended(w) /\ Forgets(w)
  <2>1. PICK f \in {"refused", "ended"} : Becomes(w, worker[w].up, worker[w].op, "finish", f, worker[w].holds)
    BY <1>1, <1>7, EndedSo
  <2>2. Exchanges(w, "finish") /\ Concludes(w, "finish", f)
    BY <1>7 DEF Exchanges, Concludes, Asking
  <2> QED BY <1>2, <1>3, <2>1, <2>2, WorkStep DEF Steps
<1>8. CASE Fails(w) /\ Forgets(w)
  <2>1. Becomes(w, worker[w].up, worker[w].op, "finish", "refused", worker[w].holds)
    BY <1>1, <1>8, FailsSo
  <2>2. Exchanges(w, "finish") /\ Concludes(w, "finish", "refused")
    BY <1>8 DEF Exchanges, Concludes, Asking
  <2> QED BY <1>2, <1>3, <2>1, <2>2, WorkStep DEF Steps
<1> QED BY <1>4, <1>5, <1>6, <1>7, <1>8 DEF HearsAsked

\* The handback of a close was answered, and then its reap.
LEMMA HearsHandbackStep ==
    ASSUME LeaseInv, NEW w \in Workers, HearsHandback(w)
    PROVE  LeaseInv'
<1>1. Typed /\ LocalInv(w)
  BY Parts
<1>2. worker[w].step \in {"handback", "reap"} /\ answer[w] # "none"
      /\ UNCHANGED <<broker, record, plugin, control, tool, left>>
  BY DEF HearsHandback
<1>3. Ready(w) /\ worker[w].op \in {"handback", "close"} /\ worker[w].op # "act"
  BY <1>1, <1>2, ReadyWhen DEF LocalInv, StepInv
<1>4. CASE worker[w].step = "handback" /\ answer[w] = "ok"
  <2>1. Sends(w, "reap", w) /\ Goes(w, "reap")
    BY <1>4 DEF HearsHandback
  <2>2. Becomes(w, worker[w].up, worker[w].op, "reap", worker[w].fate, worker[w].holds)
    BY <1>1, <2>1, GoesOn DEF Steps
  <2>3. Exchanges(w, "reap") /\ Concludes(w, "reap", worker[w].fate)
    BY <2>1 DEF Exchanges, Concludes, Asking, Commands
  <2> QED BY <1>2, <1>3, <2>1, <2>2, <2>3, WorkStep DEF Steps
<1>5. CASE worker[w].step = "reap" /\ answer[w] = "ok"
  <2>1. Goes(w, "finish") /\ Forgets(w)
    BY <1>5 DEF HearsHandback
  <2>2. Becomes(w, worker[w].up, worker[w].op, "finish", worker[w].fate, worker[w].holds)
    BY <1>1, <2>1, GoesOn DEF Steps
  <2>3. Exchanges(w, "finish")
    BY <2>1 DEF Exchanges, Asking
  <2>4. Concludes(w, "finish", worker[w].fate)
    BY <1>1, <1>3, <1>5 DEF Concludes, LocalInv, AskedInv
  <2> QED BY <1>2, <1>3, <2>1, <2>2, <2>3, <2>4, WorkStep DEF Steps
<1>6. CASE answer[w] # "ok"
  <2>1. Fails(w) /\ Forgets(w)
    BY <1>6 DEF HearsHandback
  <2>2. Becomes(w, worker[w].up, worker[w].op, "finish", "refused", worker[w].holds)
    BY <1>1, <2>1, FailsSo
  <2>3. Exchanges(w, "finish") /\ Concludes(w, "finish", "refused")
    BY <2>1 DEF Exchanges, Concludes, Asking
  <2> QED BY <1>2, <1>3, <2>1, <2>2, <2>3, WorkStep DEF Steps
<1> QED BY <1>2, <1>4, <1>5, <1>6

\* The outcome is written and the request answered.
LEMMA FinishesStep ==
    ASSUME LeaseInv, NEW w \in Workers, Finishes(w)
    PROVE  LeaseInv'
<1>1. Typed /\ LocalInv(w)
  BY Parts
<1>2. worker[w].step = "finish" /\ Silent /\ UNCHANGED <<record, plugin, control, tool, left>>
  BY DEF Finishes
<1>3. Ready(w)
  BY <1>1, <1>2, ReadyWhen DEF LocalInv, Asking
<1>4. PICK res \in {"refused", worker[w].fate} : Answered(w, res)
  BY DEF Finishes
<1>5. res = "ok" /\ worker[w].op = "pause" => PausedFor(w) /\ NoneFrom(w)
  BY <1>1, <1>2, <1>4 DEF LocalInv, FinishInv
<1> QED BY <1>2, <1>3, <1>4, <1>5, AnsweredStep

\* close: only a cleanup without an error drops the record.
LEMMA ClosesStep ==
    ASSUME LeaseInv, NEW w \in Workers, Closes(w)
    PROVE  LeaseInv'
<1>1. Typed /\ LocalInv(w)
  BY Parts
<1>2. worker[w].step = "finish" /\ worker[w].op \in {"handback", "close"} /\ Silent
      /\ UNCHANGED <<plugin, control, tool, left>>
  BY DEF Closes
<1>3. Ready(w) /\ worker[w] \in Processes
  BY <1>1, <1>2, ReadyWhen, AsItIs DEF LocalInv, Asking
<1> DEFINE good == worker[w].fate = "ok" /\ (control.lock = None \/ ~worker[w].holds)
           r == [worker[w] EXCEPT !.up = FALSE, !.step = "off", !.op = None, !.holds = worker[w].holds /\ ~good]
<1>4. record' = IF good /\ worker[w].holds THEN record \ {w} ELSE record
  BY DEF Closes
<1>5. /\ record' \subseteq Workers /\ (\A v \in Workers \ {w} : v \in record' <=> v \in record)
      /\ w \in record' \/ (record' \subseteq record /\ (w \in record => plugin.holder # w /\ NoneFrom(w)))
  <2>1. good /\ worker[w].holds => plugin.holder # w /\ NoneFrom(w)
    BY <1>1, <1>2 DEF LocalInv, FinishInv
  <2>2. record \subseteq Workers
    BY <1>1 DEF Typed
  <2> HIDE DEF good
  <2> QED BY <1>4, <2>1, <2>2
<1>6. CASE good \/ worker[w].op = "close"
  <2>1. worker' = [worker EXCEPT ![w] = r] /\ broker' = Told(w, "ok")
    BY <1>6 DEF Closes
  <2> HIDE DEF good
  <2>2. r \in Processes /\ ~r.up /\ r.op = None /\ r.step = "off"
    BY <1>3 DEF Processes, Steps
  <2> HIDE DEF r
  <2>3. worker \in [Workers -> Processes]
    BY <1>1 DEF Typed
  <2>4. Becomes(w, r.up, r.op, r.step, r.fate, r.holds) /\ r.up \in BOOLEAN
    BY <2>1, <2>2, <2>3, Put DEF Processes
  <2>5. Becomes(w, FALSE, None, "off", r.fate, r.holds)
    <3>1. r.up = FALSE
      BY <2>2, <2>4
    <3> QED BY <2>2, <2>4, <3>1
  <2> QED BY <1>2, <1>3, <1>5, <2>1, <2>5, RestsStep
<1>7. CASE ~(good \/ worker[w].op = "close")
  <2>1. Answered(w, "refused")
    BY <1>7 DEF Closes
  <2>2. record' = record
    BY <1>4, <1>7
  <2> QED BY <1>2, <1>3, <2>1, <2>2, AnsweredStep
<1> QED BY <1>6, <1>7

----------------------------------------------------------------------------
(* The steps of the owner's process.                                        *)

\* What the owner's process may touch: its own requests, its answers and, of the rest,
\* a record that is no longer needed.
OwnerStep ==
    /\ UNCHANGED <<worker, broker, plugin, control>>
    /\ left' \in Lefts /\ left'.todo = left.todo /\ left'.hits = left.hits
    /\ left'.spent = left.spent /\ left'.given = left.given
    /\ tool' \in Tools
    /\ record' \subseteq record
    /\ \A v \in record \ record' : plugin.holder # v /\ worker[v].op # "claim" /\ NoneFrom(v)
    /\ \A v \in Workers : answer'[v] = answer[v]
    /\ answer' \in [Senders -> Answers] /\ wire' \in Seq(Requests)
    /\ DOMAIN wire \subseteq DOMAIN wire'
    /\ \A i \in DOMAIN wire :
          /\ wire'[i].from = wire[i].from /\ wire'[i].cmd = wire[i].cmd /\ wire'[i].lease = wire[i].lease
          /\ wire[i].from # Owner => wire'[i].heard = wire[i].heard
    /\ \A j \in DOMAIN wire' \ DOMAIN wire : wire'[j].from = Owner

\* The workers do not notice.
LEMMA OwnerSteps ==
    ASSUME LeaseInv, OwnerStep, OwnerInv', ReleaseInv'
    PROVE  LeaseInv'
<1>1. Typed /\ (\A v \in Workers : LocalInv(v)) /\ ApprovalInv
  BY Parts
<1>2. Typed'
  BY <1>1 DEF Typed, MoreTypes, OwnerStep
<1>3. ASSUME NEW v \in Workers PROVE LocalInv(v)'
  <2>1. Owner # v
    BY NativeLeaseAssumption
  <2>2. Aside(v)
    BY <2>1 DEF Aside, OwnerStep
  <2> QED BY <1>1, <2>2, AsideKept
<1>4. ApprovalInv'
  BY <1>1 DEF ApprovalInv, OwnerStep
<1> QED BY <1>2, <1>3, <1>4, Together

\* A request of the owner's process, or none.
LEMMA OwnerSends ==
    ASSUME LeaseInv, (\E cmd \in Commands, x \in Workers : Sends(Owner, cmd, x)) \/ Forgets(Owner)
    PROVE  /\ \A v \in Workers : answer'[v] = answer[v]
           /\ answer' \in [Senders -> Answers] /\ answer'[Owner] = "none" /\ wire' \in Seq(Requests)
           /\ DOMAIN wire \subseteq DOMAIN wire' /\ (\A i \in DOMAIN wire : wire'[i] = wire[i])
           /\ \A j \in DOMAIN wire' \ DOMAIN wire : wire'[j].from = Owner
<1>1. Typed
  BY Parts
<1>2. CASE Forgets(Owner)
  BY <1>1, <1>2, NativeLeaseAssumption DEF Forgets, Typed, MoreTypes, Senders, Answers
<1>3. ASSUME NEW cmd \in Commands, NEW x \in Workers, Sends(Owner, cmd, x)
      PROVE  /\ \A v \in Workers : answer'[v] = answer[v]
             /\ answer' \in [Senders -> Answers] /\ answer'[Owner] = "none" /\ wire' \in Seq(Requests)
             /\ DOMAIN wire \subseteq DOMAIN wire' /\ (\A i \in DOMAIN wire : wire'[i] = wire[i])
             /\ \A j \in DOMAIN wire' \ DOMAIN wire : wire'[j].from = Owner
  <2>1. \A v \in Workers : v \in Senders \ {Owner}
    BY NativeLeaseAssumption DEF Senders
  <2>2. Owner \in Senders
    BY DEF Senders
  <2> QED BY <1>1, <1>3, <2>1, <2>2, Sent DEF Arrives
<1> QED BY <1>2, <1>3

\* What a request of the owner's process goes to, when it waits for nothing else.
LEMMA OwnerAsks ==
    ASSUME LeaseInv, Ready(Owner), NEW cmd \in {"info", "handback", "reap"}, NEW x \in Workers,
           Sends(Owner, cmd, x), UNCHANGED <<worker, broker, plugin>>, tool'.step = cmd, tool'.lease = x,
           cmd \in {"handback", "reap"} => Gone(x)
    PROVE  /\ OwnerInv'
           /\ \A i \in DOMAIN wire' : wire'[i].from = Owner /\ wire'[i].heard =>
                 i = Len(wire) + 1 /\ \A j \in DOMAIN wire' : ~(j > i)
<1>1. Typed /\ OwnerInv
  BY Parts
<1>0. Len(wire) \in Nat /\ DOMAIN wire \subseteq Nat
  <2>1. wire \in Seq(Requests)
    BY <1>1 DEF Typed, MoreTypes
  <2> QED BY <2>1
<1>2. /\ DOMAIN wire' = DOMAIN wire \cup {Len(wire) + 1} /\ (\A i \in DOMAIN wire : i < Len(wire) + 1)
      /\ (\A i \in DOMAIN wire : wire'[i] = wire[i])
      /\ wire'[Len(wire) + 1].cmd = cmd /\ wire'[Len(wire) + 1].lease = x
      /\ answer'[Owner] = "none"
  <2>1. Typed /\ Owner \in Senders /\ cmd \in Commands /\ Sends(Owner, cmd, x)
    BY <1>1 DEF Senders, Commands
  <2>2. Arrives(Owner, cmd, x)
    BY <2>1, Sent
  <2> QED BY <2>2 DEF Arrives
<1>3. ASSUME NEW i \in DOMAIN wire', wire'[i].from = Owner, wire'[i].heard
      PROVE  i = Len(wire) + 1 /\ \A j \in DOMAIN wire' : ~(j > i)
  <2>1. i = Len(wire) + 1
    BY <1>2, <1>3 DEF Ready
  <2> QED BY <1>0, <1>2, <2>1
<1>4. \A y : Gone(y)' <=> Gone(y)
  BY DEF Gone
<1>5. ASSUME NEW i \in DOMAIN wire', wire'[i].from = Owner
      PROVE  /\ wire'[i].cmd \in {"info", "handback", "reap"}
             /\ wire'[i].cmd = "handback" => broker'[wire'[i].lease].state # "off" /\ ~worker'[wire'[i].lease].up
             /\ wire'[i].heard =>
                   /\ answer'[Owner] = "none" /\ tool'.step # "idle"
                   /\ wire'[i].cmd = tool'.step /\ wire'[i].lease = tool'.lease
                   /\ \A j \in DOMAIN wire' : j > i => wire'[j].from # Owner
  <2>1. CASE i = Len(wire) + 1
    BY <1>2, <1>3, <1>5, <2>1 DEF Gone
  <2>2. CASE i \in DOMAIN wire
    BY <1>1, <1>2, <1>5, <2>2 DEF OwnerInv, Gone, Ready
  <2> QED BY <1>2, <2>1, <2>2
<1>6. OwnerInv'
  BY <1>2, <1>5 DEF OwnerInv, Gone
<1> QED BY <1>3, <1>6

\* A step of the owner's process that ends what it does.
LEMMA OwnerRests ==
    ASSUME LeaseInv, Ready(Owner), Forgets(Owner), UNCHANGED <<worker, broker, plugin>>, tool'.step = "idle"
    PROVE  OwnerInv' /\ ReleaseInv'
<1>1. Typed /\ OwnerInv
  BY Parts
<1>2. wire' = wire /\ answer'[Owner] = "none"
  BY <1>1 DEF Forgets, Typed, Senders
<1> QED BY <1>1, <1>2 DEF OwnerInv, ReleaseInv, Ready, Gone

\* Its exchange is over when it has an answer, or when it does nothing.
LEMMA OwnerReady ==
    ASSUME OwnerInv, answer[Owner] # "none" \/ tool.step = "idle"
    PROVE  Ready(Owner)
BY DEF OwnerInv, Ready

\* `leases.py release' looks for a record and at the processes.
LEMMA LooksStep ==
    ASSUME LeaseInv, NEW x \in Workers, Looks(x)
    PROVE  LeaseInv'
<1>1. Typed /\ (\A v \in Workers : LocalInv(v)) /\ OwnerInv /\ left \in Lefts
  BY Parts DEF Typed, MoreTypes
<1>2. /\ tool.step = "idle" /\ Sends(Owner, "info", x)
      /\ UNCHANGED <<worker, broker, record, plugin, control>>
  BY DEF Looks
<1>3. PICK forced \in BOOLEAN, doubt \in BOOLEAN :
          tool' = [step |-> "info", lease |-> x, noted |-> TRUE,
                   live |-> {y \in Workers : broker[y].state = "open"
                                                \/ (broker[y].state = "closing" /\ ~forced)},
                   alive |-> IF x \in record THEN worker[x].up \/ doubt ELSE worker[x].up]
  BY DEF Looks
<1>4. worker[x].up \in BOOLEAN
  BY <1>1, AsItIs DEF Processes
<1>5. tool' \in Tools /\ tool'.step = "info" /\ tool'.lease = x /\ (~tool'.alive => ~worker[x].up)
  BY <1>3, <1>4 DEF Tools
<1>6. /\ left' \in Lefts /\ left'.todo = left.todo /\ left'.hits = left.hits
      /\ left'.spent = left.spent /\ left'.given = left.given
  BY <1>1 DEF Looks, Lefts
<1>7. Ready(Owner)
  BY <1>1, <1>2, OwnerReady
<1>8. /\ OwnerInv'
      /\ \A i \in DOMAIN wire' : wire'[i].from = Owner /\ wire'[i].heard => i = Len(wire) + 1
  BY <1>2, <1>5, <1>7, OwnerAsks
<1>9. OwnerStep /\ answer'[Owner] = "none" /\ (\A i \in DOMAIN wire : wire'[i] = wire[i])
      /\ \A j \in DOMAIN wire' \ DOMAIN wire : wire'[j].from = Owner
  <2>1. "info" \in Commands
    BY DEF Commands
  <2> QED BY <1>2, <1>5, <1>6, <2>1, OwnerSends DEF OwnerStep
<1>10. ReleaseInv'
  <2> SUFFICES ASSUME ~tool'.alive, ~Gone(x)
               PROVE  /\ answer'[Owner] # "held"
                      /\ \A i \in DOMAIN wire' : wire'[i].from = Owner /\ wire'[i].heard =>
                            /\ plugin'.holder # x
                            /\ \A j \in DOMAIN wire' : j < i => wire'[j].from # x
    BY <1>2, <1>5 DEF ReleaseInv, Gone
  <2>1. broker[x].state = "off"
    BY <1>5 DEF Gone
  <2>2. plugin.holder # x /\ NoneFrom(x)
    BY <1>1, <2>1 DEF LocalInv, StepInv
  <2>3. \A j \in DOMAIN wire' : wire'[j].from # x
    BY <1>9, <2>2, NativeLeaseAssumption DEF NoneFrom
  <2> QED BY <1>2, <1>9, <2>2, <2>3
<1> QED BY <1>8, <1>9, <1>10, OwnerSteps

\* It releases what the record and the processes allow.
LEMMA ReleasesStep ==
    ASSUME LeaseInv, Releases
    PROVE  LeaseInv'
<1>1. Typed /\ OwnerInv /\ ReleaseInv /\ left \in Lefts /\ tool \in Tools /\ control \in Controls
  BY Parts DEF Typed, MoreTypes
<1>2. /\ tool.step = "info" /\ answer[Owner] # "none"
      /\ UNCHANGED <<worker, broker, record, plugin, control, left>>
  BY DEF Releases
<1>3. Ready(Owner) /\ tool.lease \in Workers
  BY <1>1, <1>2, OwnerReady DEF OwnerInv
<1>4. CASE Releasable
  <2>1. Sends(Owner, "handback", tool.lease)
        /\ tool' = [tool EXCEPT !.step = "handback", !.noted = (control.lock = None)]
    BY <1>4 DEF Releases
  <2>2. tool' \in Tools /\ tool'.step = "handback" /\ tool'.lease = tool.lease
    BY <1>1, <2>1 DEF Tools
  <2>3. Gone(tool.lease)
    BY <1>1, <1>2, <1>4 DEF ReleaseInv, Releasable
  <2>4. OwnerInv'
    BY <1>2, <1>3, <2>1, <2>2, <2>3, OwnerAsks
  <2>5. OwnerStep
    <3>1. "handback" \in Commands
      BY DEF Commands
    <3> QED BY <1>1, <1>2, <1>3, <2>1, <2>2, <3>1, OwnerSends DEF OwnerStep
  <2>6. ReleaseInv'
    BY <2>2 DEF ReleaseInv
  <2> QED BY <2>4, <2>5, <2>6, OwnerSteps
<1>5. CASE ~Releasable
  <2>1. tool' = [tool EXCEPT !.step = "idle"] /\ Forgets(Owner)
    BY <1>5 DEF Releases
  <2>2. tool' \in Tools /\ tool'.step = "idle"
    BY <1>1, <2>1 DEF Tools
  <2>3. OwnerInv' /\ ReleaseInv'
    BY <1>2, <1>3, <2>1, <2>2, OwnerRests
  <2>4. OwnerStep
    BY <1>1, <1>2, <2>1, <2>2, OwnerSends DEF OwnerStep
  <2> QED BY <2>3, <2>4, OwnerSteps
<1> QED BY <1>4, <1>5

\* release_unchecked: handback, then reap; the record goes when both succeeded.
LEMMA ReleasedStep ==
    ASSUME LeaseInv, Released
    PROVE  LeaseInv'
<1>1. Typed /\ (\A v \in Workers : LocalInv(v)) /\ OwnerInv /\ ReleaseInv
      /\ left \in Lefts /\ tool \in Tools
  BY Parts DEF Typed, MoreTypes
<1>2. /\ tool.step \in {"handback", "reap"} /\ answer[Owner] # "none"
      /\ UNCHANGED <<worker, broker, plugin, control, left>>
  BY DEF Released
<1>3. Ready(Owner) /\ tool.lease \in Workers /\ Gone(tool.lease)
  BY <1>1, <1>2, OwnerReady DEF OwnerInv
<1>4. CASE tool.step = "reap" \/ answer[Owner] # "ok"
  <2>1. Forgets(Owner) /\ tool' = [tool EXCEPT !.step = "idle"]
        /\ (record' = record \/ (record' = record \ {tool.lease} /\ answer[Owner] = "ok"))
    BY <1>4 DEF Released
  <2>2. tool' \in Tools /\ tool'.step = "idle"
    BY <1>1, <2>1 DEF Tools
  <2>3. OwnerInv' /\ ReleaseInv'
    BY <1>2, <1>3, <2>1, <2>2, OwnerRests
  <2>4. answer[Owner] = "ok" => plugin.holder # tool.lease /\ NoneFrom(tool.lease)
    BY <1>1, <1>2, <1>4 DEF ReleaseInv
  <2>5. worker[tool.lease].op # "claim"
    <3>1. worker[tool.lease].op = None
      BY <1>1, <1>3 DEF LocalInv, StepInv, Gone
    <3> QED BY <3>1, NativeLeaseAssumption DEF Ops, Executes
  <2>6. record' \subseteq record /\ \A v \in record \ record' :
            plugin.holder # v /\ worker[v].op # "claim" /\ NoneFrom(v)
    BY <2>1, <2>4, <2>5
  <2>7. OwnerStep
    BY <1>1, <1>2, <2>1, <2>2, <2>6, OwnerSends DEF OwnerStep
  <2> QED BY <2>3, <2>7, OwnerSteps
<1>5. CASE tool.step = "handback" /\ answer[Owner] = "ok"
  <2>1. Sends(Owner, "reap", tool.lease) /\ tool' = [tool EXCEPT !.step = "reap"] /\ record' = record
    BY <1>5 DEF Released
  <2>2. tool' \in Tools /\ tool'.step = "reap" /\ tool'.lease = tool.lease
    BY <1>1, <2>1 DEF Tools
  <2>3. /\ OwnerInv'
        /\ \A i \in DOMAIN wire' : wire'[i].from = Owner /\ wire'[i].heard => \A j \in DOMAIN wire' : ~(j > i)
    BY <1>2, <1>3, <2>1, <2>2, OwnerAsks
  <2>4. OwnerStep /\ answer'[Owner] = "none"
    <3>1. "reap" \in Commands
      BY DEF Commands
    <3> QED BY <1>1, <1>2, <1>3, <2>1, <2>2, <3>1, OwnerSends DEF OwnerStep
  <2>5. ReleaseInv'
    BY <2>2, <2>3, <2>4 DEF ReleaseInv
  <2> QED BY <2>3, <2>4, <2>5, OwnerSteps
<1> QED BY <1>2, <1>4, <1>5

\* The deadline of its exchange.
LEMMA OwnerExpiresStep ==
    ASSUME LeaseInv, ExchangeExpires(Owner)
    PROVE  LeaseInv'
<1>1. Typed /\ OwnerInv /\ ReleaseInv /\ left \in Lefts /\ tool \in Tools
  BY Parts DEF Typed, MoreTypes
<1>2. /\ wire' \in Seq(Requests) /\ DOMAIN wire' = DOMAIN wire
      /\ \A i \in DOMAIN wire :
            /\ wire'[i].from = wire[i].from /\ wire'[i].cmd = wire[i].cmd /\ wire'[i].lease = wire[i].lease
            /\ wire'[i].heard <=> wire[i].heard /\ wire[i].from # Owner
            /\ wire[i].from # Owner => wire'[i].heard = wire[i].heard
  BY <1>1, AbandonedStep DEF ExchangeExpires, Senders
<1>3. answer' \in [Senders -> Answers] /\ answer'[Owner] = "lost" /\ \A v \in Workers : answer'[v] = answer[v]
  BY <1>1, NativeLeaseAssumption DEF ExchangeExpires, Typed, Answers, Senders
<1>4. /\ left' \in Lefts /\ left'.todo = left.todo /\ left'.hits = left.hits
      /\ left'.spent = left.spent /\ left'.given = left.given
  BY <1>1 DEF ExchangeExpires, Lefts
<1>5. UNCHANGED <<worker, broker, record, plugin, control, tool>>
  BY DEF ExchangeExpires
<1>6. OwnerStep
  BY <1>1, <1>2, <1>3, <1>4, <1>5 DEF OwnerStep
<1>7. OwnerInv'
  BY <1>1, <1>2, <1>3, <1>5 DEF OwnerInv, NoneFrom, Gone
<1>8. ReleaseInv'
  BY <1>2, <1>3, <1>5 DEF ReleaseInv
<1> QED BY <1>6, <1>7, <1>8, OwnerSteps

----------------------------------------------------------------------------
(* The steps of the compositor.                                             *)

\* What serving one request comes to.
LEMMA ServedFacts ==
    ASSUME plugin \in Leases, NEW cmd \in Commands, NEW x \in Workers, NEW a, NEW p, Served(cmd, x) = <<a, p>>
    PROVE  /\ a \in Answers \ {"none", "lost"} /\ p \in Leases
           /\ p.holder # plugin.holder =>
                 \/ cmd = "claim" /\ plugin.holder = None /\ p.holder = x
                 \/ cmd = "handback" /\ plugin.holder = x /\ p.holder = None
           /\ p.paused # plugin.paused /\ p.holder # None =>
                 p.holder = x /\ (cmd \in {"claim", "resume"} \/ p.paused)
           /\ cmd = "pause" /\ a = "ok" => p.holder = x /\ p.paused
           /\ cmd = "reap" /\ a = "ok" => p.holder # x
           /\ a = "held" => plugin.holder = x
           /\ a = "owner" => cmd = "input"
<1>1. plugin.holder \in Workers \cup {None}
  BY DEF Leases
<1>2. CASE cmd = "claim"
  <2>1. CASE plugin.holder = None /\ x \notin plugin.retired /\ plugin.client
    <3>1. a = "ok" /\ p = [plugin EXCEPT !.holder = x, !.paused = FALSE, !.retired = plugin.retired \cup {x}]
      BY <1>2, <2>1 DEF Served
    <3> QED BY <1>1, <1>2, <2>1, <3>1 DEF Leases, Answers
  <2>2. CASE ~(plugin.holder = None /\ x \notin plugin.retired /\ plugin.client)
    <3>1. a = "refused" /\ p = plugin
      BY <1>2, <2>2 DEF Served
    <3> QED BY <1>2, <3>1 DEF Answers
  <2> QED BY <2>1, <2>2
<1>3. CASE cmd = "info"
  <2>1. p = plugin /\ a \in {"held", "unavailable"} /\ (a = "held" => plugin.holder = x)
    BY <1>3 DEF Served
  <2> QED BY <1>3, <2>1 DEF Answers
<1>4. CASE cmd = "input"
  <2>1. p = plugin /\ a \in {"refused", "owner", "ok"}
    BY <1>4 DEF Served, Leases
  <2> QED BY <1>4, <2>1 DEF Answers
<1>5. CASE cmd \in {"pause", "resume"}
  <2>1. CASE plugin.holder = x
    <3>1. a = "ok" /\ p = [plugin EXCEPT !.paused = (cmd = "pause")]
      BY <1>5, <2>1 DEF Served
    <3> QED BY <1>5, <2>1, <3>1 DEF Leases, Answers
  <2>2. CASE plugin.holder # x
    <3>1. a = "unavailable" /\ p = plugin
      BY <1>5, <2>2 DEF Served
    <3> QED BY <1>5, <3>1 DEF Answers
  <2> QED BY <2>1, <2>2
<1>6. CASE cmd = "handback"
  <2>1. CASE plugin.holder = x
    <3>1. a = "ok" /\ p = [plugin EXCEPT !.holder = None, !.paused = FALSE]
      BY <1>6, <2>1 DEF Served
    <3> QED BY <1>6, <2>1, <3>1 DEF Leases, Answers
  <2>2. CASE plugin.holder # x
    <3>1. a \in {"ok", "unavailable"} /\ p = plugin
      BY <1>6, <2>2 DEF Served
    <3> QED BY <1>6, <3>1 DEF Answers
  <2> QED BY <2>1, <2>2
<1>7. CASE cmd = "reap"
  <2>1. p = plugin /\ a \in {"ok", "refused"} /\ (a = "ok" => plugin.holder # x)
    BY <1>7 DEF Served
  <2> QED BY <1>7, <2>1 DEF Answers
<1> QED BY <1>2, <1>3, <1>4, <1>5, <1>6, <1>7 DEF Commands

\* The first request leaves the wire, its sender hears of it if it still waits, and the
\* plugin does what it was asked.
Serves(a) ==
    /\ 1 \in DOMAIN wire /\ wire[1] \in Requests /\ a \in Answers \ {"none", "lost"}
    /\ wire' \in Seq(Requests)
    /\ \A i \in DOMAIN wire' : i \in Nat /\ i + 1 \in DOMAIN wire /\ i + 1 > 1 /\ wire'[i] = wire[i + 1]
    /\ plugin' \in Leases
    /\ plugin'.holder # plugin.holder =>
          \/ wire[1].cmd = "claim" /\ plugin.holder = None /\ plugin'.holder = wire[1].lease
          \/ wire[1].cmd = "handback" /\ plugin.holder = wire[1].lease /\ plugin'.holder = None
    /\ plugin'.paused # plugin.paused /\ plugin'.holder # None =>
          plugin'.holder = wire[1].lease /\ (wire[1].cmd \in {"claim", "resume"} \/ plugin'.paused)
    /\ wire[1].cmd = "pause" /\ a = "ok" => plugin'.holder = wire[1].lease /\ plugin'.paused
    /\ wire[1].cmd = "reap" /\ a = "ok" => plugin'.holder # wire[1].lease
    /\ a = "held" => plugin.holder = wire[1].lease
    /\ a = "owner" => wire[1].cmd = "input"
    /\ answer' \in [Senders -> Answers]
    /\ \A o \in Senders : answer'[o] = IF wire[1].heard /\ o = wire[1].from THEN a ELSE answer[o]
    /\ left' \in Lefts /\ left'.todo = left.todo /\ left'.spent = left.spent /\ left'.given = left.given
    /\ \A w \in Workers : left'.hits[w] = IF wire[1].cmd = "input" /\ a = "ok" /\ w = wire[1].lease
                                          THEN left.hits[w] + 1 ELSE left.hits[w]
    /\ UNCHANGED <<worker, broker, record, control, tool>>

\* Every request is served in one of these ways.
LEMMA ServesOne ==
    ASSUME Typed, PluginServes
    PROVE  \E a : Serves(a)
<1>1. wire \in Seq(Requests) /\ wire # <<>>
  BY DEF PluginServes, Typed, MoreTypes
<1>2. /\ 1 \in DOMAIN wire /\ wire[1] \in Requests /\ Head(wire) = wire[1]
      /\ Tail(wire) \in Seq(Requests) /\ Len(wire) \in Nat
  BY <1>1
<1>3. \A i \in DOMAIN Tail(wire) : i \in Nat /\ i + 1 \in DOMAIN wire /\ i + 1 > 1 /\ Tail(wire)[i] = wire[i + 1]
  BY <1>1
<1> DEFINE s == Served(wire[1].cmd, wire[1].lease)
           a == s[1]
<1>4. /\ plugin' = s[2] /\ wire' = Tail(wire)
      /\ answer' = IF wire[1].heard THEN [answer EXCEPT ![wire[1].from] = a] ELSE answer
      /\ left' = IF wire[1].cmd = "input" /\ a = "ok"
                 THEN [left EXCEPT !.hits[wire[1].lease] = @ + 1] ELSE left
      /\ UNCHANGED <<worker, broker, record, control, tool>>
  BY <1>2 DEF PluginServes
<1>5. wire[1].cmd \in Commands /\ wire[1].lease \in Workers /\ wire[1].from \in Senders
  BY <1>2 DEF Requests
<1>6. s = <<a, plugin'>>
  <2>1. s = <<s[1], s[2]>>
    BY <1>5 DEF Served, Commands
  <2> HIDE DEF s
  <2> QED BY <1>4, <2>1
<1> HIDE DEF a, s
<1>7. /\ a \in Answers \ {"none", "lost"} /\ plugin' \in Leases
      /\ plugin'.holder # plugin.holder =>
            \/ wire[1].cmd = "claim" /\ plugin.holder = None /\ plugin'.holder = wire[1].lease
            \/ wire[1].cmd = "handback" /\ plugin.holder = wire[1].lease /\ plugin'.holder = None
      /\ plugin'.paused # plugin.paused /\ plugin'.holder # None =>
            plugin'.holder = wire[1].lease /\ (wire[1].cmd \in {"claim", "resume"} \/ plugin'.paused)
      /\ wire[1].cmd = "pause" /\ a = "ok" => plugin'.holder = wire[1].lease /\ plugin'.paused
      /\ wire[1].cmd = "reap" /\ a = "ok" => plugin'.holder # wire[1].lease
      /\ a = "held" => plugin.holder = wire[1].lease
      /\ a = "owner" => wire[1].cmd = "input"
  <2>1. plugin \in Leases
    BY DEF Typed
  <2> QED BY <1>5, <1>6, <2>1, ServedFacts DEF s
<1>8. /\ answer' \in [Senders -> Answers]
      /\ \A o \in Senders : answer'[o] = IF wire[1].heard /\ o = wire[1].from THEN a ELSE answer[o]
  BY <1>4, <1>5, <1>7 DEF Typed
<1>9. /\ left' \in Lefts /\ left'.todo = left.todo /\ left'.spent = left.spent /\ left'.given = left.given
      /\ \A w \in Workers : left'.hits[w] = IF wire[1].cmd = "input" /\ a = "ok" /\ w = wire[1].lease
                                            THEN left.hits[w] + 1 ELSE left.hits[w]
  <2>1. left \in Lefts
    BY DEF Typed, MoreTypes
  <2>2. left.hits \in [Workers -> Nat] /\ left.hits[wire[1].lease] + 1 \in Nat
    BY <1>5, <2>1 DEF Lefts
  <2> DEFINE h == [left.hits EXCEPT ![wire[1].lease] = left.hits[wire[1].lease] + 1]
  <2>3. h \in [Workers -> Nat] /\ h[wire[1].lease] = left.hits[wire[1].lease] + 1
        /\ \A w \in Workers \ {wire[1].lease} : h[w] = left.hits[w]
    BY <1>5, <2>2
  <2>4. CASE wire[1].cmd = "input" /\ a = "ok"
    <3>1. left' = [left EXCEPT !.hits = h]
      BY <1>4, <2>4
    <3> HIDE DEF h
    <3> QED BY <2>1, <2>3, <2>4, <3>1 DEF Lefts
  <2>5. CASE ~(wire[1].cmd = "input" /\ a = "ok")
    BY <1>4, <2>1, <2>5
  <2> QED BY <2>4, <2>5
<1>10. Serves(a)
  BY <1>2, <1>3, <1>4, <1>7, <1>8, <1>9 DEF Serves
<1> QED BY <1>10

\* Only a worker claims, pauses, resumes and sends input, and only for itself.
LEMMA Sources ==
    ASSUME LeaseInv, NEW i \in DOMAIN wire, wire[i].cmd \notin {"info", "handback", "reap"}
    PROVE  wire[i].from \in Workers /\ wire[i].lease = wire[i].from
<1>1. Typed /\ (\A w \in Workers : LocalInv(w)) /\ OwnerInv
  BY Parts
<1>2. wire[i].from \in Senders
  <2>1. wire \in Seq(Requests)
    BY <1>1 DEF Typed, MoreTypes
  <2>2. wire[i] \in Requests
    BY <2>1
  <2> QED BY <2>2 DEF Requests
<1>3. wire[i].from # Owner
  BY <1>1 DEF OwnerInv
<1>4. wire[i].from \in Workers
  BY <1>2, <1>3 DEF Senders
<1> QED BY <1>1, <1>4 DEF LocalInv, RecordInv

\* What serving a request means to a worker.
LEMMA ServesLocal ==
    ASSUME LeaseInv, NEW a, Serves(a), NEW w \in Workers
    PROVE  LocalInv(w)'
<1>1. Typed /\ LocalInv(w)
  BY Parts
<1>2. StepInv(w) /\ PipeInv(w) /\ RecordInv(w) /\ AskedInv(w) /\ FinishInv(w) /\ PauseInv(w) /\ InputInv(w)
  BY <1>1 DEF LocalInv
<1>3. /\ 1 \in DOMAIN wire /\ a \notin {"none", "lost"}
      /\ \A i \in DOMAIN wire' : i \in Nat /\ i + 1 \in DOMAIN wire /\ i + 1 > 1 /\ wire'[i] = wire[i + 1]
      /\ UNCHANGED <<worker, broker, record, control, tool>> /\ left'.todo = left.todo
  BY DEF Serves
<1>4. answer'[w] = IF wire[1].heard /\ wire[1].from = w THEN a ELSE answer[w]
  BY DEF Serves, Senders
<1>5. wire[1].cmd \notin {"info", "handback", "reap"} => wire[1].lease = wire[1].from
  BY <1>3, Sources
<1>6. wire[1].from = w => wire[1].lease = w
  BY <1>2, <1>3 DEF RecordInv
\* What may change in the plugin, as w sees it.
<1>7. NoneFrom(w) /\ plugin.holder # w => plugin'.holder # w
  BY <1>3, <1>5, NativeLeaseAssumption DEF Serves, NoneFrom
<1>8. plugin'.holder = w => \/ plugin.holder = w
                            \/ wire[1].cmd = "claim" /\ wire[1].from = w
  BY <1>5, NativeLeaseAssumption DEF Serves
<1>9. PausedFor(w) /\ (wire[1].from = w => wire[1].cmd \notin {"claim", "resume"}) => PausedFor(w)'
  <2> SUFFICES ASSUME PausedFor(w), wire[1].from = w => wire[1].cmd \notin {"claim", "resume"},
                      plugin'.holder = w
               PROVE  plugin'.paused
    BY DEF PausedFor
  <2>1. plugin.holder = w /\ plugin.paused /\ plugin'.holder # None
    BY <1>8, NativeLeaseAssumption DEF PausedFor
  <2>2. CASE plugin'.paused # plugin.paused
    <3>1. plugin'.paused \/ (wire[1].cmd \in {"claim", "resume"} /\ wire[1].lease = w)
      BY <2>1, <2>2 DEF Serves
    <3> QED BY <1>5, <3>1
  <2>3. CASE plugin'.paused = plugin.paused
    BY <2>1, <2>3
  <2> QED BY <2>2, <2>3
<1>10. StepInv(w)'
  BY <1>2, <1>3, <1>7 DEF StepInv, NoneFrom
<1>11. PipeInv(w)'
  BY <1>2, <1>3 DEF PipeInv
<1>12. RecordInv(w)'
  <2>1. plugin'.holder = w => w \in record
    BY <1>2, <1>3, <1>8 DEF RecordInv
  <2> QED BY <1>2, <1>3, <2>1 DEF RecordInv
\* An answer that w hears now was to its last request.
<1>13. wire[1].from = w /\ wire[1].heard =>
          /\ NoneFrom(w)' /\ answer[w] = "none" /\ worker[w].step \in Asking
          /\ worker[w].step = "reap" => wire[1].cmd = "reap"
          /\ worker[w].step = "asks" /\ worker[w].op = "pause" => wire[1].cmd = "pause"
  BY <1>2, <1>3 DEF AskedInv, NoneFrom
<1>14. NoneFrom(w) => NoneFrom(w)' /\ wire[1].from # w
  BY <1>3 DEF NoneFrom
<1>15. AskedInv(w)'
  <2>1. ASSUME NEW i \in DOMAIN wire', wire'[i].from = w, wire'[i].heard
        PROVE  /\ answer'[w] = "none" /\ worker'[w].step \in Asking
               /\ \A j \in DOMAIN wire' : j > i => wire'[j].from # w
               /\ worker'[w].step = "reap" => wire'[i].cmd = "reap"
               /\ worker'[w].step = "asks" /\ worker'[w].op = "pause" => wire'[i].cmd = "pause"
    <3>1. i + 1 \in DOMAIN wire /\ wire[i + 1].from = w /\ wire[i + 1].heard /\ wire'[i] = wire[i + 1]
      BY <1>3, <2>1
    <3>2. ~(wire[1].from = w /\ wire[1].heard)
      BY <1>13, <2>1 DEF NoneFrom
    <3>3. \A j \in DOMAIN wire' : j > i => j + 1 > i + 1 /\ wire'[j] = wire[j + 1] /\ j + 1 \in DOMAIN wire
      BY <1>3, <2>1
    <3> QED BY <1>2, <1>3, <1>4, <3>1, <3>2, <3>3 DEF AskedInv
  <2>2. answer'[w] \notin {"none", "lost"} => NoneFrom(w)'
    BY <1>2, <1>4, <1>13, <1>14 DEF AskedInv
  <2>3. worker[w].step = "reap" /\ answer'[w] = "ok" => plugin'.holder # w
    <3>1. CASE wire[1].from = w /\ wire[1].heard
      BY <1>4, <1>6, <1>13, <3>1 DEF Serves
    <3>2. CASE ~(wire[1].from = w /\ wire[1].heard)
      BY <1>2, <1>4, <1>7, <3>2 DEF AskedInv
    <3> QED BY <3>1, <3>2
  <2>4. worker[w].step = "asks" /\ worker[w].op = "pause" /\ answer'[w] = "ok" => PausedFor(w)'
    <3>1. CASE wire[1].from = w /\ wire[1].heard
      BY <1>4, <1>6, <1>13, <3>1 DEF Serves, PausedFor
    <3>2. CASE ~(wire[1].from = w /\ wire[1].heard)
      BY <1>2, <1>4, <1>9, <1>14, <3>2 DEF AskedInv
    <3> QED BY <3>1, <3>2
  <2> QED BY <1>3, <2>1, <2>2, <2>3, <2>4 DEF AskedInv
<1>16. FinishInv(w)'
  BY <1>2, <1>3, <1>7, <1>9, <1>14 DEF FinishInv
<1>17. PauseInv(w)'
  BY <1>2, <1>3, <1>9 DEF PauseInv
<1>18. InputInv(w)'
  <2>1. left.hits[w] \in Nat
    BY <1>1 DEF Typed, MoreTypes, Lefts
  <2>2. wire[1].cmd = "input" /\ wire[1].lease = w => IsInput(1, w)
    BY <1>5 DEF IsInput
  <2>3. \A i \in DOMAIN wire' : IsInput(i, w)' => i + 1 \in DOMAIN wire /\ i + 1 # 1 /\ IsInput(i + 1, w)
    BY <1>3 DEF IsInput
  <2>4. ToSend(w)' => \/ ToSend(w)
                      \/ IsInput(1, w) /\ a = "owner"
    BY <1>3, <1>4 DEF ToSend, IsInput, Serves
  <2>5. CASE IsInput(1, w)
    <3>1. left.hits[w] = 0 /\ ~ToSend(w) /\ \A j \in DOMAIN wire : j # 1 => ~IsInput(j, w)
      BY <1>2, <1>3, <2>5 DEF InputInv
    <3>2. \A i \in DOMAIN wire' : ~IsInput(i, w)'
      BY <2>3, <3>1
    <3>3. left'.hits[w] \in {0, 1} /\ (a # "ok" => left'.hits[w] = 0)
      BY <3>1 DEF Serves
    <3>4. ToSend(w)' => left'.hits[w] = 0
      BY <2>4, <3>1, <3>3
    <3> QED BY <1>2, <1>3, <3>2, <3>3, <3>4 DEF InputInv
  <2>6. CASE ~IsInput(1, w)
    <3>1. left'.hits[w] = left.hits[w]
      BY <2>2, <2>6 DEF Serves
    <3>2. ToSend(w)' => ToSend(w)
      BY <2>4, <2>6
    <3>3. \A i, j \in DOMAIN wire' : i # j => i + 1 # j + 1
      BY <1>3
    <3> QED BY <1>2, <1>3, <2>3, <3>1, <3>2, <3>3 DEF InputInv
  <2> QED BY <2>5, <2>6
<1> QED BY <1>10, <1>11, <1>12, <1>15, <1>16, <1>17, <1>18 DEF LocalInv

\* And to the owner's process.
LEMMA ServesOwner ==
    ASSUME LeaseInv, NEW a, Serves(a)
    PROVE  OwnerInv' /\ ReleaseInv'
<1>1. Typed /\ OwnerInv /\ ReleaseInv
  BY Parts
<1>2. /\ 1 \in DOMAIN wire /\ a \notin {"none", "lost"}
      /\ \A i \in DOMAIN wire' : i \in Nat /\ i + 1 \in DOMAIN wire /\ i + 1 > 1 /\ wire'[i] = wire[i + 1]
      /\ UNCHANGED <<worker, broker, tool>>
  BY DEF Serves
<1>3. answer'[Owner] = IF wire[1].heard /\ wire[1].from = Owner THEN a ELSE answer[Owner]
  BY DEF Serves, Senders
<1>4. \A i, j \in DOMAIN wire' : (j > i <=> j + 1 > i + 1) /\ (j < i <=> j + 1 < i + 1) /\ 1 < i + 1
  BY <1>2
<1>5. \A y : Gone(y)' <=> Gone(y)
  BY <1>2 DEF Gone
<1>6. wire[1].from = Owner /\ wire[1].heard =>
          /\ answer[Owner] = "none" /\ tool.step # "idle"
          /\ wire[1].cmd = tool.step /\ wire[1].lease = tool.lease /\ NoneFrom(Owner)'
  BY <1>1, <1>2 DEF OwnerInv, NoneFrom
<1>7. wire[1].cmd \notin {"info", "handback", "reap"} => wire[1].lease = wire[1].from
  BY <1>2, Sources
<1>8. OwnerInv'
  <2>1. ASSUME NEW i \in DOMAIN wire', wire'[i].from = Owner
        PROVE  /\ wire'[i].cmd \in {"info", "handback", "reap"}
               /\ wire'[i].cmd = "handback" => broker[wire'[i].lease].state # "off" /\ ~worker[wire'[i].lease].up
               /\ wire'[i].heard =>
                     /\ answer'[Owner] = "none" /\ tool.step # "idle"
                     /\ wire'[i].cmd = tool.step /\ wire'[i].lease = tool.lease
                     /\ \A j \in DOMAIN wire' : j > i => wire'[j].from # Owner
    <3>1. i + 1 \in DOMAIN wire /\ wire'[i] = wire[i + 1] /\ wire[i + 1].from = Owner
      BY <1>2, <2>1
    <3>2. ~(wire[1].from = Owner /\ wire[1].heard)
      BY <1>6, <2>1 DEF NoneFrom
    <3> QED BY <1>1, <1>2, <1>3, <1>4, <3>1, <3>2 DEF OwnerInv, Gone
  <2>2. answer'[Owner] \notin {"none", "lost"} => NoneFrom(Owner)'
    BY <1>1, <1>2, <1>3, <1>6 DEF OwnerInv, NoneFrom
  <2> QED BY <1>1, <1>2, <2>1, <2>2 DEF OwnerInv, Gone
\* Nobody takes the client for a worker that has no request on its way.
<1>9. ASSUME NEW y \in Workers, plugin.holder # y, wire[1].from # y PROVE plugin'.holder # y
  BY <1>7, <1>9, NativeLeaseAssumption DEF Serves
<1>10. tool.step # "idle" => tool.lease \in Workers
  BY <1>1 DEF OwnerInv
<1>11. ReleaseInv'
  <2>1. ASSUME tool.step = "info", ~tool.alive, ~Gone(tool.lease)
        PROVE  /\ answer'[Owner] # "held"
               /\ \A i \in DOMAIN wire' : wire'[i].from = Owner /\ wire'[i].heard =>
                     /\ plugin'.holder # tool.lease
                     /\ \A j \in DOMAIN wire' : j < i => wire'[j].from # tool.lease
    <3>1. answer'[Owner] # "held"
      BY <1>1, <1>2, <1>3, <1>6, <2>1 DEF ReleaseInv, Serves
    <3>2. ASSUME NEW i \in DOMAIN wire', wire'[i].from = Owner, wire'[i].heard
          PROVE  /\ plugin'.holder # tool.lease
                 /\ \A j \in DOMAIN wire' : j < i => wire'[j].from # tool.lease
      <4>1. i + 1 \in DOMAIN wire /\ wire[i + 1].from = Owner /\ wire[i + 1].heard
        BY <1>2, <3>2
      <4>2. plugin.holder # tool.lease /\ \A j \in DOMAIN wire : j < i + 1 => wire[j].from # tool.lease
        BY <1>1, <2>1, <4>1 DEF ReleaseInv
      <4>3. wire[1].from # tool.lease
        BY <1>2, <1>4, <3>2, <4>2
      <4> QED BY <1>2, <1>4, <1>9, <1>10, <2>1, <3>2, <4>2, <4>3
    <3> QED BY <3>1, <3>2
  <2>2. ASSUME tool.step = "reap"
        PROVE  /\ \A i \in DOMAIN wire' : wire'[i].from = Owner /\ wire'[i].heard =>
                     \A j \in DOMAIN wire' : j > i => wire'[j].from # tool.lease
               /\ answer'[Owner] = "ok" => plugin'.holder # tool.lease /\ NoneFrom(tool.lease)'
    <3>1. \A i \in DOMAIN wire' : wire'[i].from = Owner /\ wire'[i].heard =>
              \A j \in DOMAIN wire' : j > i => wire'[j].from # tool.lease
      BY <1>1, <1>2, <1>4, <2>2 DEF ReleaseInv
    <3>2. CASE wire[1].from = Owner /\ wire[1].heard
      <4>1. \A j \in DOMAIN wire : j > 1 => wire[j].from # tool.lease
        BY <1>1, <1>2, <2>2, <3>2 DEF ReleaseInv
      <4>2. NoneFrom(tool.lease)'
        BY <1>2, <4>1 DEF NoneFrom
      <4>3. wire[1].cmd = "reap" /\ wire[1].lease = tool.lease
        BY <1>6, <2>2, <3>2
      <4> QED BY <1>3, <3>1, <3>2, <4>2, <4>3 DEF Serves
    <3>3. CASE ~(wire[1].from = Owner /\ wire[1].heard)
      <4>1. answer'[Owner] = "ok" => plugin.holder # tool.lease /\ NoneFrom(tool.lease)
        BY <1>1, <1>3, <2>2, <3>3 DEF ReleaseInv
      <4>2. answer'[Owner] = "ok" => NoneFrom(tool.lease)' /\ wire[1].from # tool.lease
        BY <1>2, <4>1 DEF NoneFrom
      <4> QED BY <1>9, <1>10, <2>2, <3>1, <4>1, <4>2
    <3> QED BY <3>2, <3>3
  <2> QED BY <1>2, <1>5, <2>1, <2>2 DEF ReleaseInv
<1> QED BY <1>8, <1>11

\* The compositor serves a request.
LEMMA PluginServesStep ==
    ASSUME LeaseInv, PluginServes
    PROVE  LeaseInv'
<1>1. Typed /\ ApprovalInv
  BY Parts
<1>2. PICK a : Serves(a)
  BY <1>1, ServesOne
<1>3. Typed'
  BY <1>1, <1>2 DEF Serves, Typed, MoreTypes
<1>4. ApprovalInv'
  BY <1>1, <1>2 DEF Serves, ApprovalInv
<1>5. \A w \in Workers : LocalInv(w)'
  BY <1>2, ServesLocal
<1>6. OwnerInv' /\ ReleaseInv'
  BY <1>2, ServesOwner
<1> QED BY <1>3, <1>4, <1>5, <1>6, Together

\* The owner types, the application ends, the compositor finds a worker gone.
LEMMA PluginOwnStep ==
    ASSUME LeaseInv, PluginReaps \/ OwnerTypes \/ ClientEnds
    PROVE  LeaseInv'
<1>1. Typed /\ (\A w \in Workers : LocalInv(w)) /\ OwnerInv /\ ReleaseInv /\ ApprovalInv /\ left \in Lefts
  BY Parts DEF Typed, MoreTypes
<1>2. UNCHANGED <<worker, broker, record, wire, answer, control, tool>>
  BY DEF PluginReaps, OwnerTypes, ClientEnds
<1>3. /\ left' \in Lefts /\ left'.todo = left.todo /\ left'.hits = left.hits
      /\ left'.spent = left.spent /\ left'.given = left.given
  BY <1>1 DEF PluginReaps, OwnerTypes, ClientEnds, Lefts
<1>4. /\ plugin' \in Leases
      /\ \/ plugin'.holder = plugin.holder /\ plugin'.paused = plugin.paused
         \/ plugin'.holder = None
  <2>1. plugin \in Leases
    BY <1>1 DEF Typed
  <2> QED BY <2>1 DEF PluginReaps, OwnerTypes, ClientEnds, Leases
<1>5. Typed'
  BY <1>1, <1>2, <1>3, <1>4 DEF Typed, MoreTypes
<1>6. ASSUME NEW w \in Workers PROVE LocalInv(w)'
  <2>1. (plugin'.holder = w => plugin.holder = w) /\ (PausedFor(w) => PausedFor(w)')
    BY <1>4, NativeLeaseAssumption DEF PausedFor
  <2>2. StepInv(w) /\ PipeInv(w) /\ RecordInv(w) /\ AskedInv(w) /\ FinishInv(w) /\ PauseInv(w) /\ InputInv(w)
    BY <1>1 DEF LocalInv
  <2>3. StepInv(w)' /\ PipeInv(w)' /\ RecordInv(w)'
    BY <1>2, <2>1, <2>2 DEF StepInv, PipeInv, RecordInv, NoneFrom
  <2>4. AskedInv(w)' /\ FinishInv(w)' /\ PauseInv(w)'
    BY <1>2, <2>1, <2>2 DEF AskedInv, FinishInv, PauseInv, NoneFrom
  <2>5. InputInv(w)'
    BY <1>2, <1>3, <2>2 DEF InputInv, ToSend, IsInput
  <2> QED BY <2>3, <2>4, <2>5 DEF LocalInv
<1>7. OwnerInv'
  BY <1>1, <1>2 DEF OwnerInv, NoneFrom, Gone
<1>8. ReleaseInv'
  <2>1. tool.step # "idle" => (plugin.holder # tool.lease => plugin'.holder # tool.lease)
    BY <1>1, <1>4, NativeLeaseAssumption DEF OwnerInv
  <2> QED BY <1>1, <1>2, <2>1 DEF ReleaseInv, NoneFrom, Gone
<1>9. ApprovalInv'
  BY <1>1, <1>2, <1>3 DEF ApprovalInv
<1> QED BY <1>5, <1>6, <1>7, <1>8, <1>9, Together

----------------------------------------------------------------------------
(* The theorems.                                                            *)

\* Nothing has begun.
LEMMA InitLease ==
    ASSUME Init
    PROVE  LeaseInv
<1>1. PICK c \in Cases :
        /\ control = [mode |-> c.mode, approval |-> None, lock |-> None]
        /\ left = [todo |-> c.todo, kills |-> c.kills, losses |-> c.losses, approvals |-> c.approvals,
                   repairs |-> c.repairs, typing |-> c.typing, ends |-> c.ends,
                   given |-> 0, spent |-> 0, hits |-> [w \in Workers |-> 0]]
  BY DEF Init
<1>2. /\ worker = [w \in Workers |-> Idle]
      /\ broker = [w \in Workers |-> [state |-> "off", asks |-> None, pipe |-> None, told |-> "none"]]
      /\ record = {} /\ wire = <<>> /\ answer = [p \in Senders |-> "none"]
      /\ plugin = [holder |-> None, paused |-> FALSE, typing |-> FALSE, client |-> TRUE, retired |-> {}]
      /\ tool = [step |-> "idle", lease |-> None, live |-> {}, alive |-> FALSE, noted |-> TRUE]
  BY DEF Init
<1>3. c \in Budgets
  BY NativeLeaseAssumption
<1>4. control \in Controls /\ control.approval = None /\ control.lock = None
  BY <1>1, <1>3 DEF Controls, Budgets
<1>5. left \in Lefts /\ left.given = 0 /\ left.spent = 0 /\ left.hits = [w \in Workers |-> 0]
  BY <1>1, <1>3 DEF Lefts, Budgets
<1>6. tool \in Tools /\ tool.step = "idle"
  BY <1>2 DEF Tools
<1>7. wire \in Seq(Requests) /\ DOMAIN wire = {}
  BY <1>2
<1>8. NativeTypeOK
  BY <1>2, <1>4 DEF NativeTypeOK, Idle, Answers
<1>9. ASSUME NEW w \in Workers PROVE LocalInv(w)
  <2>1. worker[w] = Idle /\ plugin.holder # w /\ answer[w] = "none" /\ left.hits[w] = 0
        /\ broker[w] = [state |-> "off", asks |-> None, pipe |-> None, told |-> "none"]
    BY <1>2, <1>5, NativeLeaseAssumption DEF Senders
  <2>2. None \notin {"claim", "act", "resume", "pause", "handback", "close"}
    BY NativeLeaseAssumption DEF Ops, Executes, Cleanups
  <2>3. StepInv(w) /\ PipeInv(w) /\ RecordInv(w)
    BY <1>7, <2>1, <2>2 DEF StepInv, PipeInv, RecordInv, NoneFrom, Idle
  <2>4. AskedInv(w) /\ FinishInv(w) /\ PauseInv(w)
    BY <1>7, <2>1 DEF AskedInv, FinishInv, PauseInv, Idle
  <2>5. InputInv(w)
    BY <1>7, <2>1, <2>2 DEF InputInv, ToSend, IsInput, Idle
  <2> QED BY <2>3, <2>4, <2>5 DEF LocalInv
<1>10. OwnerInv /\ ReleaseInv
  BY <1>2, <1>6, <1>7 DEF OwnerInv, ReleaseInv, Senders
<1>11. ApprovalInv
  BY <1>4, <1>5 DEF ApprovalInv
<1> QED BY <1>4, <1>5, <1>6, <1>7, <1>8, <1>9, <1>10, <1>11 DEF LeaseInv, MoreTypes

\* Every step of every process keeps it.
LEMMA NextLease ==
    ASSUME LeaseInv, [Next]_vars
    PROVE  LeaseInv'
<1>1. ASSUME NEW w \in Workers,
             \/ Start(w) \/ Stop(w) \/ Signals(w) \/ Crashes(w) \/ Exited(w) \/ ReapWorker(w)
             \/ Reads(w) \/ Begins(w) \/ Spends(w) \/ CleansUp(w) \/ HearsInfo(w)
             \/ HearsAsked(w) \/ HearsHandback(w) \/ Finishes(w) \/ Closes(w) \/ Looks(w)
      PROVE  LeaseInv'
  BY <1>1, StartStep, StopStep, EndStep, ExitedStep, ReapWorkerStep, ReadsStep, BeginsStep, SpendsStep,
     CleansUpStep, HearsInfoStep, HearsAskedStep, HearsHandbackStep, FinishesStep, ClosesStep, LooksStep
<1>2. ASSUME NEW w \in Workers, NEW op \in left.todo[w], Ask(w, op) \/ Approves(w, op) PROVE LeaseInv'
  BY <1>2, AskStep, ApprovesStep
<1>3. ASSUME NEW p \in Senders, ExchangeExpires(p) PROVE LeaseInv'
  BY <1>3, ExpiresStep, OwnerExpiresStep DEF Senders
<1>4. CASE PluginServes \/ PluginReaps \/ OwnerTypes \/ ClientEnds \/ Releases \/ Released
  BY <1>4, PluginServesStep, PluginOwnStep, ReleasesStep, ReleasedStep
<1>5. CASE UNCHANGED vars
  BY <1>5 DEF vars, LeaseInv, NativeTypeOK, MoreTypes, LocalInv, StepInv, PipeInv, RecordInv, AskedInv,
              FinishInv, PauseInv, InputInv, OwnerInv, ReleaseInv, ApprovalInv, NoneFrom, PausedFor,
              ToSend, IsInput, Gone
<1> QED BY <1>1, <1>2, <1>3, <1>4, <1>5 DEF Next

\* The life of an application lease, for any workers and every budget.
THEOREM LeaseInvariant == Spec => []LeaseInv
<1>1. Init => LeaseInv
  BY InitLease
<1>2. LeaseInv /\ [Next]_vars => LeaseInv'
  BY NextLease
<1> QED BY <1>1, <1>2, PTL DEF Spec

\* Whoever holds the client can be found; a pause that was heard of holds, an input
\* reaches the client once and an approval admits one action (existing.py, control.py).
THEOREM LeaseIsSound == Spec => []LeaseSound
<1>1. LeaseInv => LeaseSound
  <2> SUFFICES ASSUME LeaseInv PROVE LeaseSound
    OBVIOUS
  <2>1. Typed /\ (\A w \in Workers : LocalInv(w)) /\ ApprovalInv /\ NativeTypeOK
    BY Parts DEF LeaseInv
  <2>2. HolderRecorded
    BY <2>1 DEF HolderRecorded, LocalInv, RecordInv, Typed, Leases
  <2>3. PausedIsPaused
    BY <2>1 DEF PausedIsPaused, LocalInv, PauseInv, PausedFor
  <2>4. InputOnce
    BY <2>1 DEF InputOnce, LocalInv, InputInv
  <2>5. left.spent \in Nat /\ left.given \in Nat
    BY <2>1 DEF Typed, MoreTypes, Lefts
  <2>6. ApprovalsCover
    BY <2>1, <2>5 DEF ApprovalsCover, ApprovalInv
  <2> QED BY <2>1, <2>2, <2>3, <2>4, <2>6 DEF LeaseSound
<1> QED BY <1>1, LeaseInvariant, PTL

\* No repair, timer or other session ends the lease of a worker that runs (leases.py).
THEOREM NothingStolen == Spec => NotStolen
<1> DEFINE Kept == \A w \in Workers :
               plugin.holder = w /\ plugin'.holder # w /\ worker[w].up =>
                   \/ ~plugin'.client
                   \/ wire # <<>> /\ Head(wire).from = w /\ Head(wire).cmd = "handback"
<1>1. ASSUME LeaseInv, [Next]_vars PROVE Kept
  <2> SUFFICES ASSUME NEW w \in Workers, plugin.holder = w, plugin'.holder # w, worker[w].up
               PROVE  \/ ~plugin'.client
                      \/ wire # <<>> /\ Head(wire).from = w /\ Head(wire).cmd = "handback"
    OBVIOUS
  <2>1. Typed /\ OwnerInv /\ (\A v \in Workers : LocalInv(v)) /\ wire \in Seq(Requests) /\ w # None
    BY <1>1, Parts, NativeLeaseAssumption DEF Typed, MoreTypes
  <2>2. CASE PluginServes
    <3>1. PICK a : Serves(a)
      BY <2>1, <2>2, ServesOne
    <3>2. wire[1].cmd = "handback" /\ wire[1].lease = w /\ 1 \in DOMAIN wire /\ wire[1].from \in Senders
      BY <2>1, <3>1 DEF Serves, Requests
    <3>3. wire[1].from # Owner
      BY <2>1, <3>2 DEF OwnerInv, Gone
    <3>4. wire[1].from \in Workers
      BY <3>2, <3>3 DEF Senders
    <3>5. wire[1].from = w
      BY <2>1, <3>2, <3>4 DEF LocalInv, RecordInv
    <3> QED BY <2>1, <3>2, <3>5
  <2>3. CASE ClientEnds
    <3>1. plugin \in Leases
      BY <2>1 DEF Typed
    <3> QED BY <2>3, <3>1 DEF ClientEnds, Leases
  <2>4. CASE PluginReaps
    BY <2>4 DEF PluginReaps
  <2>5. CASE OwnerTypes
    <3>1. plugin \in Leases
      BY <2>1 DEF Typed
    <3> QED BY <2>5, <3>1 DEF OwnerTypes, Leases
  <2>6. ASSUME plugin' = plugin PROVE FALSE
    BY <2>6
  <2>7. PluginServes \/ ClientEnds \/ PluginReaps \/ OwnerTypes \/ plugin' = plugin
    <3>1. ASSUME NEW v \in Workers,
                 \/ Start(v) \/ Stop(v) \/ Signals(v) \/ Crashes(v) \/ Exited(v) \/ ReapWorker(v)
                 \/ Reads(v) \/ Begins(v) \/ Spends(v) \/ CleansUp(v) \/ HearsInfo(v)
                 \/ HearsAsked(v) \/ HearsHandback(v) \/ Finishes(v) \/ Closes(v) \/ Looks(v)
          PROVE  plugin' = plugin
      <4>1. CASE Start(v) \/ Stop(v) \/ Signals(v) \/ Crashes(v) \/ Exited(v) \/ ReapWorker(v)
        BY <4>1 DEF Start, Stop, Signals, Crashes, Exited, ReapWorker
      <4>2. CASE Reads(v) \/ Begins(v) \/ Spends(v) \/ CleansUp(v)
        BY <4>2 DEF Reads, Begins, Spends, CleansUp
      <4>3. CASE HearsInfo(v) \/ HearsAsked(v) \/ HearsHandback(v)
        BY <4>3 DEF HearsInfo, HearsAsked, HearsHandback
      <4>4. CASE Finishes(v) \/ Closes(v) \/ Looks(v)
        BY <4>4 DEF Finishes, Closes, Looks
      <4> QED BY <3>1, <4>1, <4>2, <4>3, <4>4
    <3>2. ASSUME NEW v \in Workers, NEW op, Ask(v, op) \/ Approves(v, op) PROVE plugin' = plugin
      BY <3>2 DEF Ask, Approves
    <3>3. ASSUME NEW p \in Senders, ExchangeExpires(p) PROVE plugin' = plugin
      BY <3>3 DEF ExchangeExpires
    <3>4. CASE Releases \/ Released \/ UNCHANGED vars
      BY <3>4 DEF Releases, Released, vars
    <3> QED BY <1>1, <3>1, <3>2, <3>3, <3>4 DEF Next
  <2> QED BY <2>2, <2>3, <2>4, <2>5, <2>6, <2>7
<1>2. LeaseInv /\ [Next]_vars => [Kept]_vars
  BY <1>1
<1>3. Spec => [][Kept]_vars
  BY <1>2, LeaseInvariant, PTL DEF Spec
<1> QED BY <1>3 DEF NotStolen
=============================================================================
