---------------------------- MODULE PluginProofs ----------------------------
(***************************************************************************)
(* Two components around the compositor plugin, each by itself.            *)
(*                                                                         *)
(* The owner of the plugin (PluginOwner): whoever is killed or gives up,    *)
(* the journals account for every command, and the plugin is loaded, bound *)
(* and unloaded only where it fits, for any processes, builds and bounds.  *)
(*                                                                         *)
(* An action on a reference (SemanticDispatch): whatever is lost, a token   *)
(* takes effect once, on the widget that was shown, for any tokens,        *)
(* references and bounds.                                                  *)
(***************************************************************************)
EXTENDS PluginOwner, SemanticDispatch, FiniteSetTheorems, SequenceTheorems, TLAPS

----------------------------------------------------------------------------
(* The owner of the plugin                                                  *)

\* Where a process works.
Home(p) == preps[procs[p].prep].epoch
\* The steps of a command that follow a look at the plugin.
AfterLook == Asking \ {"status"}
\* The steps of a process that has a preparation, and those of a published one.
Ready  == Inside \cup {"open", "record", "link", "prune"}

\* What a process holds.
ProcInv(p) ==
    /\ procs[p].step # "idle" => procs[p].op # None
    /\ procs[p].step \in Ready \cup {"publish"} =>
          procs[p].prep \in Preps /\ preps[procs[p].prep].state # "none"
    /\ procs[p].step \in Ready => preps[procs[p].prep].state \in {"published", "removed"}
    /\ procs[p].step \in Inside => procs[p].id \in Ids /\ ops[procs[p].id].verb \in Verbs /\ lock[Home(p)] = p
    /\ procs[p].step \in {"readiness", "pause", "quiet", "unload", "resume", "resumed"} => Verb(p) # "load"
    /\ procs[p].step \in {"check", "copy", "stage", "publish", "record", "link", "prune"} => procs[p].op = "refresh"
    /\ procs[p].step \in {"copy", "stage"} => procs[p].build \in Builds
    /\ procs[p].op = "refresh" /\ procs[p].step # "check" => procs[p].build \in Builds
    /\ procs[p].step = "publish" /\ preps[procs[p].prep].epoch = host.epoch =>
          Abi[preps[procs[p].prep].build] = host.abi
\* What is published fits the instance that it is for.
PrepInv ==
    \A r \in Preps :
        /\ preps[r].state # "none" => preps[r].epoch <= host.epoch
        /\ preps[r].state = "published" /\ preps[r].epoch = host.epoch => Abi[preps[r].build] = host.abi
        /\ preps[r].state = "none" => private[r].begun = {}
LockInv ==
    /\ \A e \in Epochs : lock[e] # None => procs[lock[e]].step \in Inside /\ Home(lock[e]) = e
    /\ \A p, q \in Procs : procs[p].step \in Inside /\ procs[q].step \in Inside /\ procs[p].id = procs[q].id => p = q

\* Of each operation, what the journals say of it.
Open(j) == j.begun \ j.done
Stage(p) ==
    LET pr == procs[p]  e == Home(p) IN
    CASE pr.step = "begin" -> Open(shared[e]) = {} /\ (\A d \in Epochs : pr.id \notin shared[d].begun)
                              /\ (\A r \in Preps : pr.id \notin private[r].begun)
      [] pr.step = "intent" -> Open(shared[e]) = {pr.id} /\ (\A r \in Preps : pr.id \notin private[r].begun)
      [] pr.step \in Asking \cup {"success", "error"} ->
            Open(shared[e]) = {pr.id} /\ pr.id \in Open(private[pr.prep])
            /\ (\A r \in Preps : pr.id \in private[r].begun => r = pr.prep)
      [] pr.step = "finish" ->
            Open(shared[e]) = {pr.id} /\ pr.id \in private[pr.prep].done
            /\ (\A r \in Preps : pr.id \in private[r].begun => r = pr.prep)
      [] OTHER -> TRUE
Says(p) ==
    LET pr == procs[p]  o == ops[pr.id] IN
    IF pr.step = "finish" THEN o.outcome \in {"success", "error"} /\ o.sent = pr.sent /\ o.paused = pr.paused
    ELSE pr.step \in Inside => o.outcome = None
JournalInv ==
    /\ \A e \in Epochs : shared[e].done \subseteq shared[e].begun
    /\ \A e \in Epochs : \A i, j \in Open(shared[e]) : i = j
    /\ \A r \in Preps : /\ private[r].done \subseteq private[r].begun
                        /\ private[r].begun \subseteq shared[preps[r].epoch].begun
                        /\ shared[preps[r].epoch].done \cap private[r].begun \subseteq private[r].done
    /\ \A id \in Ids : ops[id].verb = None =>
          /\ ops[id].outcome = None
          /\ \A e \in Epochs : id \notin shared[e].begun
          /\ \A r \in Preps : id \notin private[r].begun
    /\ \A p \in Procs : Stage(p) /\ Says(p)

\* What of a command is known to its operation.
Noted(cmd, sent, paused) == IF cmd = "pause" THEN paused ELSE sent
Announced(c) ==
    /\ c.id \in private[c.prep].begun
    /\ ops[c.id].outcome # None => Noted(c.cmd, ops[c.id].sent, ops[c.id].paused)
    /\ \A p \in Procs : procs[p].step \in Inside /\ procs[p].id = c.id =>
          Noted(c.cmd, procs[p].sent, procs[p].paused)
CommandInv ==
    /\ \A c \in host.ran : Announced(c)
    /\ \A i \in DOMAIN host.late : Announced(host.late[i])

\* What still waits at the compositor.
Waits(c) ==
    /\ preps[c.prep].epoch = host.epoch
    /\ c.cmd = "load" => Abi[preps[c.prep].build] = host.abi
    /\ c.cmd = "unload" => host.paused /\ ~host.lease
    /\ ops[c.id].outcome # "success"
    /\ \A p \in Procs : procs[p].step \in Inside /\ procs[p].id = c.id => procs[p].step \in {"error", "finish"}
LateInv ==
    /\ host.late # <<>> => Len(host.late) = 1 /\ Waits(host.late[1])
    /\ host.late # <<>> => \A p \in Procs : procs[p].step \in AfterLook => Home(p) # host.epoch
    /\ \A p \in Procs : procs[p].step = "unload" /\ Home(p) = host.epoch => host.paused /\ ~host.lease

Loaded(r) == \E c \in host.ran : c.cmd = "load" /\ c.prep = r
LoadInv ==
    /\ \A c \in host.ran : c.cmd = "unload" => c.quiet
    /\ host.loaded # None => /\ preps[host.loaded].epoch = host.epoch
                             /\ Abi[preps[host.loaded].build] = host.abi
                             /\ preps[host.loaded].state # "none" /\ Loaded(host.loaded)
Linking == {"record", "link", "prune"}
\* What a process that loads may rely on, and one that publishes.
Pursued(p) ==
    /\ procs[p].step = "success" /\ Verb(p) = "load" => Loaded(procs[p].prep)
    /\ procs[p].step = "finish" /\ Verb(p) = "load" /\ ops[procs[p].id].outcome = "success" => Loaded(procs[p].prep)
    /\ procs[p].step \in Linking => Loaded(procs[p].prep)
    /\ procs[p].step = "link" => disk.pin # None
\* Only another refresh can remove what a refresh has published.
AloneInv == ~left.overlap =>
    /\ disk.current # None => preps[disk.current].state = "published"
    /\ \A p, q \in Procs : procs[p].op = "refresh" /\ procs[q].op = "refresh" => p = q
    /\ \A p \in Procs : procs[p].op = "refresh" /\ procs[p].step \in Ready =>
          preps[procs[p].prep].state = "published"
    /\ \A p \in Procs : procs[p].step = "prune" => disk.current = procs[p].prep
RefreshInv ==
    /\ disk.current # None => disk.pin # None /\ Loaded(disk.current)
    /\ \A p \in Procs : Pursued(p)
    /\ AloneInv

PluginInv ==
    /\ TypeOK /\ (\A p \in Procs : ProcInv(p)) /\ PrepInv /\ LockInv
    /\ JournalInv /\ CommandInv /\ LateInv /\ LoadInv /\ RefreshInv

----------------------------------------------------------------------------
(* Steps that leave the journals and the compositor alone                   *)

\* What is kept of a preparation once it has a directory.
PrepsStand == \A r \in Preps : preps[r].state # "none" =>
    preps'[r].state # "none"
    /\ (preps[r].state \in {"published", "removed"} => preps'[r].state \in {"published", "removed"})
    /\ preps'[r].epoch = preps[r].epoch /\ preps'[r].build = preps[r].build
Others(p) == \A q \in Procs : q # p => procs'[q] = procs[q]

\* The operation of a process is complete in the journal of its instance.
Completed(p) ==
    /\ \A d \in Epochs : \/ shared'[d] = shared[d]
                         \/ lock[d] = p /\ shared'[d].begun = shared[d].begun /\ shared'[d].done = shared[d].begun
    /\ \A r \in Preps : shared'[preps[r].epoch].done \cap private[r].begun \subseteq private[r].done

\* A process that is, or from now on is, outside of the journals disturbs nothing there.
LEMMA OutsideStep ==
    ASSUME PluginInv, NEW p \in Procs, UNCHANGED <<host, private, ops>>, UNCHANGED shared \/ Completed(p),
           Others(p), PrepsStand,
           procs'[p].step \notin Inside,
           \A e \in Epochs : lock'[e] = IF lock[e] = p THEN None ELSE lock[e]
    PROVE  LockInv' /\ JournalInv' /\ CommandInv' /\ LateInv' /\ LoadInv'
<1> USE DEF PluginInv
<1>1. \A q \in Procs : procs'[q].step \in Inside => q # p /\ procs'[q] = procs[q]
  BY DEF Others
<1>2. \A q \in Procs : procs[q].step \in Inside => procs[q].prep \in Preps /\ preps[procs[q].prep].state # "none"
  BY DEF ProcInv, Ready
<1>3. \A q \in Procs : procs'[q].step \in Inside => Home(q)' = Home(q)
  BY <1>1, <1>2 DEF Home, PrepsStand
<1>4. LockInv'
  <2>1. ASSUME NEW e \in Epochs, lock'[e] # None
        PROVE  procs'[lock'[e]].step \in Inside /\ preps'[procs'[lock'[e]].prep].epoch = e
    <3>1. PICK q \in Procs : q = lock[e]
      BY <2>1 DEF TypeOK
    <3>2. lock'[e] = q /\ q # p /\ procs[q].step \in Inside /\ Home(q) = e
      BY <2>1, <3>1 DEF LockInv
    <3>3. procs'[q] = procs[q]
      BY <3>2 DEF Others
    <3> QED BY <1>3, <3>2, <3>3 DEF Home
  <2>2. \A q, r \in Procs : procs'[q].step \in Inside /\ procs'[r].step \in Inside /\ procs'[q].id = procs'[r].id => q = r
    BY <1>1 DEF LockInv
  <2> QED BY <2>1, <2>2 DEF LockInv, Home
<1>5. \A r \in Preps : private[r].begun # {} => preps'[r].epoch = preps[r].epoch
  BY DEF PrepInv, PrepsStand
<1>6. JournalInv'
  <2>1. \A q \in Procs : Stage(q)' /\ Says(q)'
    <3> TAKE q \in Procs
    <3>1. CASE procs'[q].step \notin Inside
      BY <3>1 DEF Stage, Says, Inside
    <3>2. CASE procs'[q].step \in Inside
      <4>1. Stage(q) /\ Says(q) /\ q # p /\ procs'[q] = procs[q]
        BY <1>1, <3>2 DEF JournalInv
      <4>2. Home(q) \in Epochs /\ lock[Home(q)] = q /\ Home(q)' = Home(q)
        BY <1>2, <1>3, <3>2, <4>1 DEF ProcInv, Home, TypeOK, Prep
      <4>3. shared'[Home(q)] = shared[Home(q)] /\ \A d \in Epochs : shared'[d].begun = shared[d].begun
        BY <4>1, <4>2 DEF Completed
      <4> QED BY <3>2, <4>1, <4>2, <4>3 DEF Stage, Says
    <3> QED BY <3>1, <3>2
  <2>2. \A r \in Preps : /\ private[r].done \subseteq private[r].begun
                         /\ private[r].begun \subseteq shared'[preps[r].epoch].begun
                         /\ shared'[preps[r].epoch].done \cap private[r].begun \subseteq private[r].done
    <3>1. \A r \in Preps : preps[r].epoch \in Epochs
      BY DEF TypeOK, Prep
    <3> QED BY <3>1 DEF JournalInv, Completed
  <2>3. \A r \in Preps : /\ private[r].done \subseteq private[r].begun
                         /\ private[r].begun \subseteq shared'[preps'[r].epoch].begun
                         /\ shared'[preps'[r].epoch].done \cap private[r].begun \subseteq private[r].done
    BY <1>5, <2>2
  <2>4. \A d \in Epochs : shared'[d].done \subseteq shared'[d].begun /\ \A i, j \in Open(shared'[d]) : i = j
    BY DEF JournalInv, Completed, Open
  <2>5. \A i \in Ids : ops[i].verb = None => \A d \in Epochs : i \notin shared'[d].begun
    BY DEF JournalInv, Completed
  <2> QED BY <2>1, <2>3, <2>4, <2>5 DEF JournalInv
<1>7. CommandInv'
  BY <1>1 DEF CommandInv, Announced
<1>8. LateInv'
  <2>1. ASSUME host.late # <<>> PROVE Waits(host.late[1])'
    <3>1. Len(host.late) = 1 /\ Waits(host.late[1])
      BY <2>1 DEF LateInv
    <3>2. host.late[1] \in Command /\ 1 \in DOMAIN host.late
      BY <3>1 DEF TypeOK, Host
    <3>3. host.late[1].prep \in Preps /\ private[host.late[1].prep].begun # {}
      BY <3>2 DEF CommandInv, Announced, Command
    <3> QED BY <1>1, <1>5, <3>1, <3>3 DEF Waits, PrepsStand, PrepInv
  <2>2. \A q \in Procs : procs'[q].step \in AfterLook \cup {"unload"} => procs'[q].step \in Inside
    BY DEF AfterLook, Inside, Asking, Commands
  <2> QED BY <1>1, <1>3, <2>1, <2>2 DEF LateInv
<1>9. LoadInv'
  BY DEF LoadInv, Loaded, PrepsStand, TypeOK, Host
<1> QED BY <1>4, <1>6, <1>7, <1>8, <1>9

\* What holds of the other processes goes on to hold.
LEMMA OthersStand ==
    ASSUME PluginInv, NEW p \in Procs, Others(p), PrepsStand,
           host'.epoch = host.epoch, host'.abi = host.abi, host.ran \subseteq host'.ran,
           \A q \in Procs : q # p /\ procs[q].step \in Inside => ops'[procs[q].id] = ops[procs[q].id],
           disk.pin # None => disk'.pin # None,
           \A e \in Epochs : lock[e] # p /\ lock[e] # None => lock'[e] = lock[e]
    PROVE  \A q \in Procs : q # p => ProcInv(q)' /\ Pursued(q)'
<1> SUFFICES ASSUME NEW q \in Procs, q # p PROVE ProcInv(q)' /\ Pursued(q)'
  OBVIOUS
<1> USE DEF PluginInv
<1>1. procs'[q] = procs[q] /\ ProcInv(q) /\ Pursued(q)
  BY DEF Others, RefreshInv
<1>2. procs[q].step \in Ready \cup {"publish"} => Home(q)' = Home(q) /\ Home(q) \in Epochs
  BY <1>1 DEF Home, ProcInv, PrepsStand, TypeOK, Prep
<1>3. ProcInv(q)'
  <2>1. procs[q].step \in Inside => procs[q].step \in Ready
    BY DEF Ready
  <2>2. procs[q].step \in Inside => lock'[Home(q)] = q /\ ops'[procs[q].id] = ops[procs[q].id]
    BY <1>1, <1>2, <2>1, OwnerAssumption DEF ProcInv
  <2> QED BY <1>1, <1>2, <2>1, <2>2 DEF ProcInv, PrepsStand, Home, Verb
<1>4. Pursued(q)'
  <2>1. procs[q].step = "finish" => ops'[procs[q].id] = ops[procs[q].id]
    BY DEF Inside
  <2> QED BY <1>1, <2>1 DEF Pursued, Loaded, Verb
<1> QED BY <1>3, <1>4

\* A command of the owner starts.
LEMMA OperateStep ==
    ASSUME PluginInv, NEW p \in Procs, NEW verb \in Verbs, NEW r \in Preps, Operate(p, verb, r)
    PROVE  PluginInv'
<1> USE DEF Operate
<1>1. TypeOK'
  <2>1. [NoProc EXCEPT !.op = verb, !.step = "open", !.prep = r] \in Proc
    BY DEF NoProc, Proc
  <2>2. procs' \in [Procs -> Proc]
    BY <2>1 DEF PluginInv, TypeOK
  <2>3. left'.verbs \in Nat /\ left' = [left EXCEPT !.verbs = left'.verbs]
    BY DEF PluginInv, TypeOK, Left
  <2> QED BY <2>2, <2>3 DEF PluginInv, TypeOK, Left
<1>2. procs'[p].step = "open" /\ procs'[p].op = verb /\ procs'[p].prep = r /\ Others(p)
  BY DEF PluginInv, TypeOK, Others, NoProc
<1>3. PrepsStand
  BY DEF PrepsStand
<1>4. \A e \in Epochs : lock[e] # p
  BY OwnerAssumption DEF PluginInv, LockInv, TypeOK, Inside, Asking, Commands
<1>5. LockInv' /\ JournalInv' /\ CommandInv' /\ LateInv' /\ LoadInv'
  BY <1>2, <1>3, <1>4, OutsideStep DEF Inside, Asking, Commands
<1>6. \A q \in Procs : q # p => ProcInv(q)' /\ Pursued(q)'
  BY <1>2, <1>3, OthersStand
<1>7. ProcInv(p)' /\ Pursued(p)'
  BY <1>2, OwnerAssumption DEF ProcInv, Pursued, Inside, Asking, Commands, Linking, Verbs
<1>8. PrepInv'
  BY DEF PluginInv, PrepInv
<1>9. RefreshInv'
  <2>1. AloneInv'
    BY <1>2, OwnerAssumption DEF PluginInv, RefreshInv, AloneInv, Others, Verbs, TypeOK
  <2> QED BY <1>6, <1>7, <2>1 DEF PluginInv, RefreshInv, Loaded
<1> QED BY <1>1, <1>5, <1>6, <1>7, <1>8, <1>9 DEF PluginInv

\* A process ends, or is killed; a lock that it held is free.
LEMMA EndStep ==
    ASSUME PluginInv, NEW p \in Procs, Rests(p), UNCHANGED <<host, private, ops>>,
           UNCHANGED shared \/ Completed(p),
           \A e \in Epochs : lock'[e] = IF lock[e] = p THEN None ELSE lock[e],
           TypeOK /\ procs' \in [Procs -> Proc] => TypeOK',
           disk'.current = disk.current, disk.pin # None => disk'.pin # None,
           PrepsStand, PrepInv', AloneInv'
    PROVE  PluginInv'
<1>1. procs'[p] = NoProc /\ Others(p) /\ procs' \in [Procs -> Proc]
  <2>1. NoProc \in Proc
    BY DEF NoProc, Proc
  <2> QED BY <2>1 DEF PluginInv, TypeOK, Others, Rests
<1>2. procs'[p].step = "idle" /\ procs'[p].op = None
  BY <1>1 DEF NoProc
<1>3. LockInv' /\ JournalInv' /\ CommandInv' /\ LateInv' /\ LoadInv'
  BY <1>1, <1>2, OutsideStep DEF Inside, Asking, Commands
<1>4. \A q \in Procs : q # p => ProcInv(q)' /\ Pursued(q)'
  BY <1>1, OthersStand
<1>5. ProcInv(p)' /\ Pursued(p)'
  BY <1>2, OwnerAssumption DEF ProcInv, Pursued, Ready, Inside, Asking, Commands, Linking
<1>6. RefreshInv'
  BY <1>4, <1>5 DEF PluginInv, RefreshInv, Loaded
<1> QED BY <1>1, <1>3, <1>4, <1>5, <1>6 DEF PluginInv

\* The same where no preparation changes.
LEMMA RestStep ==
    ASSUME PluginInv, NEW p \in Procs, Rests(p), UNCHANGED <<host, preps, private, ops>>,
           UNCHANGED shared \/ Completed(p),
           \A e \in Epochs : lock'[e] = IF lock[e] = p THEN None ELSE lock[e],
           TypeOK /\ procs' \in [Procs -> Proc] => TypeOK',
           disk'.current = disk.current, disk.pin # None => disk'.pin # None,
           left'.overlap = left.overlap
    PROVE  PluginInv'
<1>1. procs'[p] = NoProc /\ Others(p)
  BY DEF PluginInv, TypeOK, Others, Rests
<1>2. PrepsStand /\ PrepInv'
  BY DEF PrepsStand, PluginInv, PrepInv
<1>3. AloneInv'
  BY <1>1, OwnerAssumption DEF PluginInv, RefreshInv, AloneInv, Others, NoProc
<1> QED BY <1>2, <1>3, EndStep

\* A process goes from one step of a refresh before its operation to the next.
LEMMA RefreshMoves ==
    ASSUME PluginInv, NEW p \in Procs, Others(p), UNCHANGED <<host, preps, shared, private, lock, ops>>, TypeOK',
           procs[p].step \notin Inside, procs'[p].step \in {"check", "copy", "stage"},
           procs'[p].op = "refresh", procs'[p].step # "check" => procs'[p].build \in Builds,
           disk'.current = disk.current, disk'.pin = disk.pin,
           ~left'.overlap => ~left.overlap /\ (procs[p].op = "refresh" \/ \A q \in Procs : procs[q].op # "refresh")
    PROVE  PluginInv'
<1>1. PrepsStand
  BY DEF PrepsStand
<1>2. \A e \in Epochs : lock[e] # p
  BY OwnerAssumption DEF PluginInv, LockInv, TypeOK
<1>3. LockInv' /\ JournalInv' /\ CommandInv' /\ LateInv' /\ LoadInv'
  BY <1>1, <1>2, OutsideStep DEF Inside, Asking, Commands
<1>4. \A q \in Procs : q # p => ProcInv(q)' /\ Pursued(q)'
  BY <1>1, OthersStand
<1>5. ProcInv(p)' /\ Pursued(p)'
  BY OwnerAssumption DEF ProcInv, Pursued, Ready, Inside, Asking, Commands, Linking
<1>6. PrepInv'
  BY DEF PluginInv, PrepInv
<1>7. RefreshInv'
  <2>1. AloneInv'
    BY OwnerAssumption DEF PluginInv, RefreshInv, AloneInv, Others, Ready, Inside, Asking, Commands
  <2> QED BY <1>4, <1>5, <2>1 DEF PluginInv, RefreshInv, Loaded
<1> QED BY <1>3, <1>4, <1>5, <1>6, <1>7 DEF PluginInv

\* A refresh starts.
LEMMA RefreshStep ==
    ASSUME PluginInv, NEW p \in Procs, NEW b \in left.builds \cup {None}, Refresh(p, b)
    PROVE  PluginInv'
<1> USE DEF Refresh
<1> DEFINE pr == [NoProc EXCEPT !.op = "refresh", !.step = "check", !.build = b, !.supplied = b # None]
<1>1. pr \in Proc /\ pr.op = "refresh" /\ pr.step = "check"
  <2>1. b \in Builds \cup {None} /\ (b # None) \in BOOLEAN
    BY DEF PluginInv, TypeOK, Left
  <2> QED BY <2>1 DEF NoProc, Proc
<1>2. procs'[p] = pr /\ Others(p) /\ procs' \in [Procs -> Proc]
  BY <1>1 DEF PluginInv, TypeOK, Others
<1> DEFINE over == left.overlap \/ \E q \in Procs : procs[q].op = "refresh"
           count == left.refreshes - 1
<1>a. left \in Left /\ left' = [left EXCEPT !.refreshes = count, !.overlap = over]
  BY DEF PluginInv, TypeOK
<1>b. over \in BOOLEAN
  BY ZenonT(30)
<1>c. count \in Nat
  BY <1>a DEF Left
<1>3. ~left'.overlap => ~left.overlap /\ \A q \in Procs : procs[q].op # "refresh"
  <2>1. left'.overlap = over
    BY <1>a DEF Left
  <2> QED BY <2>1
<1>4. left' \in Left
  <2> HIDE DEF over, count
  <2> QED BY <1>a, <1>b, <1>c DEF Left
<1>5. TypeOK'
  BY <1>2, <1>4 DEF PluginInv, TypeOK
<1> HIDE DEF pr
<1> QED BY <1>1, <1>2, <1>3, <1>5, RefreshMoves DEF Inside, Asking, Commands

\* Its look at the compositor and at its build.
LEMMA ChecksStep ==
    ASSUME PluginInv, NEW p \in Procs, Checks(p)
    PROVE  PluginInv'
<1> USE DEF Checks
<1> DEFINE b == IF procs[p].supplied THEN procs[p].build ELSE disk.pin
<1>1. procs[p].step \notin Inside /\ procs[p].op = "refresh"
  BY DEF PluginInv, ProcInv, Inside, Asking, Commands
<1>2. \A e \in Epochs : lock[e] # p
  BY <1>1, OwnerAssumption DEF PluginInv, LockInv, TypeOK
<1>3. CASE Rests(p)
  BY <1>2, <1>3, RestStep DEF TypeOK
<1>4. CASE b \in Builds /\ procs' = [procs EXCEPT ![p].step = "copy", ![p].build = b]
  <2>0. procs[p] \in Proc
    BY DEF PluginInv, TypeOK
  <2>1. [procs[p] EXCEPT !.step = "copy", !.build = b] \in Proc
    <3> HIDE DEF b
    <3> QED BY <1>4, <2>0 DEF Proc
  <2>2. procs'[p] = [procs[p] EXCEPT !.step = "copy", !.build = b] /\ Others(p) /\ procs' \in [Procs -> Proc]
    BY <1>4, <2>1 DEF PluginInv, TypeOK, Others
  <2>3. procs'[p].step = "copy" /\ procs'[p].build = b /\ procs'[p].op = "refresh"
    BY <1>1, <2>2 DEF PluginInv, TypeOK, Proc
  <2>4. TypeOK'
    BY <2>2 DEF PluginInv, TypeOK
  <2> QED BY <1>1, <1>4, <2>2, <2>3, <2>4, RefreshMoves
<1> QED BY <1>3, <1>4

\* The durable copy of the build.
LEMMA CopiesStep ==
    ASSUME PluginInv, NEW p \in Procs, Copies(p)
    PROVE  PluginInv'
<1> USE DEF Copies
<1>1. procs[p].step \notin Inside /\ procs[p].op = "refresh" /\ procs[p].build \in Builds
  BY DEF PluginInv, ProcInv, Inside, Asking, Commands
<1>2. \A e \in Epochs : lock[e] # p
  BY <1>1, OwnerAssumption DEF PluginInv, LockInv, TypeOK
<1>3. CASE Rests(p) /\ UNCHANGED disk
  BY <1>2, <1>3, RestStep DEF TypeOK
<1>4. CASE disk' = [disk EXCEPT !.copy = procs[p].build] /\ Goes(p, "stage")
  <2>1. [procs[p] EXCEPT !.step = "stage"] \in Proc
    BY DEF PluginInv, TypeOK, Proc
  <2>2. procs'[p] = [procs[p] EXCEPT !.step = "stage"] /\ Others(p) /\ procs' \in [Procs -> Proc]
    BY <1>4, <2>1 DEF PluginInv, TypeOK, Others, Goes
  <2>3. procs'[p].step = "stage" /\ procs'[p].build \in Builds /\ procs'[p].op = "refresh"
    BY <1>1, <2>2 DEF PluginInv, TypeOK, Proc
  <2>4. TypeOK' /\ disk'.current = disk.current /\ disk'.pin = disk.pin
    BY <1>1, <1>4, <2>2 DEF PluginInv, TypeOK
  <2> QED BY <1>1, <1>4, <2>2, <2>3, <2>4, RefreshMoves
<1> QED BY <1>3, <1>4

\* A preparation gets its directory.
LEMMA StagesStep ==
    ASSUME PluginInv, NEW p \in Procs, Stages(p)
    PROVE  PluginInv'
<1>1. procs[p].step = "stage" /\ procs[p].step \notin Inside /\ procs[p].op = "refresh" /\ procs[p].build \in Builds
      /\ procs[p].step \notin Ready
  BY DEF Stages, PluginInv, ProcInv, Ready, Inside, Asking, Commands
<1>2. \A e \in Epochs : lock[e] # p
  BY <1>1, OwnerAssumption DEF PluginInv, LockInv, TypeOK
<1>3. PICK r \in Preps :
        /\ preps[r].state = "none"
        /\ preps' = [preps EXCEPT ![r] = [state |-> "partial", build |-> procs[p].build, epoch |-> host.epoch]]
        /\ IF Abi[procs[p].build] = host.abi /\ disk.copy = procs[p].build
           THEN procs' = [procs EXCEPT ![p].step = "publish", ![p].prep = r] ELSE Rests(p)
  BY DEF Stages
<1>4. UNCHANGED <<host, disk, shared, private, lock, ops, left>>
  BY DEF Stages
<1>5. [state |-> "partial", build |-> procs[p].build, epoch |-> host.epoch] \in Prep
  BY <1>1 DEF PluginInv, TypeOK, Host, Prep
<1>6. preps' \in [Preps -> Prep] /\ preps'[r].state = "partial" /\ preps'[r].build = procs[p].build
      /\ preps'[r].epoch = host.epoch /\ \A q \in Preps : q # r => preps'[q] = preps[q]
  BY <1>3, <1>5 DEF PluginInv, TypeOK
<1>7. PrepsStand
  BY <1>3, <1>6 DEF PrepsStand
<1>8. PrepInv'
  BY <1>4, <1>6 DEF PluginInv, PrepInv, TypeOK, Host, Epochs
<1>9. CASE Rests(p)
  <2>1. \A q \in Procs : procs'[q] = procs[q] \/ procs'[q] = NoProc
    BY <1>9 DEF PluginInv, TypeOK, Rests
  <2>2. AloneInv'
    <3>1. disk.current # None => disk.current \in Preps
      BY DEF PluginInv, TypeOK
    <3>2. \A q \in Procs : procs[q].step \in Ready => procs[q].prep \in Preps
      BY DEF PluginInv, ProcInv
    <3> QED BY <1>3, <1>4, <1>6, <2>1, <3>1, <3>2, OwnerAssumption DEF PluginInv, RefreshInv, AloneInv, NoProc
  <2> QED BY <1>2, <1>4, <1>6, <1>7, <1>8, <1>9, <2>2, EndStep DEF TypeOK
<1>10. CASE Abi[procs[p].build] = host.abi /\ procs' = [procs EXCEPT ![p].step = "publish", ![p].prep = r]
  <2>0. procs[p] \in Proc
    BY DEF PluginInv, TypeOK
  <2>1. [procs[p] EXCEPT !.step = "publish", !.prep = r] \in Proc
    BY <2>0 DEF Proc
  <2>2. procs'[p] = [procs[p] EXCEPT !.step = "publish", !.prep = r] /\ Others(p) /\ procs' \in [Procs -> Proc]
    BY <1>10, <2>1 DEF PluginInv, TypeOK, Others
  <2>3. procs'[p].step = "publish" /\ procs'[p].prep = r /\ procs'[p].op = "refresh" /\ procs'[p].build \in Builds
    BY <1>1, <2>0, <2>2 DEF Proc
  <2>4. TypeOK'
    BY <1>4, <1>6, <2>2 DEF PluginInv, TypeOK
  <2>5. LockInv' /\ JournalInv' /\ CommandInv' /\ LateInv' /\ LoadInv'
    BY <1>2, <1>4, <1>7, <2>2, <2>3, OutsideStep DEF Inside, Asking, Commands
  <2>6. \A q \in Procs : q # p => ProcInv(q)' /\ Pursued(q)'
    BY <1>4, <1>7, <2>2, OthersStand
  <2>7. ProcInv(p)' /\ Pursued(p)'
    BY <1>4, <1>6, <1>10, <2>3, OwnerAssumption DEF ProcInv, Pursued, Ready, Inside, Asking, Commands, Linking
  <2>8. AloneInv'
    <3>1. disk.current # None => disk.current \in Preps
      BY DEF PluginInv, TypeOK
    <3>2. \A q \in Procs : procs[q].step \in Ready => procs[q].prep \in Preps
      BY DEF PluginInv, ProcInv
    <3>3. procs'[p].step \notin Ready
      BY <2>3 DEF Ready, Inside, Asking, Commands
    <3>4. \A q \in Procs : procs'[q].op = procs[q].op /\ (q # p => procs'[q] = procs[q])
      BY <1>1, <2>2, <2>3 DEF Others
    <3> QED BY <1>3, <1>4, <1>6, <2>3, <3>1, <3>2, <3>3, <3>4 DEF PluginInv, RefreshInv, AloneInv
  <2> QED BY <1>4, <1>8, <2>4, <2>5, <2>6, <2>7, <2>8 DEF PluginInv, RefreshInv, Loaded
<1> QED BY <1>3, <1>9, <1>10

\* It is complete, for the instance that it was staged on.
LEMMA PreparedStep ==
    ASSUME PluginInv, NEW p \in Procs, Prepared(p)
    PROVE  PluginInv'
<1> DEFINE r == procs[p].prep
<1>1. procs[p].step = "publish" /\ procs[p].step \notin Inside /\ procs[p].op = "refresh" /\ procs[p].build \in Builds
      /\ r \in Preps
  BY DEF Prepared, PluginInv, ProcInv, Ready, Inside, Asking, Commands
<1>2. \A e \in Epochs : lock[e] # p
  BY <1>1, OwnerAssumption DEF PluginInv, LockInv, TypeOK
<1>3. UNCHANGED <<host, disk, shared, private, lock, ops, left>>
  BY DEF Prepared
<1>4. CASE Rests(p) /\ UNCHANGED preps
  BY <1>2, <1>3, <1>4, RestStep DEF TypeOK
<1>5. CASE /\ preps[r].state = "partial" /\ preps[r].epoch = host.epoch
           /\ preps' = [preps EXCEPT ![r].state = "published"] /\ Goes(p, "open")
  <2>0. procs[p] \in Proc /\ preps[r] \in Prep
    BY <1>1 DEF PluginInv, TypeOK
  <2>1. [procs[p] EXCEPT !.step = "open"] \in Proc /\ [preps[r] EXCEPT !.state = "published"] \in Prep
    BY <2>0 DEF Proc, Prep
  <2>2. procs'[p] = [procs[p] EXCEPT !.step = "open"] /\ Others(p) /\ procs' \in [Procs -> Proc]
    BY <1>5, <2>1 DEF PluginInv, TypeOK, Others, Goes
  <2>3. procs'[p].step = "open" /\ procs'[p].prep = r /\ procs'[p].op = "refresh" /\ procs'[p].build \in Builds
    BY <1>1, <2>0, <2>2 DEF Proc
  <2>4. preps'[r].state = "published" /\ preps'[r].epoch = preps[r].epoch /\ preps'[r].build = preps[r].build
        /\ preps' \in [Preps -> Prep] /\ \A q \in Preps : q # r => preps'[q] = preps[q]
    BY <1>1, <1>5, <2>0, <2>1 DEF PluginInv, TypeOK, Prep
  <2>5. TypeOK'
    BY <1>3, <2>2, <2>4 DEF PluginInv, TypeOK
  <2>6. PrepsStand
    BY <2>4 DEF PrepsStand
  <2>7. LockInv' /\ JournalInv' /\ CommandInv' /\ LateInv' /\ LoadInv'
    BY <1>2, <1>3, <2>6, <2>2, <2>3, OutsideStep DEF Inside, Asking, Commands
  <2>8. \A q \in Procs : q # p => ProcInv(q)' /\ Pursued(q)'
    BY <1>3, <2>6, <2>2, OthersStand
  <2>9. ProcInv(p)' /\ Pursued(p)'
    BY <1>1, <1>3, <2>3, <2>4, OwnerAssumption DEF ProcInv, Pursued, Ready, Inside, Asking, Commands, Linking
  <2>10. PrepInv'
    <3>1. Abi[preps[r].build] = host.abi /\ preps[r].epoch <= host.epoch
      BY <1>1, <1>5 DEF PluginInv, ProcInv, PrepInv
    <3> QED BY <1>3, <2>4, <3>1 DEF PluginInv, PrepInv
  <2>11. AloneInv'
    <3>1. disk.current # None => disk.current \in Preps
      BY DEF PluginInv, TypeOK
    <3>2. \A q \in Procs : procs[q].step \in Ready => procs[q].prep \in Preps
      BY DEF PluginInv, ProcInv
    <3>3. \A q \in Procs : procs'[q].op = procs[q].op /\ (q # p => procs'[q] = procs[q])
      BY <1>1, <2>2, <2>3 DEF Others
    <3> QED BY <1>3, <2>3, <2>4, <3>1, <3>2, <3>3 DEF PluginInv, RefreshInv, AloneInv
  <2> QED BY <1>3, <2>5, <2>7, <2>8, <2>9, <2>10, <2>11 DEF PluginInv, RefreshInv, Loaded
<1> QED BY <1>4, <1>5 DEF Prepared

\* The build is recorded.
LEMMA RecordsStep ==
    ASSUME PluginInv, NEW p \in Procs, Records(p)
    PROVE  PluginInv'
<1>1. procs[p].step = "record" /\ procs[p].step \notin Inside /\ procs[p].op = "refresh" /\ procs[p].build \in Builds
      /\ procs[p].prep \in Preps /\ preps[procs[p].prep].state \in {"published", "removed"} /\ Loaded(procs[p].prep)
      /\ procs[p].step \in Ready
  BY DEF Records, PluginInv, ProcInv, RefreshInv, Pursued, Linking, Ready, Inside, Asking, Commands
<1>2. \A e \in Epochs : lock[e] # p
  BY <1>1, OwnerAssumption DEF PluginInv, LockInv, TypeOK
<1>3. UNCHANGED <<host, preps, shared, private, lock, ops, left>>
  BY DEF Records
<1>4. disk' = [disk EXCEPT !.pin = procs[p].build] /\ Goes(p, "link")
  BY DEF Records
<1>5. procs[p] \in Proc
  BY DEF PluginInv, TypeOK
<1>6. [procs[p] EXCEPT !.step = "link"] \in Proc
  BY <1>5 DEF Proc
<1>7. procs'[p] = [procs[p] EXCEPT !.step = "link"] /\ Others(p) /\ procs' \in [Procs -> Proc]
  BY <1>4, <1>6 DEF PluginInv, TypeOK, Others, Goes
<1>8. procs'[p].step = "link" /\ procs'[p].prep = procs[p].prep /\ procs'[p].op = "refresh" /\ procs'[p].build \in Builds
  BY <1>1, <1>5, <1>7 DEF Proc
<1>9. TypeOK' /\ disk'.current = disk.current /\ disk'.pin # None
  BY <1>1, <1>3, <1>4, <1>7, OwnerAssumption DEF PluginInv, TypeOK
<1>10. PrepsStand
  BY <1>3 DEF PrepsStand
<1>11. LockInv' /\ JournalInv' /\ CommandInv' /\ LateInv' /\ LoadInv'
  BY <1>2, <1>3, <1>7, <1>8, <1>10, OutsideStep DEF Inside, Asking, Commands
<1>12. \A q \in Procs : q # p => ProcInv(q)' /\ Pursued(q)'
  BY <1>3, <1>7, <1>9, <1>10, OthersStand
<1>13. ProcInv(p)' /\ Pursued(p)'
  BY <1>1, <1>3, <1>8, <1>9, OwnerAssumption DEF ProcInv, Pursued, Ready, Inside, Asking, Commands, Linking, Loaded
<1>14. AloneInv'
  <2>1. \A q \in Procs : procs'[q].op = procs[q].op /\ procs'[q].prep = procs[q].prep /\ (q # p => procs'[q] = procs[q])
    BY <1>1, <1>7, <1>8 DEF Others
  <2> QED BY <1>1, <1>3, <1>8, <1>9, <2>1 DEF PluginInv, RefreshInv, AloneInv
<1> QED BY <1>3, <1>9, <1>11, <1>12, <1>13, <1>14 DEF PluginInv, RefreshInv, Loaded, PrepInv

\* `current' moves.
LEMMA LinksStep ==
    ASSUME PluginInv, NEW p \in Procs, Links(p)
    PROVE  PluginInv'
<1>1. procs[p].step = "link" /\ procs[p].step \notin Inside /\ procs[p].op = "refresh" /\ procs[p].build \in Builds
      /\ procs[p].prep \in Preps /\ preps[procs[p].prep].state \in {"published", "removed"} /\ Loaded(procs[p].prep)
      /\ procs[p].step \in Ready /\ disk.pin # None
  BY DEF Links, PluginInv, ProcInv, RefreshInv, Pursued, Linking, Ready, Inside, Asking, Commands
<1>2. \A e \in Epochs : lock[e] # p
  BY <1>1, OwnerAssumption DEF PluginInv, LockInv, TypeOK
<1>3. UNCHANGED <<host, preps, shared, private, lock, ops>> /\ left' \in Left /\ left'.overlap = left.overlap
  BY DEF Links, PluginInv, TypeOK, Left
<1>4. disk' = [disk EXCEPT !.current = procs[p].prep] /\ Goes(p, "prune")
  BY DEF Links
<1>5. procs[p] \in Proc
  BY DEF PluginInv, TypeOK
<1>6. [procs[p] EXCEPT !.step = "prune"] \in Proc
  BY <1>5 DEF Proc
<1>7. procs'[p] = [procs[p] EXCEPT !.step = "prune"] /\ Others(p) /\ procs' \in [Procs -> Proc]
  BY <1>4, <1>6 DEF PluginInv, TypeOK, Others, Goes
<1>8. procs'[p].step = "prune" /\ procs'[p].prep = procs[p].prep /\ procs'[p].op = "refresh" /\ procs'[p].build \in Builds
  BY <1>1, <1>5, <1>7 DEF Proc
<1>9. TypeOK' /\ disk'.current = procs[p].prep /\ disk'.pin # None
  BY <1>1, <1>3, <1>4, <1>7 DEF PluginInv, TypeOK
<1>10. PrepsStand
  BY <1>3 DEF PrepsStand
<1>11. LockInv' /\ JournalInv' /\ CommandInv' /\ LateInv' /\ LoadInv'
  BY <1>2, <1>3, <1>7, <1>8, <1>10, OutsideStep DEF Inside, Asking, Commands
<1>12. \A q \in Procs : q # p => ProcInv(q)' /\ Pursued(q)'
  BY <1>3, <1>7, <1>9, <1>10, OthersStand
<1>13. ProcInv(p)' /\ Pursued(p)'
  BY <1>1, <1>3, <1>8, <1>9, OwnerAssumption DEF ProcInv, Pursued, Ready, Inside, Asking, Commands, Linking, Loaded
<1>14. AloneInv'
  <2>1. \A q \in Procs : procs'[q].op = procs[q].op /\ procs'[q].prep = procs[q].prep /\ (q # p => procs'[q] = procs[q])
    BY <1>1, <1>7, <1>8 DEF Others
  <2>2. ASSUME NEW q \in Procs, procs'[q].step = "prune", ~left.overlap PROVE disk'.current = procs'[q].prep
    <3>1. procs'[q].op = "refresh"
      BY <1>8, <2>1, <2>2 DEF PluginInv, ProcInv
    <3>2. q = p
      BY <1>1, <2>1, <2>2, <3>1 DEF PluginInv, RefreshInv, AloneInv
    <3> QED BY <1>8, <1>9, <3>2
  <2> QED BY <1>1, <1>3, <1>8, <1>9, <2>1, <2>2 DEF PluginInv, RefreshInv, AloneInv
<1> QED BY <1>1, <1>3, <1>9, <1>11, <1>12, <1>13, <1>14 DEF PluginInv, RefreshInv, Loaded, PrepInv

\* Older preparations go.
LEMMA PrunesStep ==
    ASSUME PluginInv, NEW p \in Procs, Prunes(p)
    PROVE  PluginInv'
<1> DEFINE gone == Pruned(procs[p].prep)
<1>1. procs[p].step = "prune" /\ procs[p].op = "refresh"
  BY DEF Prunes, PluginInv, ProcInv
<1>2. \A e \in Epochs : lock[e] # p
  BY <1>1, OwnerAssumption DEF PluginInv, LockInv, TypeOK, Inside, Asking, Commands
<1>3. UNCHANGED <<host, disk, shared, private, lock, ops, left>> /\ Rests(p)
      /\ preps' = [r \in Preps |-> IF r \in gone THEN [preps[r] EXCEPT !.state = "removed"] ELSE preps[r]]
  BY DEF Prunes
<1>4. \A r \in gone : r # procs[p].prep /\ preps[r].state # "none"
  BY DEF Pruned
<1> HIDE DEF gone
<1>5. \A r \in Preps : preps'[r] \in Prep /\ preps'[r].epoch = preps[r].epoch /\ preps'[r].build = preps[r].build
        /\ preps'[r].state = IF r \in gone THEN "removed" ELSE preps[r].state
  BY <1>3 DEF PluginInv, TypeOK, Prep
<1>6. preps' \in [Preps -> Prep]
  BY <1>3, <1>5
<1>7. PrepsStand
  BY <1>4, <1>5 DEF PrepsStand
<1>8. PrepInv'
  BY <1>3, <1>4, <1>5 DEF PluginInv, PrepInv
<1>9. AloneInv'
  <2>1. procs' = [procs EXCEPT ![p] = NoProc] /\ \A q \in Procs : procs'[q] = IF q = p THEN NoProc ELSE procs[q]
    BY <1>3 DEF PluginInv, TypeOK, Rests
  <2>2. ASSUME ~left.overlap PROVE \A q \in Procs : procs'[q].op # "refresh"
    BY <1>1, <2>1, <2>2, OwnerAssumption DEF PluginInv, RefreshInv, AloneInv, NoProc
  <2>3. ASSUME ~left.overlap, disk.current # None PROVE preps'[disk.current].state = "published"
    <3>1. disk.current = procs[p].prep /\ preps[disk.current].state = "published" /\ disk.current \in Preps
      BY <1>1, <2>3 DEF PluginInv, RefreshInv, AloneInv, TypeOK
    <3> QED BY <1>4, <1>5, <3>1
  <2>4. ASSUME ~left.overlap PROVE \A q \in Procs : procs'[q].step # "prune"
    <3>1. \A q \in Procs : procs[q].step = "prune" => procs[q].op = "refresh"
      BY DEF PluginInv, ProcInv
    <3> QED BY <1>1, <2>1, <2>4, <3>1 DEF PluginInv, RefreshInv, AloneInv, NoProc
  <2> QED BY <1>3, <2>2, <2>3, <2>4 DEF AloneInv
<1> QED BY <1>2, <1>3, <1>6, <1>7, <1>8, <1>9, EndStep DEF TypeOK

\* A process dies.
LEMMA KilledStep ==
    ASSUME PluginInv, NEW p \in Procs, Killed(p)
    PROVE  PluginInv'
<1> USE DEF Killed
<1>1. disk'.current = disk.current /\ (disk.pin # None => disk'.pin # None)
      /\ disk' \in [current : Preps \cup {None}, pin : Builds \cup {None, "torn"}, copy : Builds \cup {None}]
  <2>1. disk' = disk \/ disk' = [disk EXCEPT !.pin = "torn"]
    OBVIOUS
  <2> QED BY <2>1, OwnerAssumption DEF PluginInv, TypeOK
<1>2. left' \in Left /\ left'.overlap = left.overlap
  <2>1. PICK cut : cut = (left.cut \/ procs[p].step = "link" \/ disk' # disk)
    OBVIOUS
  <2>2. PICK kills : kills = left.kills - 1
    OBVIOUS
  <2>3. left \in Left /\ left' = [left EXCEPT !.kills = kills, !.cut = cut]
    BY <2>1, <2>2 DEF PluginInv, TypeOK
  <2>4. kills \in Nat
    BY <2>2, <2>3 DEF Left
  <2>5. cut \in BOOLEAN
    BY <2>1, Zenon
  <2> QED BY <2>3, <2>4, <2>5 DEF Left
<1>3. lock' \in [Epochs -> Procs \cup {None}]
  BY DEF PluginInv, TypeOK
<1> QED BY <1>1, <1>2, <1>3, RestStep DEF TypeOK

----------------------------------------------------------------------------
(* The journals                                                             *)

\* No two processes are inside of the same instance, or at the same operation.
LEMMA InsideAlone ==
    ASSUME PluginInv, NEW p \in Procs, procs[p].step \in Inside
    PROVE  /\ procs[p].prep \in Preps /\ preps[procs[p].prep].state # "none" /\ Home(p) \in Epochs
           /\ procs[p].id \in Ids /\ ops[procs[p].id].verb \in Verbs /\ lock[Home(p)] = p
           /\ \A q \in Procs : q # p /\ procs[q].step \in Inside =>
                 Home(q) # Home(p) /\ Home(q) \in Epochs /\ procs[q].id # procs[p].id
                 /\ procs[q].prep \in Preps /\ procs[q].id \in Ids
<1>1. \A q \in Procs : procs[q].step \in Inside =>
        /\ procs[q].prep \in Preps /\ preps[procs[q].prep].state # "none" /\ Home(q) \in Epochs
        /\ procs[q].id \in Ids /\ ops[procs[q].id].verb \in Verbs /\ lock[Home(q)] = q
  BY DEF PluginInv, ProcInv, Ready, Home, TypeOK, Prep
<1> QED BY <1>1 DEF PluginInv, LockInv

\* A process goes from one step inside of the journals to the next.
LEMMA InsideMoves ==
    ASSUME PluginInv, NEW p \in Procs, Others(p), UNCHANGED <<host, preps, disk, lock, left>>, TypeOK',
           procs[p].step \in Inside, procs'[p].step \in Inside \ AfterLook,
           procs'[p].prep = procs[p].prep, procs'[p].id = procs[p].id, procs'[p].op = procs[p].op,
           procs'[p].build = procs[p].build, procs'[p].sent = procs[p].sent, procs'[p].paused = procs[p].paused,
           \A id \in Ids : ops'[id].verb = ops[id].verb /\ (id # procs[p].id => ops'[id] = ops[id]),
           procs[p].step \in {"error", "finish"} => procs'[p].step \in {"error", "finish"},
           \/ ops'[procs[p].id] = ops[procs[p].id]
           \/ /\ procs[p].step # "success" \/ ops'[procs[p].id].outcome = "success"
              /\ procs[p].step = "success" \/ ops'[procs[p].id].outcome # "success"
              /\ procs[p].step \in {"success", "error"} /\ ops'[procs[p].id].sent = procs[p].sent
              /\ ops'[procs[p].id].paused = procs[p].paused,
           \A r \in Preps : private[r].begun \subseteq private'[r].begun,
           Pursued(p)', PrepInv', JournalInv'
    PROVE  PluginInv'
<1> USE DEF PluginInv
<1>1. \A q \in Procs : q # p => procs'[q] = procs[q]
  BY DEF Others
<1>2. PrepsStand
  BY DEF PrepsStand
<1>3. \A q \in Procs : q # p => ProcInv(q)' /\ Pursued(q)'
  <2>1. \A q \in Procs : q # p /\ procs[q].step \in Inside => ops'[procs[q].id] = ops[procs[q].id]
    BY InsideAlone
  <2> QED BY <1>2, <2>1, OthersStand
<1>4. ProcInv(p)'
  <2>1. procs'[p].step \in Ready /\ procs[p].step \in Ready /\ procs[p].step \notin {"check", "idle"}
        /\ procs'[p].step \notin {"check", "copy", "stage", "publish", "record", "link", "prune"}
        /\ procs'[p].step \notin {"readiness", "pause", "quiet", "unload", "resume", "resumed"}
    BY DEF Ready, Inside, Asking, Commands, AfterLook
  <2>2. Home(p)' = Home(p) /\ procs[p].id \in Ids
    BY InsideAlone DEF Home
  <2> QED BY <2>1, <2>2, InsideAlone DEF ProcInv
<1>5. \A q \in Procs : Home(q)' = Home(q) /\ procs'[q].id = procs[q].id
        /\ (procs'[q].step \in Inside => procs[q].step \in Inside)
  BY <1>1 DEF Home
<1>6. LockInv'
  <2>1. ASSUME NEW e \in Epochs, lock[e] # None PROVE procs'[lock[e]].step \in Inside /\ preps[procs'[lock[e]].prep].epoch = e
    <3>1. PICK q \in Procs : q = lock[e]
      BY <2>1 DEF TypeOK
    <3>2. procs[q].step \in Inside /\ Home(q) = e
      BY <2>1, <3>1 DEF LockInv
    <3> QED BY <1>1, <3>1, <3>2 DEF Home
  <2>2. \A q, r \in Procs : procs'[q].step \in Inside /\ procs'[r].step \in Inside /\ procs'[q].id = procs'[r].id => q = r
    BY <1>5 DEF LockInv
  <2> QED BY <2>1, <2>2 DEF LockInv, Home
<1>7. \A c \in Command : Announced(c) => Announced(c)'
  <2> SUFFICES ASSUME NEW c \in Command, Announced(c) PROVE Announced(c)'
    OBVIOUS
  <2>1. c.id \in Ids /\ c.prep \in Preps
    BY DEF Command
  <2>2. \A q \in Procs : procs'[q].step \in Inside /\ procs'[q].id = c.id => Noted(c.cmd, procs'[q].sent, procs'[q].paused)
    BY <1>1, <1>5 DEF Announced
  <2>3. CASE c.id = procs[p].id
    BY <2>1, <2>2, <2>3 DEF Announced
  <2>4. CASE c.id # procs[p].id
    BY <2>1, <2>2, <2>4 DEF Announced
  <2> QED BY <2>3, <2>4
<1>8. CommandInv'
  <2>1. \A i \in DOMAIN host.late : host.late[i] \in Command
    BY DEF TypeOK, Host
  <2>2. ASSUME NEW c \in host.ran PROVE Announced(c)'
    <3> DEFINE d == [cmd |-> c.cmd, id |-> c.id, prep |-> c.prep]
    <3>1. d \in Command /\ d.cmd = c.cmd /\ d.id = c.id /\ d.prep = c.prep
      BY DEF TypeOK, Host, Command
    <3> HIDE DEF d
    <3>2. Announced(d)
      BY <3>1 DEF CommandInv, Announced
    <3> QED BY <1>7, <3>1, <3>2 DEF Announced
  <2> QED BY <1>7, <2>1, <2>2 DEF CommandInv
<1>9. LateInv'
  <2>1. ASSUME host.late # <<>> PROVE Waits(host.late[1])'
    <3> DEFINE c == host.late[1]
    <3>1. Len(host.late) = 1 /\ Waits(c)
      BY <2>1 DEF LateInv
    <3>a. host.late \in Seq(Command)
      BY DEF TypeOK, Host
    <3>b. c \in Command
      BY <3>1, <3>a
    <3>2. c \in Command /\ c.id \in Ids
      BY <3>b DEF Command
    <3>3. ops'[c.id].outcome # "success"
      BY <3>1, <3>2 DEF Waits
    <3>4. \A q \in Procs : procs'[q].step \in Inside /\ procs'[q].id = c.id => procs'[q].step \in {"error", "finish"}
      <4> TAKE q \in Procs
      <4>1. CASE q = p
        BY <3>1, <4>1 DEF Waits
      <4>2. CASE q # p
        BY <1>1, <3>1, <4>2 DEF Waits
      <4> QED BY <4>1, <4>2
    <3> QED BY <3>1, <3>3, <3>4 DEF Waits
  <2>2. \A q \in Procs : procs'[q].step \in AfterLook \cup {"unload"} => procs'[q] = procs[q]
    BY <1>1 DEF AfterLook, Asking, Commands
  <2> QED BY <1>5, <2>1, <2>2 DEF LateInv
<1>10. LoadInv'
  BY DEF LoadInv, Loaded
<1>11. RefreshInv'
  <2>1. \A q \in Procs : procs'[q].op = procs[q].op /\ procs'[q].prep = procs[q].prep
          /\ (procs'[q].step \in Ready => procs[q].step \in Ready) /\ (procs'[q].step = "prune" => procs[q].step = "prune")
    BY <1>1 DEF Ready, Inside, Asking, Commands
  <2>2. AloneInv'
    BY <2>1 DEF RefreshInv, AloneInv
  <2> QED BY <1>3, <2>2 DEF RefreshInv, Loaded
<1> QED BY <1>3, <1>4, <1>6, <1>8, <1>9, <1>10, <1>11

\* PreparedPlugin and OwnerJournal.
LEMMA OpensStep ==
    ASSUME PluginInv, NEW p \in Procs, Opens(p)
    PROVE  PluginInv'
<1> DEFINE r == procs[p].prep
           e == preps[r].epoch
<1>1. procs[p].step = "open" /\ procs[p].step \notin Inside /\ r \in Preps /\ procs[p].step \in Ready
      /\ preps[r].state # "none" /\ preps[r].state \in {"published", "removed"}
      /\ procs[p] \in Proc /\ e \in Epochs /\ procs[p].op # None
      /\ (procs[p].op = "refresh" => procs[p].build \in Builds)
  BY DEF Opens, PluginInv, ProcInv, Ready, Inside, Asking, Commands, TypeOK, Prep
<1>2. \A d \in Epochs : lock[d] # p
  BY <1>1, OwnerAssumption DEF PluginInv, LockInv, TypeOK
<1>3. UNCHANGED <<host, preps, disk, shared, private, left>>
  BY DEF Opens
<1>4. CASE Rests(p) /\ UNCHANGED <<ops, lock>>
  BY <1>2, <1>3, <1>4, RestStep DEF TypeOK
<1>5. ASSUME Free(e), Finished(shared[e]), NEW id \in Ids, ops[id].verb = None,
             ops' = [ops EXCEPT ![id].verb = Verb(p)], lock' = [lock EXCEPT ![e] = p],
             procs' = [procs EXCEPT ![p].step = "begin", ![p].id = id]
      PROVE  PluginInv'
  <2>1. Verb(p) \in Verbs
    BY <1>1, OwnerAssumption DEF Verb, Proc, Verbs
  <2>2. [procs[p] EXCEPT !.step = "begin", !.id = id] \in Proc
    <3>1. "begin" \in Inside
      BY DEF Inside
    <3> QED BY <1>1, <3>1 DEF Proc
  <2>3. procs'[p] = [procs[p] EXCEPT !.step = "begin", !.id = id] /\ Others(p) /\ procs' \in [Procs -> Proc]
    BY <1>5, <2>2 DEF PluginInv, TypeOK, Others
  <2>4. procs'[p].step = "begin" /\ procs'[p].id = id /\ procs'[p].prep = r /\ procs'[p].op = procs[p].op
        /\ procs'[p].build = procs[p].build
    BY <1>1, <2>3 DEF Proc
  <2>5. ops[id] \in Op /\ [ops[id] EXCEPT !.verb = Verb(p)] \in Op
    BY <2>1 DEF PluginInv, TypeOK, Op
  <2>6. ops'[id] = [ops[id] EXCEPT !.verb = Verb(p)] /\ ops' \in [Ids -> Op] /\ \A i \in Ids : i # id => ops'[i] = ops[i]
    BY <1>5, <2>5 DEF PluginInv, TypeOK
  <2>7. ops'[id].verb \in Verbs /\ ops'[id].outcome = ops[id].outcome
    BY <2>1, <2>5, <2>6 DEF Op
  <2>8. lock' \in [Epochs -> Procs \cup {None}] /\ lock'[e] = p /\ \A d \in Epochs : d # e => lock'[d] = lock[d]
    BY <1>1, <1>5 DEF PluginInv, TypeOK
  <2>9. TypeOK'
    BY <1>3, <2>3, <2>6, <2>8 DEF PluginInv, TypeOK
  <2>10. \A q \in Procs : q # p => procs'[q] = procs[q]
    BY <2>3 DEF Others
  <2>11. /\ ops[id].outcome = None /\ (\A d \in Epochs : id \notin shared[d].begun)
         /\ (\A s \in Preps : id \notin private[s].begun)
    BY <1>5 DEF PluginInv, JournalInv
  <2>12. \A q \in Procs : procs[q].step \in Inside => procs[q].id \in Ids /\ procs[q].id # id /\ Home(q) # e
           /\ q # p /\ procs[q].prep \in Preps
    BY <1>1, <1>5, InsideAlone, OwnerAssumption DEF Free
  <2>13. Home(p)' = e /\ \A q \in Procs : q # p => Home(q)' = Home(q)
    BY <1>3, <2>4, <2>10 DEF Home
  <2>14. PrepsStand
    BY <1>3 DEF PrepsStand
  <2>15. \A q \in Procs : q # p => ProcInv(q)' /\ Pursued(q)'
    BY <1>3, <1>5, <2>3, <2>6, <2>8, <2>12, <2>14, OthersStand DEF Free
  <2>16. ProcInv(p)' /\ Pursued(p)'
    <3>1. "begin" \notin {"check", "copy", "stage", "publish", "record", "link", "prune", "idle", "success", "finish"} \cup Linking
      BY DEF Linking
    <3> QED BY <1>1, <1>3, <2>4, <2>7, <2>8, <2>13, <3>1 DEF ProcInv, Pursued
  <2>17. LockInv'
    <3>1. \A d \in Epochs : lock'[d] # None => procs'[lock'[d]].step \in Inside /\ preps'[procs'[lock'[d]].prep].epoch = d
      <4> SUFFICES ASSUME NEW d \in Epochs, lock'[d] # None
                   PROVE  procs'[lock'[d]].step \in Inside /\ preps'[procs'[lock'[d]].prep].epoch = d
        OBVIOUS
      <4>1. CASE d = e
        BY <1>3, <2>4, <2>8, <4>1 DEF Inside
      <4>2. CASE d # e
        <5>1. PICK q \in Procs : q = lock[d]
          BY <2>8, <4>2 DEF PluginInv, TypeOK
        <5>2. lock'[d] = q /\ q # p /\ procs[q].step \in Inside /\ Home(q) = d
          BY <1>2, <2>8, <4>2, <5>1 DEF PluginInv, LockInv
        <5> QED BY <1>3, <2>10, <5>2 DEF Home
      <4> QED BY <4>1, <4>2
    <3>2. \A q, s \in Procs : procs'[q].step \in Inside /\ procs'[s].step \in Inside /\ procs'[q].id = procs'[s].id => q = s
      BY <2>4, <2>10, <2>12 DEF PluginInv, LockInv
    <3> QED BY <3>1, <3>2 DEF LockInv, Home
  <2>18. JournalInv'
    <3>1. Stage(p)' /\ Says(p)'
      <4>1. Open(shared[e]) = {}
        BY <1>5 DEF Finished, Open
      <4> QED BY <1>3, <2>4, <2>7, <2>11, <2>13, <4>1 DEF Stage, Says, Asking, Commands
    <3>2. ASSUME NEW q \in Procs, q # p PROVE Stage(q)' /\ Says(q)'
      <4>1. CASE procs[q].step \notin Inside
        BY <2>10, <3>2, <4>1 DEF Stage, Says, Inside
      <4>2. CASE procs[q].step \in Inside
        <5>1. Stage(q) /\ Says(q)
          BY DEF PluginInv, JournalInv
        <5> QED BY <1>3, <2>6, <2>10, <2>12, <2>13, <3>2, <4>2, <5>1 DEF Stage, Says
      <4> QED BY <4>1, <4>2
    <3>3. \A i \in Ids : ops'[i].verb = None => ops[i].verb = None /\ ops'[i] = ops[i]
      BY <2>6, <2>7, OwnerAssumption DEF Verbs
    <3> QED BY <1>3, <3>1, <3>2, <3>3 DEF PluginInv, JournalInv
  <2>19. \A c : c.id \in Ids /\ c.prep \in Preps /\ Announced(c) => Announced(c)'
    <3> SUFFICES ASSUME NEW c, c.id \in Ids, c.prep \in Preps, Announced(c) PROVE Announced(c)'
      OBVIOUS
    <3>1. c.id # id
      BY <2>11 DEF Announced
    <3> QED BY <1>3, <2>4, <2>6, <2>10, <3>1 DEF Announced
  <2>20. CommandInv'
    <3>1. \A c \in host.ran : c.id \in Ids /\ c.prep \in Preps
      BY DEF PluginInv, TypeOK, Host
    <3>2. \A i \in DOMAIN host.late : host.late[i] \in Command
      BY DEF PluginInv, TypeOK, Host
    <3>3. \A i \in DOMAIN host.late : host.late[i].id \in Ids /\ host.late[i].prep \in Preps
      BY <3>2 DEF Command
    <3>4. (\A c \in host.ran : Announced(c)) /\ \A i \in DOMAIN host.late : Announced(host.late[i])
      BY DEF PluginInv, CommandInv
    <3>5. \A c \in host.ran : Announced(c)'
      BY <2>19, <3>1, <3>4
    <3>6. ASSUME NEW i \in DOMAIN host.late, NEW c, c = host.late[i] PROVE Announced(c)'
      BY <2>19, <3>3, <3>4, <3>6
    <3> QED BY <1>3, <3>5, <3>6 DEF CommandInv, Announced
  <2>21. LateInv'
    <3>1. ASSUME host.late # <<>> PROVE Waits(host.late[1])'
      <4> DEFINE c == host.late[1]
      <4>1. Len(host.late) = 1 /\ Waits(c)
        BY <3>1 DEF PluginInv, LateInv
      <4>2. host.late \in Seq(Command)
        BY DEF PluginInv, TypeOK, Host
      <4>3. c \in Command /\ 1 \in DOMAIN host.late
        BY <4>1, <4>2
      <4>4. c.id \in Ids /\ c.prep \in Preps /\ Announced(c)
        BY <4>3 DEF Command, PluginInv, CommandInv
      <4>5. c.id # id
        BY <2>11, <4>4 DEF Announced
      <4> QED BY <1>3, <2>4, <2>6, <2>10, <4>1, <4>4, <4>5 DEF Waits
    <3>2. procs'[p].step \notin AfterLook \cup {"unload"}
      BY <2>4 DEF AfterLook, Asking, Commands
    <3> QED BY <1>3, <2>10, <2>13, <3>1, <3>2 DEF PluginInv, LateInv
  <2>22. LoadInv' /\ PrepInv'
    BY <1>3 DEF PluginInv, LoadInv, Loaded, PrepInv
  <2>23. RefreshInv'
    <3>1. procs'[p].step \in Ready /\ procs'[p].step # "prune"
      BY <2>4 DEF Ready, Inside
    <3>2. AloneInv'
      BY <1>1, <1>3, <2>4, <2>10, <3>1 DEF PluginInv, RefreshInv, AloneInv
    <3> QED BY <1>3, <2>15, <2>16, <3>2 DEF PluginInv, RefreshInv, Loaded
  <2> QED BY <2>9, <2>15, <2>16, <2>17, <2>18, <2>20, <2>21, <2>22, <2>23 DEF PluginInv
<1> QED BY <1>4, <1>5 DEF Opens

\* The global intent.
LEMMA BeginsSharedStep ==
    ASSUME PluginInv, NEW p \in Procs, BeginsShared(p)
    PROVE  PluginInv'
<1> DEFINE r == procs[p].prep
           e == preps[r].epoch
           id == procs[p].id
<1>1. procs[p].step = "begin" /\ procs[p].step \in Inside /\ procs[p] \in Proc
      /\ shared' = [shared EXCEPT ![e].begun = @ \cup {id}] /\ Goes(p, "intent")
      /\ UNCHANGED <<host, preps, disk, private, lock, ops, left>>
  BY DEF BeginsShared, Inside, PluginInv, TypeOK
<1>2. r \in Preps /\ e \in Epochs /\ id \in Ids /\ Home(p) = e /\ lock[e] = p
      /\ ops[id].verb # None
      /\ \A q \in Procs : q # p /\ procs[q].step \in Inside => Home(q) # e /\ procs[q].id # id
  BY <1>1, InsideAlone, OwnerAssumption DEF Home
<1>3. [procs[p] EXCEPT !.step = "intent"] \in Proc
  BY <1>1 DEF Proc, Inside
<1>4. procs'[p] = [procs[p] EXCEPT !.step = "intent"] /\ Others(p) /\ procs' \in [Procs -> Proc]
  BY <1>1, <1>3 DEF PluginInv, TypeOK, Others, Goes
<1>5. procs'[p].step = "intent" /\ procs'[p].prep = r /\ procs'[p].id = id /\ procs'[p].op = procs[p].op
      /\ procs'[p].build = procs[p].build /\ procs'[p].sent = procs[p].sent /\ procs'[p].paused = procs[p].paused
  BY <1>1, <1>4 DEF Proc
<1>6. shared[e] \in Journal /\ \A d \in Epochs : shared[d] \in Journal
  BY <1>2 DEF PluginInv, TypeOK
<1>7. shared'[e].begun = shared[e].begun \cup {id} /\ shared'[e].done = shared[e].done
      /\ (\A d \in Epochs : d # e => shared'[d] = shared[d]) /\ shared' \in [Epochs -> Journal]
  BY <1>1, <1>2, <1>6 DEF PluginInv, TypeOK, Journal
<1>8. TypeOK'
  BY <1>1, <1>4, <1>7 DEF PluginInv, TypeOK
<1>9. Stage(p) /\ Says(p)
  BY DEF PluginInv, JournalInv
<1>10. Open(shared[e]) = {} /\ (\A d \in Epochs : id \notin shared[d].begun) /\ (\A s \in Preps : id \notin private[s].begun)
  BY <1>1, <1>2, <1>9 DEF Stage, Asking, Commands
<1>11. shared[e].done \subseteq shared[e].begun
  BY <1>2, SMTT(30) DEF PluginInv, JournalInv
<1>12. Open(shared'[e]) = {id}
  BY <1>2, <1>7, <1>10, <1>11 DEF Open
<1>13. \A q \in Procs : q # p => procs'[q] = procs[q]
  BY <1>4 DEF Others
<1>14. \A q \in Procs : Home(q)' = Home(q)
  BY <1>1, <1>5, <1>13, SMTT(30) DEF Home
<1>15. JournalInv'
  <2>1. Stage(p)' /\ Says(p)'
    BY <1>1, <1>2, <1>5, <1>9, <1>10, <1>12, <1>14 DEF Stage, Says, Asking, Commands, Inside
  <2>2. ASSUME NEW q \in Procs, q # p PROVE Stage(q)' /\ Says(q)'
    <3>1. Stage(q) /\ Says(q) /\ Home(q)' = Home(q) /\ procs'[q] = procs[q]
      BY <1>13, <1>14, <2>2 DEF PluginInv, JournalInv
    <3>2. CASE procs[q].step \notin Inside
      BY <3>1, <3>2, SMTT(30) DEF Stage, Says, Inside
    <3>3. CASE procs[q].step \in Inside
      <4>1. Home(q) # e /\ procs[q].id # id /\ Home(q) \in Epochs
        BY <1>2, <2>2, <3>3, InsideAlone
      <4>2. shared'[Home(q)] = shared[Home(q)] /\ \A d \in Epochs : procs[q].id \in shared'[d].begun => procs[q].id \in shared[d].begun
        BY <1>7, <4>1, SMTT(30)
      <4> QED BY <1>1, <3>1, <3>3, <4>2 DEF Stage, Says
    <3> QED BY <3>2, <3>3
  <2>3. \A d \in Epochs : shared'[d].done \subseteq shared'[d].begun /\ \A i, j \in Open(shared'[d]) : i = j
    <3>1. \A d \in Epochs : d # e => shared'[d].done \subseteq shared'[d].begun /\ \A i, j \in Open(shared'[d]) : i = j
      BY <1>7 DEF PluginInv, JournalInv
    <3> QED BY <1>7, <1>11, <1>12, <3>1
  <2>4. \A s \in Preps : /\ private[s].done \subseteq private[s].begun
                         /\ private[s].begun \subseteq shared'[preps[s].epoch].begun
                         /\ shared'[preps[s].epoch].done \cap private[s].begun \subseteq private[s].done
    <3> TAKE s \in Preps
    <3>1. preps[s].epoch \in Epochs
      BY DEF PluginInv, TypeOK, Prep
    <3>2. shared[preps[s].epoch].begun \subseteq shared'[preps[s].epoch].begun /\ shared'[preps[s].epoch].done = shared[preps[s].epoch].done
      BY <1>7, <3>1
    <3> QED BY <3>2 DEF PluginInv, JournalInv
  <2>5. \A i \in Ids : ops[i].verb = None =>
          /\ ops[i].outcome = None
          /\ \A d \in Epochs : i \notin shared'[d].begun
          /\ \A s \in Preps : i \notin private[s].begun
    BY <1>2, <1>7 DEF PluginInv, JournalInv
  <2> QED BY <1>1, <2>1, <2>2, <2>3, <2>4, <2>5, ZenonT(30) DEF JournalInv
<1>16. PrepInv'
  BY <1>1 DEF PluginInv, PrepInv
<1>17. Pursued(p)'
  BY <1>5 DEF Pursued, Linking
<1>18. procs'[p].step \in Inside \ AfterLook
  BY <1>5 DEF Inside, AfterLook, Asking, Commands
<1> QED BY <1>1, <1>4, <1>5, <1>8, <1>15, <1>16, <1>17, <1>18, InsideMoves

\* The private intent.
LEMMA BeginsPrivateStep ==
    ASSUME PluginInv, NEW p \in Procs, BeginsPrivate(p)
    PROVE  PluginInv'
<1> DEFINE r == procs[p].prep
           e == preps[r].epoch
           id == procs[p].id
<1>1. procs[p].step = "intent" /\ procs[p].step \in Inside /\ procs[p] \in Proc
      /\ private' = [private EXCEPT ![r].begun = @ \cup {id}] /\ Goes(p, "status")
      /\ UNCHANGED <<host, preps, disk, shared, lock, ops, left>>
  BY DEF BeginsPrivate, Inside, PluginInv, TypeOK
<1>2. r \in Preps /\ e \in Epochs /\ id \in Ids /\ Home(p) = e /\ lock[e] = p /\ preps[r].state # "none"
      /\ ops[id].verb # None
      /\ \A q \in Procs : q # p /\ procs[q].step \in Inside => Home(q) # e /\ procs[q].id # id
  BY <1>1, InsideAlone, OwnerAssumption DEF Home
<1>3. [procs[p] EXCEPT !.step = "status"] \in Proc
  BY <1>1 DEF Proc, Inside, Asking
<1>4. procs'[p] = [procs[p] EXCEPT !.step = "status"] /\ Others(p) /\ procs' \in [Procs -> Proc]
  BY <1>1, <1>3 DEF PluginInv, TypeOK, Others, Goes
<1>5. procs'[p].step = "status" /\ procs'[p].prep = r /\ procs'[p].id = id /\ procs'[p].op = procs[p].op
      /\ procs'[p].build = procs[p].build /\ procs'[p].sent = procs[p].sent /\ procs'[p].paused = procs[p].paused
  BY <1>1, <1>4 DEF Proc
<1>6. private[r] \in Journal
  BY <1>2 DEF PluginInv, TypeOK
<1>7. private'[r].begun = private[r].begun \cup {id} /\ private'[r].done = private[r].done
      /\ (\A s \in Preps : s # r => private'[s] = private[s]) /\ private' \in [Preps -> Journal]
  BY <1>1, <1>2, <1>6 DEF PluginInv, TypeOK, Journal
<1>8. TypeOK'
  BY <1>1, <1>4, <1>7 DEF PluginInv, TypeOK
<1>9. Stage(p) /\ Says(p)
  BY DEF PluginInv, JournalInv
<1>10. Open(shared[e]) = {id} /\ (\A s \in Preps : id \notin private[s].begun)
  BY <1>1, <1>2, <1>9 DEF Stage, Asking, Commands
<1>11. \A s \in Preps : private[s].done \subseteq private[s].begun
         /\ private[s].begun \subseteq shared[preps[s].epoch].begun
         /\ shared[preps[s].epoch].done \cap private[s].begun \subseteq private[s].done
  BY DEF PluginInv, JournalInv
<1>12. id \notin private'[r].done /\ id \in private'[r].begun /\ \A s \in Preps : id \in private'[s].begun => s = r
  BY <1>2, <1>7, <1>10, <1>11
<1>13. \A q \in Procs : q # p => procs'[q] = procs[q]
  BY <1>4 DEF Others
<1>14. \A q \in Procs : Home(q)' = Home(q)
  BY <1>1, <1>5, <1>13 DEF Home
<1>15. JournalInv'
  <2>1. Stage(p)' /\ Says(p)'
    BY <1>1, <1>2, <1>5, <1>9, <1>10, <1>12, <1>14 DEF Stage, Says, Asking, Commands, Inside, Open
  <2>2. ASSUME NEW q \in Procs, q # p PROVE Stage(q)' /\ Says(q)'
    <3>1. Stage(q) /\ Says(q) /\ Home(q)' = Home(q) /\ procs'[q] = procs[q]
      BY <1>13, <1>14, <2>2 DEF PluginInv, JournalInv
    <3>2. CASE procs[q].step \notin Inside
      BY <3>1, <3>2, SMTT(30) DEF Stage, Says, Inside
    <3>3. CASE procs[q].step \in Inside
      <4>1. procs[q].id # id /\ procs[q].prep \in Preps
        BY <1>2, <2>2, <3>3, InsideAlone
      <4>2. \A s \in Preps : (procs[q].id \in private'[s].begun <=> procs[q].id \in private[s].begun)
              /\ private'[s].done = private[s].done
        BY <1>7, <4>1
      <4> QED BY <1>1, <3>1, <3>3, <4>1, <4>2 DEF Stage, Says, Open
    <3> QED BY <3>2, <3>3
  <2>3. \A d \in Epochs : shared[d].done \subseteq shared[d].begun /\ \A i, j \in Open(shared[d]) : i = j
    BY DEF PluginInv, JournalInv
  <2>4. \A s \in Preps : /\ private'[s].done \subseteq private'[s].begun
                         /\ private'[s].begun \subseteq shared[preps[s].epoch].begun
                         /\ shared[preps[s].epoch].done \cap private'[s].begun \subseteq private'[s].done
    <3> TAKE s \in Preps
    <3>1. CASE s # r
      BY <1>7, <1>11, <3>1, SMTT(30)
    <3>2. CASE s = r
      <4>1. id \in shared[e].begun /\ id \notin shared[e].done
        BY <1>10 DEF Open
      <4> QED BY <1>2, <1>7, <1>11, <3>2, <4>1
    <3> QED BY <3>1, <3>2
  <2>5. \A i \in Ids : ops[i].verb = None =>
          /\ ops[i].outcome = None
          /\ \A d \in Epochs : i \notin shared[d].begun
          /\ \A s \in Preps : i \notin private'[s].begun
    BY <1>2, <1>7 DEF PluginInv, JournalInv
  <2> QED BY <1>1, <2>1, <2>2, <2>3, <2>4, <2>5, ZenonT(30) DEF JournalInv
<1>16. PrepInv'
  BY <1>1, <1>2, <1>7 DEF PluginInv, PrepInv
<1>17. Pursued(p)'
  BY <1>5 DEF Pursued, Linking
<1>18. procs'[p].step \in Inside \ AfterLook
  BY <1>5 DEF Inside, AfterLook, Asking, Commands
<1>19. \A s \in Preps : private[s].begun \subseteq private'[s].begun
  BY <1>7
<1> QED BY <1>1, <1>4, <1>5, <1>8, <1>15, <1>16, <1>17, <1>18, <1>19, InsideMoves

\* The private outcome, unless the preparation is gone.
LEMMA FinishesPrivateStep ==
    ASSUME PluginInv, NEW p \in Procs, FinishesPrivate(p)
    PROVE  PluginInv'
<1> DEFINE r == procs[p].prep
           e == preps[r].epoch
           id == procs[p].id
<1>1. procs[p].step \in {"success", "error"} /\ procs[p].step \in Inside /\ procs[p] \in Proc
      /\ UNCHANGED <<host, preps, disk, shared, left>>
  BY DEF FinishesPrivate, Inside, PluginInv, TypeOK
<1>2. r \in Preps /\ e \in Epochs /\ id \in Ids /\ Home(p) = e /\ lock[e] = p /\ preps[r].state # "none"
      /\ ops[id].verb # None
      /\ \A q \in Procs : q # p /\ procs[q].step \in Inside => Home(q) # e /\ procs[q].id # id
  BY <1>1, InsideAlone, OwnerAssumption DEF Home
<1>3. CASE lock' = [lock EXCEPT ![e] = None] /\ Rests(p) /\ UNCHANGED <<private, ops>>
  <2>1. \A d \in Epochs : lock[d] = p => d = e
    BY <1>1, <1>2, OwnerAssumption DEF PluginInv, LockInv
  <2>2. \A d \in Epochs : lock'[d] = IF lock[d] = p THEN None ELSE lock[d]
    BY <1>2, <1>3, <2>1 DEF PluginInv, TypeOK
  <2> QED BY <1>1, <1>3, <2>2, RestStep DEF TypeOK
<1>4. CASE /\ private' = [private EXCEPT ![r].done = @ \cup {id}]
           /\ ops' = [ops EXCEPT ![id] = [@ EXCEPT !.outcome = procs[p].step, !.sent = procs[p].sent, !.paused = procs[p].paused]]
           /\ Goes(p, "finish") /\ UNCHANGED lock
  <2>1. [procs[p] EXCEPT !.step = "finish"] \in Proc
    BY <1>1 DEF Proc, Inside
  <2>2. procs'[p] = [procs[p] EXCEPT !.step = "finish"] /\ Others(p) /\ procs' \in [Procs -> Proc]
    BY <1>4, <2>1 DEF PluginInv, TypeOK, Others, Goes
  <2>3. procs'[p].step = "finish" /\ procs'[p].prep = r /\ procs'[p].id = id /\ procs'[p].op = procs[p].op
        /\ procs'[p].build = procs[p].build /\ procs'[p].sent = procs[p].sent /\ procs'[p].paused = procs[p].paused
    BY <1>1, <2>2 DEF Proc
  <2>4. private[r] \in Journal /\ ops[id] \in Op
    BY <1>2 DEF PluginInv, TypeOK
  <2>5. private'[r].done = private[r].done \cup {id} /\ private'[r].begun = private[r].begun
        /\ (\A s \in Preps : s # r => private'[s] = private[s]) /\ private' \in [Preps -> Journal]
    BY <1>2, <1>4, <2>4 DEF PluginInv, TypeOK, Journal
  <2>6. procs[p].sent \in BOOLEAN /\ procs[p].paused \in BOOLEAN
    BY <1>1 DEF Proc
  <2>7. ops'[id] = [ops[id] EXCEPT !.outcome = procs[p].step, !.sent = procs[p].sent, !.paused = procs[p].paused]
        /\ \A i \in Ids : i # id => ops'[i] = ops[i]
    BY <1>2, <1>4, <2>4 DEF PluginInv, TypeOK
  <2>8. ops'[id] \in Op /\ ops'[id].verb = ops[id].verb /\ ops'[id].outcome = procs[p].step
        /\ ops'[id].sent = procs[p].sent /\ ops'[id].paused = procs[p].paused
    BY <1>1, <2>4, <2>6, <2>7 DEF Op
  <2>9. ops' \in [Ids -> Op]
    BY <1>2, <1>4, <2>7, <2>8 DEF PluginInv, TypeOK
  <2>10. TypeOK'
    BY <1>1, <1>4, <2>2, <2>5, <2>9 DEF PluginInv, TypeOK
  <2>11. Stage(p) /\ Says(p)
    BY DEF PluginInv, JournalInv
  <2>12. Open(shared[e]) = {id} /\ id \in private[r].begun /\ (\A s \in Preps : id \in private[s].begun => s = r)
    BY <1>1, <1>2, <2>11 DEF Stage, Asking, Commands, Open
  <2>13. \A s \in Preps : private[s].done \subseteq private[s].begun
           /\ private[s].begun \subseteq shared[preps[s].epoch].begun
           /\ shared[preps[s].epoch].done \cap private[s].begun \subseteq private[s].done
    BY DEF PluginInv, JournalInv
  <2>14. \A q \in Procs : q # p => procs'[q] = procs[q]
    BY <2>2 DEF Others
  <2>15. \A q \in Procs : Home(q)' = Home(q)
    BY <1>1, <2>3, <2>14 DEF Home
  <2>16. \A s \in Preps : private'[s].begun = private[s].begun /\ private[s].done \subseteq private'[s].done
    BY <2>5
  <2>17. JournalInv'
    <3>1. Stage(p)' /\ Says(p)'
      <4>1. Says(p)'
        BY <1>1, <2>3, <2>8 DEF Says
      <4>2. Open(shared[e]) = {id} /\ id \in private'[r].done /\ (\A s \in Preps : id \in private'[s].begun => s = r)
        BY <2>5, <2>12, <2>16
      <4>3. Home(p)' = e /\ shared' = shared
        BY <1>1, <1>2, <2>15
      <4>4. Stage(p)'
        BY <2>3, <4>2, <4>3 DEF Stage, Asking, Commands
      <4> QED BY <4>1, <4>4
    <3>2. ASSUME NEW q \in Procs, q # p PROVE Stage(q)' /\ Says(q)'
      <4>1. Stage(q) /\ Says(q) /\ Home(q)' = Home(q) /\ procs'[q] = procs[q]
        BY <2>14, <2>15, <3>2 DEF PluginInv, JournalInv
      <4>2. CASE procs[q].step \notin Inside
        BY <4>1, <4>2 DEF Stage, Says, Inside
      <4>3. CASE procs[q].step \in Inside
        <5>1. procs[q].id # id /\ procs[q].prep \in Preps /\ procs[q].id \in Ids
          BY <1>2, <3>2, <4>3, InsideAlone
        <5>2. \A s \in Preps : private'[s].begun = private[s].begun /\ (procs[q].id \in private'[s].done <=> procs[q].id \in private[s].done)
          BY <2>5, <5>1
        <5>3. ops'[procs[q].id] = ops[procs[q].id]
          BY <2>7, <5>1
        <5> QED BY <1>1, <4>1, <4>3, <5>1, <5>2, <5>3 DEF Stage, Says, Open
      <4> QED BY <4>2, <4>3
    <3>3. \A d \in Epochs : shared[d].done \subseteq shared[d].begun /\ \A i, j \in Open(shared[d]) : i = j
      BY DEF PluginInv, JournalInv
    <3>4. \A s \in Preps : /\ private'[s].done \subseteq private'[s].begun
                           /\ private'[s].begun \subseteq shared[preps[s].epoch].begun
                           /\ shared[preps[s].epoch].done \cap private'[s].begun \subseteq private'[s].done
      BY <2>5, <2>12, <2>13
    <3>5. \A i \in Ids : ops'[i].verb = None => ops[i].verb = None /\ ops'[i] = ops[i]
      BY <1>2, <2>7, <2>8
    <3>6. \A i \in Ids : ops'[i].verb = None =>
            /\ ops'[i].outcome = None
            /\ \A d \in Epochs : i \notin shared[d].begun
            /\ \A s \in Preps : i \notin private'[s].begun
      BY <2>16, <3>5 DEF PluginInv, JournalInv
    <3> QED BY <1>1, <3>1, <3>2, <3>3, <3>4, <3>6 DEF JournalInv
  <2>18. PrepInv'
    BY <1>1, <2>16 DEF PluginInv, PrepInv
  <2>19. Pursued(p)'
    BY <1>1, <2>3, <2>8 DEF PluginInv, RefreshInv, Pursued, Linking, Verb, Loaded
  <2>20. procs'[p].step \in Inside \ AfterLook
    BY <2>3 DEF Inside, AfterLook, Asking, Commands
  <2> QED BY <1>1, <1>4, <2>2, <2>3, <2>7, <2>8, <2>10, <2>16, <2>17, <2>18, <2>19, <2>20, InsideMoves
<1> QED BY <1>3, <1>4 DEF FinishesPrivate

\* The global outcome; a refresh that loaded its plugin goes on.
LEMMA FinishesSharedStep ==
    ASSUME PluginInv, NEW p \in Procs, FinishesShared(p)
    PROVE  PluginInv'
<1> DEFINE r == procs[p].prep
           e == preps[r].epoch
           id == procs[p].id
<1>1. procs[p].step = "finish" /\ procs[p].step \in Inside /\ procs[p] \in Proc
      /\ shared' = [shared EXCEPT ![e].done = @ \cup {id}] /\ lock' = [lock EXCEPT ![e] = None]
      /\ UNCHANGED <<host, preps, disk, private, ops, left>>
  BY DEF FinishesShared, Inside, PluginInv, TypeOK
<1>2. r \in Preps /\ e \in Epochs /\ id \in Ids /\ Home(p) = e /\ lock[e] = p
      /\ preps[r].state \in {"published", "removed"} /\ procs[p].step \in Ready
  BY <1>1, InsideAlone DEF Home, PluginInv, ProcInv, Ready
<1>3. \A d \in Epochs : lock'[d] = IF lock[d] = p THEN None ELSE lock[d]
  <2>1. \A d \in Epochs : lock[d] = p => d = e
    BY <1>1, <1>2, OwnerAssumption DEF PluginInv, LockInv
  <2> QED BY <1>1, <1>2, <2>1 DEF PluginInv, TypeOK
<1>4. shared[e] \in Journal
  BY <1>2 DEF PluginInv, TypeOK
<1>5. shared'[e].begun = shared[e].begun /\ shared'[e].done = shared[e].done \cup {id}
      /\ (\A d \in Epochs : d # e => shared'[d] = shared[d]) /\ shared' \in [Epochs -> Journal]
  BY <1>1, <1>2, <1>4 DEF PluginInv, TypeOK, Journal
<1>6. Stage(p) /\ Says(p)
  BY DEF PluginInv, JournalInv
<1>7. Open(shared[e]) = {id} /\ id \in private[r].done /\ (\A s \in Preps : id \in private[s].begun => s = r)
  BY <1>1, <1>2, <1>6 DEF Stage, Asking, Commands
<1>8. Completed(p)
  <2>1. shared[e].done \subseteq shared[e].begun
    BY <1>2, SMTT(30) DEF PluginInv, JournalInv
  <2>2. shared'[e].done = shared[e].begun
    BY <1>5, <1>7, <2>1 DEF Open
  <2>3. ASSUME NEW s \in Preps PROVE shared'[preps[s].epoch].done \cap private[s].begun \subseteq private[s].done
    <3>1. shared[preps[s].epoch].done \cap private[s].begun \subseteq private[s].done /\ preps[s].epoch \in Epochs
      BY DEF PluginInv, JournalInv, TypeOK, Prep
    <3>2. shared'[preps[s].epoch].done \subseteq shared[preps[s].epoch].done \cup {id}
      BY <1>5, <3>1
    <3> QED BY <1>7, <3>1, <3>2
  <2> QED BY <1>2, <1>5, <2>2, <2>3 DEF Completed
<1>9. lock' \in [Epochs -> Procs \cup {None}]
  BY <1>1 DEF PluginInv, TypeOK
<1>10. CASE Rests(p)
  BY <1>1, <1>3, <1>5, <1>8, <1>9, <1>10, RestStep DEF TypeOK
<1>11. CASE Ends(p) /\ Goes(p, "record")
  <2>1. [procs[p] EXCEPT !.step = "record"] \in Proc
    BY <1>1 DEF Proc
  <2>2. procs'[p] = [procs[p] EXCEPT !.step = "record"] /\ Others(p) /\ procs' \in [Procs -> Proc]
    BY <1>11, <2>1 DEF PluginInv, TypeOK, Others, Goes
  <2>3. procs'[p].step = "record" /\ procs'[p].prep = r /\ procs'[p].op = "refresh" /\ procs[p].op = "refresh"
        /\ procs'[p].build = procs[p].build
    BY <1>1, <1>11, <2>2, SMTT(30) DEF Proc, Ends
  <2>4. TypeOK'
    BY <1>1, <1>5, <1>9, <2>2 DEF PluginInv, TypeOK
  <2>5. PrepsStand
    BY <1>1, SMTT(30) DEF PrepsStand
  <2>6. LockInv' /\ JournalInv' /\ CommandInv' /\ LateInv' /\ LoadInv'
    BY <1>1, <1>3, <1>8, <2>2, <2>3, <2>5, OutsideStep DEF Inside, Asking, Commands
  <2>7. \A q \in Procs : q # p => ProcInv(q)' /\ Pursued(q)'
    BY <1>1, <1>3, <2>2, <2>5, OthersStand
  <2>8. Loaded(r)
    BY <1>1, <1>11, <2>3 DEF PluginInv, RefreshInv, Pursued, Ends, Verb
  <2>9. ProcInv(p)' /\ Pursued(p)'
    BY <1>1, <1>2, <2>3, <2>8, OwnerAssumption DEF PluginInv, ProcInv, Pursued, Ready, Inside, Asking, Commands, Linking, Loaded
  <2>10. AloneInv'
    <3>1. \A q \in Procs : procs'[q].op = procs[q].op /\ procs'[q].prep = procs[q].prep /\ (q # p => procs'[q] = procs[q])
      BY <2>2, <2>3 DEF Others
    <3> QED BY <1>1, <1>2, <2>3, <3>1 DEF PluginInv, RefreshInv, AloneInv
  <2> QED BY <1>1, <2>4, <2>6, <2>7, <2>9, <2>10 DEF PluginInv, RefreshInv, Loaded, PrepInv
<1> QED BY <1>10, <1>11 DEF FinishesShared

----------------------------------------------------------------------------
(* The compositor                                                           *)

\* A command that fits changes nothing else than what it is for.
LEMMA Serving ==
    ASSUME PluginInv, NEW c \in Command, NEW h \in Host, host' = Applied(h, c), UNCHANGED preps,
           h.epoch = host.epoch, h.abi = host.abi, h.loaded = host.loaded, h.paused = host.paused,
           h.lease = host.lease, h.ran = host.ran,
           preps[c.prep].epoch = host.epoch, preps[c.prep].state # "none",
           c.cmd = "load" => Abi[preps[c.prep].build] = host.abi,
           c.cmd = "unload" => host.paused /\ ~host.lease
    PROVE  /\ host' \in Host /\ host'.epoch = host.epoch /\ host'.abi = host.abi /\ host'.lease = host.lease
           /\ host'.late = h.late /\ host.ran \subseteq host'.ran
           /\ \A x \in host'.ran : x \in host.ran \/ (x.id = c.id /\ x.cmd = c.cmd /\ x.prep = c.prep)
           /\ Works(h, c) => host'.paused = (c.cmd = "pause")
           /\ LoadInv'
<1>1. c.cmd \in Commands /\ c.id \in Ids /\ c.prep \in Preps
  BY DEF Command
<1>2. CASE ~Works(h, c)
  <2>1. host' = h
    BY <1>2 DEF Applied
  <2> QED BY <1>2, <2>1 DEF PluginInv, LoadInv, Loaded
<1>3. CASE Works(h, c)
  <2> DEFINE q == h.paused /\ ~h.lease
             x == [id |-> c.id, cmd |-> c.cmd, prep |-> c.prep, quiet |-> q]
             l == CASE c.cmd = "load" -> c.prep [] c.cmd = "unload" -> None [] OTHER -> h.loaded
             z == c.cmd = "pause"
  <2>1. host' = [h EXCEPT !.ran = h.ran \cup {x}, !.loaded = l, !.paused = z]
    BY <1>3 DEF Applied, Ran
  <2>2. q \in BOOLEAN /\ z \in BOOLEAN
    OBVIOUS
  <2>3. l \in Preps \cup {None} /\ (c.cmd = "load" => l = c.prep) /\ (c.cmd # "load" => l = None \/ l = host.loaded)
    BY <1>1 DEF Host
  <2>4. (c.cmd = "unload" => q)
    OBVIOUS
  <2> HIDE DEF q, z, l
  <2>5. x \in [id : Ids, cmd : Commands, prep : Preps, quiet : BOOLEAN]
    BY <1>1, <2>2
  <2>6. x.id = c.id /\ x.cmd = c.cmd /\ x.prep = c.prep /\ x.quiet = q
    OBVIOUS
  <2> HIDE DEF x
  <2>7. h.ran \cup {x} \in SUBSET [id : Ids, cmd : Commands, prep : Preps, quiet : BOOLEAN]
    BY <2>5 DEF Host
  <2>8. host' \in Host /\ host'.epoch = h.epoch /\ host'.abi = h.abi /\ host'.lease = h.lease /\ host'.late = h.late
        /\ host'.ran = h.ran \cup {x} /\ host'.loaded = l /\ host'.paused = z
    <3> DEFINE y == h.ran \cup {x}
    <3> HIDE DEF y
    <3>1. host' = [h EXCEPT !.ran = y, !.loaded = l, !.paused = z] /\ y \in SUBSET [id : Ids, cmd : Commands, prep : Preps, quiet : BOOLEAN]
      BY <2>1, <2>7 DEF y
    <3>2. host'.ran = y
      BY <3>1 DEF Host
    <3> QED BY <2>2, <2>3, <3>1, <3>2 DEF Host, y
  <2>9. LoadInv'
    <3>1. \A w \in host'.ran : w.cmd = "unload" => w.quiet
      BY <2>4, <2>6, <2>8 DEF PluginInv, LoadInv
    <3>2. ASSUME host'.loaded # None
          PROVE  /\ preps[host'.loaded].epoch = host.epoch /\ Abi[preps[host'.loaded].build] = host.abi
                 /\ preps[host'.loaded].state # "none" /\ \E w \in host'.ran : w.cmd = "load" /\ w.prep = host'.loaded
      <4>1. CASE c.cmd = "load"
        BY <2>3, <2>6, <2>8, <4>1
      <4>2. CASE c.cmd # "load"
        <5>1. host'.loaded = host.loaded
          BY <2>3, <2>8, <3>2, <4>2
        <5> QED BY <2>8, <3>2, <5>1 DEF PluginInv, LoadInv, Loaded
      <4> QED BY <4>1, <4>2
    <3> QED BY <2>8, <3>1, <3>2 DEF LoadInv, Loaded
  <2>10. host'.paused = (c.cmd = "pause")
    BY <2>8 DEF z
  <2> QED BY <2>6, <2>8, <2>9, <2>10
<1> QED BY <1>2, <1>3

\* What is waiting at the compositor is the one command that its operation gave up.
LEMMA LateIs ==
    ASSUME PluginInv, host.late # <<>>
    PROVE  /\ Len(host.late) = 1 /\ host.late[1] \in Command /\ Head(host.late) = host.late[1] /\ Tail(host.late) = <<>>
           /\ Waits(host.late[1]) /\ Announced(host.late[1])
           /\ host.late[1].id \in Ids /\ host.late[1].prep \in Preps /\ preps[host.late[1].prep].state # "none"
<1>1. Len(host.late) = 1 /\ Waits(host.late[1]) /\ host.late \in Seq(Command)
  BY DEF PluginInv, LateInv, TypeOK, Host
<1>a. Tail(host.late) \in Seq(Command) /\ Len(Tail(host.late)) = 0
  BY <1>1
<1>b. Tail(host.late) = <<>>
  BY <1>a, EmptySeq
<1>c. 1 \in DOMAIN host.late /\ Head(host.late) = host.late[1] /\ host.late[1] \in Command
  BY <1>1
<1>2. host.late[1] \in Command /\ 1 \in DOMAIN host.late /\ Head(host.late) = host.late[1] /\ Tail(host.late) = <<>>
  BY <1>b, <1>c
<1>3. Announced(host.late[1])
  BY <1>2 DEF PluginInv, CommandInv
<1>4. host.late[1].id \in Ids /\ host.late[1].prep \in Preps
  BY <1>2 DEF Command
<1>5. preps[host.late[1].prep].state # "none"
  BY <1>3, <1>4 DEF PluginInv, PrepInv, Announced
<1> QED BY <1>1, <1>2, <1>3, <1>4, <1>5

\* Nothing else moves while the compositor does something by itself.
LEMMA HostMoves ==
    ASSUME PluginInv, UNCHANGED <<preps, disk, shared, private, lock, ops, procs>>, host' \in Host, left' \in Left,
           left'.overlap = left.overlap, host.ran \subseteq host'.ran,
           \/ host'.epoch = host.epoch /\ host'.abi = host.abi
           \/ host'.epoch = host.epoch + 1,
           CommandInv', LateInv', LoadInv'
    PROVE  PluginInv'
<1> USE DEF PluginInv
<1>1. \A r \in Preps : preps[r].epoch \in Nat /\ host.epoch \in Nat
  BY DEF TypeOK, Prep, Host, Epochs
<1>2. \A p \in Procs : ProcInv(p)'
  <2> SUFFICES ASSUME NEW p \in Procs PROVE ProcInv(p)'
    OBVIOUS
  <2>1. ProcInv(p)
    OBVIOUS
  <2>2. procs[p].step = "publish" /\ preps[procs[p].prep].epoch = host'.epoch => host'.epoch = host.epoch /\ host'.abi = host.abi
    BY <1>1, <2>1 DEF ProcInv, PrepInv
  <2> QED BY <2>1, <2>2 DEF ProcInv, Home, Verb
<1>3. PrepInv'
  BY <1>1 DEF PrepInv
<1>4. LockInv'
  BY DEF LockInv, Home
<1>5. JournalInv'
  <2>1. ASSUME NEW p \in Procs PROVE Stage(p)' /\ Says(p)'
    <3>1. Stage(p) /\ Says(p)
      BY DEF JournalInv
    <3> QED BY <3>1 DEF Stage, Says, Home, Open
  <2> QED BY <2>1, SMTT(30) DEF JournalInv, Open
<1>6. RefreshInv'
  <2>1. AloneInv'
    BY DEF RefreshInv, AloneInv
  <2>2. \A p \in Procs : Pursued(p)'
    BY DEF RefreshInv, Pursued, Loaded, Verb
  <2> QED BY <2>1, <2>2 DEF RefreshInv, Loaded
<1>7. TypeOK'
  BY DEF TypeOK
<1> QED BY <1>2, <1>3, <1>4, <1>5, <1>6, <1>7

\* A command is served that nobody waits for.
LEMMA LateServedStep ==
    ASSUME PluginInv, LateServed
    PROVE  PluginInv'
<1> DEFINE c == host.late[1]
           h == [host EXCEPT !.late = <<>>]
<1>1. host.late # <<>> /\ host' = Applied(h, c) /\ UNCHANGED <<preps, disk, shared, private, lock, ops, procs, left>>
  BY LateIs DEF LateServed
<1>2. host \in Host
  BY DEF PluginInv, TypeOK
<1>3. h \in Host /\ h.epoch = host.epoch /\ h.abi = host.abi /\ h.loaded = host.loaded /\ h.paused = host.paused
      /\ h.lease = host.lease /\ h.ran = host.ran /\ h.late = <<>>
  <2>1. <<>> \in Seq(Command)
    OBVIOUS
  <2> QED BY <1>2, <2>1 DEF Host
<1>4. c \in Command /\ Waits(c) /\ Announced(c) /\ preps[c.prep].state # "none"
  BY <1>1, LateIs
<1> HIDE DEF c, h
<1>5. /\ host' \in Host /\ host'.epoch = host.epoch /\ host'.abi = host.abi
      /\ host'.late = <<>> /\ host.ran \subseteq host'.ran
      /\ \A x \in host'.ran : x \in host.ran \/ (x.id = c.id /\ x.cmd = c.cmd /\ x.prep = c.prep)
      /\ LoadInv'
  BY <1>1, <1>3, <1>4, Serving DEF Waits
<1>6. CommandInv'
  <2>1. ASSUME NEW x \in host'.ran PROVE Announced(x)
    BY <1>4, <1>5, <2>1 DEF PluginInv, CommandInv, Announced
  <2>2. DOMAIN host'.late = {}
    BY <1>5
  <2> QED BY <1>1, <2>1, <2>2 DEF CommandInv, Announced
<1>7. LateInv'
  <2>1. \A q \in Procs : procs[q].step = "unload" => procs[q].step \in AfterLook
    BY DEF AfterLook, Asking, Commands
  <2> QED BY <1>1, <1>5, <2>1 DEF PluginInv, LateInv, Home
<1>8. left' \in Left
  BY <1>1 DEF PluginInv, TypeOK
<1> QED BY <1>1, <1>5, <1>6, <1>7, <1>8, HostMoves

\* Applications are claimed and handed back.
LEMMA LeaseStep ==
    ASSUME PluginInv, LeaseComes \/ LeaseGoes
    PROVE  PluginInv'
<1>1. UNCHANGED <<preps, disk, shared, private, lock, ops, procs>> /\ (host'.lease => ~host.paused)
      /\ host' = [host EXCEPT !.lease = host'.lease] /\ host'.lease \in BOOLEAN
  BY DEF LeaseComes, LeaseGoes, PluginInv, TypeOK, Host
<1>2. host \in Host
  BY DEF PluginInv, TypeOK
<1>3. host' \in Host /\ host'.epoch = host.epoch /\ host'.abi = host.abi /\ host'.loaded = host.loaded
      /\ host'.paused = host.paused /\ host'.late = host.late /\ host'.ran = host.ran
  BY <1>1, <1>2 DEF Host
<1>4. left' \in Left /\ left'.overlap = left.overlap
  BY DEF LeaseComes, LeaseGoes, PluginInv, TypeOK, Left
<1>5. CommandInv' /\ LoadInv'
  BY <1>1, <1>3 DEF PluginInv, CommandInv, Announced, LoadInv, Loaded
<1>6. LateInv'
  BY <1>1, <1>3 DEF PluginInv, LateInv, Waits, Home
<1> QED BY <1>1, <1>3, <1>4, <1>5, <1>6, HostMoves

\* Another instance of the compositor.
LEMMA RestartStep ==
    ASSUME PluginInv, Restart
    PROVE  PluginInv'
<1>1. PICK abi \in {host.abi} \cup left.abis :
        host' = [epoch |-> host.epoch + 1, abi |-> abi, loaded |-> None, paused |-> FALSE,
                 lease |-> FALSE, late |-> <<>>, ran |-> host.ran]
  BY DEF Restart
<1>2. UNCHANGED <<preps, disk, shared, private, lock, ops, procs>> /\ host.epoch < MaxEpochs
      /\ left.restarts > 0 /\ left' = [left EXCEPT !.restarts = @ - 1]
  BY DEF Restart
<1>3. host \in Host /\ left \in Left
  BY DEF PluginInv, TypeOK
<1>4. host.epoch + 1 \in Epochs /\ abi \in Nat
  BY <1>2, <1>3, OwnerAssumption DEF Host, Left, Epochs
<1>5. host' \in Host
  BY <1>1, <1>3, <1>4 DEF Host
<1>6. left' \in Left /\ left'.overlap = left.overlap
  BY <1>2, <1>3 DEF Left
<1>7. CommandInv' /\ LoadInv'
  <2>1. host'.late = <<>> /\ host'.loaded = None /\ host'.ran = host.ran
    BY <1>1
  <2> QED BY <1>2, <2>1 DEF PluginInv, CommandInv, Announced, LoadInv
<1>8. LateInv'
  <2>1. host'.late = <<>> /\ host'.epoch = host.epoch + 1
    BY <1>1
  <2>2. ASSUME NEW p \in Procs, procs[p].step = "unload" PROVE Home(p) # host.epoch + 1
    <3>1. procs[p].step \in Inside
      BY <2>2 DEF Inside, Asking, Commands
    <3>2. Home(p) <= host.epoch /\ Home(p) \in Nat /\ host.epoch \in Nat
      BY <1>3, <3>1, InsideAlone DEF Home, PluginInv, PrepInv, Epochs, Host
    <3> QED BY <3>2
  <2> QED BY <1>2, <2>1, <2>2 DEF LateInv, Home
<1> QED BY <1>1, <1>2, <1>5, <1>6, <1>7, <1>8, HostMoves

\* Where an answer leads.
LEMMA LeadsIs ==
    ASSUME NEW verb \in Verbs, NEW step \in Asking, NEW a
    PROVE  /\ Leads(verb, step, a) \in AfterLook \cup {"success", "error"}
           /\ a = "lost" => Leads(verb, step, a) = "error"
           /\ Leads(verb, step, a) = "unload" => step = "quiet" /\ a = "ready"
           /\ Leads(verb, step, a) \in {"readiness", "pause", "quiet", "unload", "resume", "resumed"} =>
                 verb # "load" \/ step \in {"readiness", "pause", "quiet", "unload", "resume", "resumed"}
           /\ Leads(verb, step, a) = "success" /\ verb = "load"
              /\ step \notin {"readiness", "pause", "quiet", "unload", "resume", "resumed"} =>
                 step \in {"status", "after"} /\ a = "loaded"
BY DEF Leads, AfterLook, Asking, Commands, Verbs

\* What an answer changes of a process.
LEMMA ToldIs ==
    ASSUME PluginInv, NEW p \in Procs, procs[p].step \in Asking, NEW a
    PROVE  /\ Told(p, a) \in Proc
           /\ Told(p, a).step = Leads(Verb(p), procs[p].step, a)
           /\ Told(p, a).op = procs[p].op /\ Told(p, a).prep = procs[p].prep /\ Told(p, a).id = procs[p].id
           /\ Told(p, a).build = procs[p].build
           /\ procs[p].sent => Told(p, a).sent
           /\ procs[p].paused => Told(p, a).paused
           /\ procs[p].step \in Commands /\ Usable(procs[p].prep) =>
                 Noted(procs[p].step, Told(p, a).sent, Told(p, a).paused)
           /\ Verb(p) \in Verbs
<1> DEFINE pr == procs[p]
           s == pr.sent \/ pr.step \in {"load", "unload", "resume"}
           t == pr.paused \/ pr.step = "pause"
           l == Leads(Verb(p), pr.step, a)
<1>1. pr \in Proc /\ pr.op # None
  BY OwnerAssumption DEF PluginInv, TypeOK, ProcInv, Asking, Commands
<1>2. Verb(p) \in Verbs
  BY <1>1 DEF Verb, Proc, Verbs
<1>3. l \in Inside /\ s \in BOOLEAN /\ t \in BOOLEAN
  BY <1>2, LeadsIs DEF Inside, AfterLook
<1>4. (pr.sent => s) /\ (pr.paused => t) /\ (pr.step \in Commands => Noted(pr.step, s, t))
  BY DEF Noted, Commands
<1>5. CASE pr.step \in Commands /\ Usable(pr.prep)
  <2>1. Told(p, a) = [[pr EXCEPT !.sent = s, !.paused = t] EXCEPT !.step = l]
    BY <1>5 DEF Told, Sends
  <2> HIDE DEF s, t, l, pr
  <2>2. /\ Told(p, a) \in Proc /\ Told(p, a).step = l /\ Told(p, a).sent = s /\ Told(p, a).paused = t
        /\ Told(p, a).op = pr.op /\ Told(p, a).prep = pr.prep /\ Told(p, a).id = pr.id /\ Told(p, a).build = pr.build
    BY <1>1, <1>3, <2>1 DEF Proc
  <2> USE DEF l, pr
  <2> QED BY <1>2, <1>4, <2>2
<1>6. CASE ~(pr.step \in Commands /\ Usable(pr.prep))
  <2>1. Told(p, a) = [pr EXCEPT !.step = l]
    BY <1>6 DEF Told
  <2> HIDE DEF s, t, l, pr
  <2>2. /\ Told(p, a) \in Proc /\ Told(p, a).step = l /\ Told(p, a).sent = pr.sent /\ Told(p, a).paused = pr.paused
        /\ Told(p, a).op = pr.op /\ Told(p, a).prep = pr.prep /\ Told(p, a).id = pr.id /\ Told(p, a).build = pr.build
    BY <1>1, <1>3, <2>1 DEF Proc
  <2> USE DEF l, pr
  <2> QED BY <1>2, <1>6, <2>2
<1> QED BY <1>5, <1>6

\* An exchange may end in three ways.
LEMMA StepsAre ==
    ASSUME PluginInv, NEW p \in Procs, Steps(p),
           NEW c, c = [cmd |-> Asks(procs[p].step), id |-> procs[p].id, prep |-> procs[p].prep]
    PROVE  \E a :
        /\ procs' = [procs EXCEPT ![p] = Told(p, a)]
        /\ left' \in Left /\ left'.overlap = left.overlap
        /\ \/ ~Usable(c.prep) /\ a = "lost" /\ host' = host
           \/ /\ Usable(c.prep) /\ a = "lost"
              /\ host' = IF c.cmd \in Commands THEN [host EXCEPT !.late = Append(@, c)] ELSE host
           \/ /\ Usable(c.prep) /\ host.late = <<>> /\ a = Answer(host, c)
              /\ host' = IF c.cmd \in Commands THEN Applied(host, c) ELSE host
<1>1. PICK x \in Exchange(c) :
        /\ x.losses <= left.losses
        /\ host' = x.host /\ left' = [left EXCEPT !.losses = @ - x.losses]
        /\ procs' = [procs EXCEPT ![p] = Told(p, x.reply)]
  BY DEF Steps
<1>2. x.losses \in {0, 1}
  BY DEF Exchange, Given
<1>3. left' \in Left /\ left'.overlap = left.overlap
  BY <1>1, <1>2 DEF PluginInv, TypeOK, Left
<1>4. \/ ~Usable(c.prep) /\ x.reply = "lost" /\ x.host = host
      \/ /\ Usable(c.prep) /\ x.reply = "lost"
         /\ x.host = IF c.cmd \in Commands THEN [host EXCEPT !.late = Append(@, c)] ELSE host
      \/ /\ Usable(c.prep) /\ host.late = <<>> /\ x.reply = Answer(host, c)
         /\ x.host = IF c.cmd \in Commands THEN Applied(host, c) ELSE host
  BY DEF Exchange, Given
<1> QED BY <1>1, <1>3, <1>4

\* One exchange of an operation with the plugin.
LEMMA StepsStep ==
    ASSUME PluginInv, NEW p \in Procs, Steps(p)
    PROVE  PluginInv'
<1> DEFINE c == [cmd |-> Asks(procs[p].step), id |-> procs[p].id, prep |-> procs[p].prep]
           step == procs[p].step
<1>1. step \in Asking /\ UNCHANGED <<preps, disk, shared, private, lock, ops>>
  BY DEF Steps
<1>2. step \in Inside /\ step \in Ready /\ step \notin {"idle", "check"}
  BY <1>1 DEF Inside, Ready, Asking, Commands
<1>3. PICK a :
        /\ procs' = [procs EXCEPT ![p] = Told(p, a)]
        /\ left' \in Left /\ left'.overlap = left.overlap
        /\ \/ ~Usable(c.prep) /\ a = "lost" /\ host' = host
           \/ /\ Usable(c.prep) /\ a = "lost"
              /\ host' = IF c.cmd \in Commands THEN [host EXCEPT !.late = Append(@, c)] ELSE host
           \/ /\ Usable(c.prep) /\ host.late = <<>> /\ a = Answer(host, c)
              /\ host' = IF c.cmd \in Commands THEN Applied(host, c) ELSE host
  BY StepsAre
<1>4. /\ procs[p].prep \in Preps /\ preps[procs[p].prep].state # "none" /\ Home(p) \in Epochs
      /\ procs[p].id \in Ids /\ ops[procs[p].id].verb \in Verbs /\ lock[Home(p)] = p
      /\ \A q \in Procs : q # p /\ procs[q].step \in Inside => Home(q) # Home(p) /\ procs[q].id # procs[p].id
  BY <1>2, InsideAlone
<1>5. c.id = procs[p].id /\ c.prep = procs[p].prep /\ c.cmd = Asks(step)
      /\ (c.cmd \in Commands => c.cmd = step /\ c \in Command)
  BY <1>1, <1>4 DEF Asks, Commands, Command, Asking
<1> HIDE DEF c
<1>6. /\ procs'[p] \in Proc /\ procs'[p].step = Leads(Verb(p), step, a)
      /\ procs'[p].op = procs[p].op /\ procs'[p].prep = procs[p].prep /\ procs'[p].id = procs[p].id
      /\ procs'[p].build = procs[p].build
      /\ (procs[p].sent => procs'[p].sent) /\ (procs[p].paused => procs'[p].paused)
      /\ (step \in Commands /\ Usable(procs[p].prep) => Noted(step, procs'[p].sent, procs'[p].paused))
      /\ Verb(p) \in Verbs
  <2>1. procs'[p] = Told(p, a)
    BY <1>3 DEF PluginInv, TypeOK
  <2> QED BY <1>1, <2>1, ToldIs
<1>7. \A q \in Procs : q # p => procs'[q] = procs[q]
  BY <1>3 DEF PluginInv, TypeOK
<1>8. procs' \in [Procs -> Proc]
  BY <1>3, <1>6 DEF PluginInv, TypeOK
<1>9. /\ procs'[p].step \in AfterLook \cup {"success", "error"}
      /\ a = "lost" => procs'[p].step = "error"
      /\ procs'[p].step = "unload" => step = "quiet" /\ a = "ready"
      /\ procs'[p].step \in {"readiness", "pause", "quiet", "unload", "resume", "resumed"} => Verb(p) # "load"
      /\ procs'[p].step = "success" /\ Verb(p) = "load" => step \in {"status", "after"} /\ a = "loaded"
  <2>1. step \in {"readiness", "pause", "quiet", "unload", "resume", "resumed"} => Verb(p) # "load"
    BY DEF PluginInv, ProcInv
  <2> QED BY <1>1, <1>6, <2>1, LeadsIs
<1>10. procs'[p].step \in Inside /\ procs'[p].step \in Ready
       /\ procs'[p].step \notin {"idle", "begin", "intent", "finish", "check", "copy", "stage", "publish", "record", "link", "prune"}
  BY <1>9 DEF AfterLook, Inside, Ready, Asking, Commands
<1>11. \A q \in Procs : Home(q)' = Home(q) /\ Verb(q)' = Verb(q) /\ procs'[q].id = procs[q].id
         /\ procs'[q].op = procs[q].op /\ procs'[q].prep = procs[q].prep
         /\ (procs'[q].step \in Inside => procs[q].step \in Inside)
         /\ (procs'[q].step \in Ready => procs[q].step \in Ready)
  BY <1>1, <1>2, <1>6, <1>7 DEF Home, Verb
<1>12. Stage(p) /\ Says(p) /\ ProcInv(p)
  BY DEF PluginInv, JournalInv
<1>13. Open(shared[Home(p)]) = {procs[p].id} /\ procs[p].id \in Open(private[procs[p].prep])
       /\ (\A r \in Preps : procs[p].id \in private[r].begun => r = procs[p].prep)
       /\ ops[procs[p].id].outcome = None
  BY <1>1, <1>2, <1>12 DEF Stage, Says, Asking, Commands
<1>14. host \in Host /\ left \in Left
  BY DEF PluginInv, TypeOK
<1>15. Usable(c.prep) => Home(p) = host.epoch /\ preps[procs[p].prep].epoch = host.epoch
         /\ Abi[preps[procs[p].prep].build] = host.abi
  BY <1>4, <1>5 DEF Usable, Home, PluginInv, PrepInv
<1>16. Usable(c.prep) /\ c.cmd \in Commands => host.late = <<>> /\ (c.cmd = "unload" => host.paused /\ ~host.lease)
  <2> SUFFICES ASSUME Usable(c.prep), c.cmd \in Commands PROVE host.late = <<>> /\ (c.cmd = "unload" => host.paused /\ ~host.lease)
    OBVIOUS
  <2>1. step \in AfterLook
    BY <1>1, <1>5 DEF AfterLook, Commands
  <2> QED BY <1>5, <1>15, <2>1 DEF PluginInv, LateInv
\* What the compositor does of it.
<1>17. /\ host' \in Host /\ host'.epoch = host.epoch /\ host'.abi = host.abi /\ host'.lease = host.lease
       /\ host.ran \subseteq host'.ran
       /\ \A x \in host'.ran : x \in host.ran
             \/ (x.id = c.id /\ x.cmd = c.cmd /\ x.prep = c.prep /\ c.cmd \in Commands /\ Usable(c.prep))
       /\ LoadInv'
       /\ host'.late = host.late \/ (host'.late = <<c>> /\ host.late = <<>> /\ c.cmd \in Commands /\ Usable(c.prep) /\ a = "lost")
       /\ a # "lost" => host.late = <<>> /\ host'.late = <<>> /\ Usable(c.prep)
       /\ host'.paused = host.paused \/ (c.cmd \in Commands /\ Usable(c.prep) /\ a # "lost")
  <2>1. CASE host' = host /\ (a # "lost" => host.late = <<>> /\ Usable(c.prep))
    BY <1>1, <1>14, <2>1 DEF PluginInv, LoadInv, Loaded
  <2>2. CASE Usable(c.prep) /\ a = "lost" /\ c.cmd \in Commands /\ host' = [host EXCEPT !.late = Append(@, c)]
    <3>1. Append(host.late, c) = <<c>> /\ <<c>> \in Seq(Command)
      <4>1. host.late = <<>> /\ c \in Command
        BY <1>5, <1>16, <2>2
      <4>2. Append(<<>>, c) = <<c>> /\ <<c>> \in Seq(Command)
        BY <4>1
      <4> QED BY <4>1, <4>2
    <3>2. host' \in Host /\ host'.epoch = host.epoch /\ host'.abi = host.abi /\ host'.lease = host.lease
          /\ host'.ran = host.ran /\ host'.late = <<c>> /\ host'.paused = host.paused /\ host'.loaded = host.loaded
      <4> DEFINE z == <<c>>
      <4>1. host' = [host EXCEPT !.late = z] /\ z \in Seq(Command)
        BY <2>2, <3>1
      <4> HIDE DEF z
      <4>2. host' \in Host /\ host'.epoch = host.epoch /\ host'.abi = host.abi /\ host'.lease = host.lease
          /\ host'.ran = host.ran /\ host'.late = z /\ host'.paused = host.paused /\ host'.loaded = host.loaded
        BY <1>14, <4>1 DEF Host
      <4> QED BY <4>2 DEF z
    <3>3. LoadInv'
      BY <1>1, <3>2 DEF PluginInv, LoadInv, Loaded
    <3> QED BY <1>16, <2>2, <3>2, <3>3
  <2>3. CASE Usable(c.prep) /\ host.late = <<>> /\ a = Answer(host, c) /\ c.cmd \in Commands /\ host' = Applied(host, c)
    <3>1. a # "lost"
      BY <2>3 DEF Answer, Commands
    <3>2. c \in Command /\ preps[c.prep].epoch = host.epoch /\ preps[c.prep].state # "none"
          /\ Abi[preps[c.prep].build] = host.abi /\ (c.cmd = "unload" => host.paused /\ ~host.lease)
      BY <1>4, <1>5, <1>15, <1>16, <2>3
    <3>3. /\ host' \in Host /\ host'.epoch = host.epoch /\ host'.abi = host.abi /\ host'.lease = host.lease
          /\ host'.late = host.late /\ host.ran \subseteq host'.ran
          /\ \A x \in host'.ran : x \in host.ran \/ (x.id = c.id /\ x.cmd = c.cmd /\ x.prep = c.prep)
          /\ LoadInv'
      BY <1>1, <1>14, <2>3, <3>2, Serving
    <3> QED BY <2>3, <3>1, <3>3
  <2> QED BY <1>3, <2>1, <2>2, <2>3
<1>18. TypeOK'
  BY <1>1, <1>3, <1>8, <1>17 DEF PluginInv, TypeOK
<1>19. \A q \in Procs : q # p => ProcInv(q)' /\ Pursued(q)'
  BY <1>1, <1>7, <1>17, OthersStand DEF Others, PrepsStand
<1>20. ProcInv(p)'
  BY <1>1, <1>2, <1>4, <1>6, <1>9, <1>10, <1>11, <1>12 DEF ProcInv
<1>21. Pursued(p)'
  <2>1. ASSUME procs'[p].step = "success", Verb(p) = "load" PROVE \E w \in host'.ran : w.cmd = "load" /\ w.prep = procs[p].prep
    <3>1. step \in {"status", "after"} /\ a = "loaded"
      BY <1>9, <2>1
    <3>2. c.cmd = "status" /\ a = Answer(host, c) /\ host.ran \subseteq host'.ran
      BY <1>3, <1>5, <1>17, <3>1 DEF Asks
    <3>3. host.loaded = c.prep /\ host.loaded # None
      BY <3>1, <3>2 DEF Answer
    <3> QED BY <1>5, <3>2, <3>3 DEF PluginInv, LoadInv, Loaded
  <2> QED BY <1>6, <1>10, <1>11, <2>1 DEF Pursued, Linking, Loaded
<1>22. PrepInv'
  BY <1>1, <1>17 DEF PluginInv, PrepInv
<1>23. LockInv'
  <2>1. ASSUME NEW e \in Epochs, lock[e] # None PROVE procs'[lock[e]].step \in Inside /\ preps[procs'[lock[e]].prep].epoch = e
    <3>1. PICK q \in Procs : q = lock[e]
      BY <2>1 DEF PluginInv, TypeOK
    <3>2. procs[q].step \in Inside /\ Home(q) = e
      BY <2>1, <3>1 DEF PluginInv, LockInv
    <3> QED BY <1>6, <1>7, <1>10, <3>1, <3>2 DEF Home
  <2>2. \A q, r \in Procs : procs'[q].step \in Inside /\ procs'[r].step \in Inside /\ procs'[q].id = procs'[r].id => q = r
    BY <1>11 DEF PluginInv, LockInv
  <2> QED BY <1>1, <2>1, <2>2 DEF LockInv, Home
<1>24. JournalInv'
  <2>1. Stage(p)'
    <3>1. procs'[p].step \in Asking \cup {"success", "error"}
      BY <1>9 DEF AfterLook
    <3>2. Home(p)' = Home(p) /\ shared' = shared /\ private' = private
      BY <1>1, <1>11
    <3> QED BY <1>6, <1>10, <1>13, <3>1, <3>2 DEF Stage, Open
  <2>2. Says(p)'
    BY <1>1, <1>6, <1>10, <1>13 DEF Says
  <2>3. ASSUME NEW q \in Procs, q # p PROVE Stage(q)' /\ Says(q)'
    <3>1. Stage(q) /\ Says(q) /\ Home(q)' = Home(q) /\ procs'[q] = procs[q]
      BY <1>7, <1>11, <2>3 DEF PluginInv, JournalInv
    <3> QED BY <1>1, <3>1 DEF Stage, Says, Open
  <2> QED BY <1>1, <2>1, <2>2, <2>3 DEF PluginInv, JournalInv, Open
<1>25. \A x : Announced(x) => Announced(x)'
  <2> SUFFICES ASSUME NEW x, Announced(x) PROVE Announced(x)'
    OBVIOUS
  <2>1. ASSUME NEW q \in Procs, procs'[q].step \in Inside, procs'[q].id = x.id
        PROVE  Noted(x.cmd, procs'[q].sent, procs'[q].paused)
    <3>1. Noted(x.cmd, procs[q].sent, procs[q].paused)
      BY <1>11, <2>1 DEF Announced
    <3>2. CASE q = p
      BY <1>6, <3>1, <3>2 DEF Noted
    <3>3. CASE q # p
      BY <1>7, <3>1, <3>3
    <3> QED BY <3>2, <3>3
  <2> QED BY <1>1, <2>1 DEF Announced
<1>26. ASSUME NEW x, x.id = c.id, x.cmd = c.cmd, x.prep = c.prep, c.cmd \in Commands, Usable(c.prep) PROVE Announced(x)'
  <2>1. x.id \in private[x.prep].begun
    BY <1>5, <1>13, <1>26 DEF Open
  <2>2. \A q \in Procs : procs'[q].step \in Inside /\ procs'[q].id = x.id => q = p
    BY <1>4, <1>5, <1>11, <1>26
  <2>3. Noted(x.cmd, procs'[p].sent, procs'[p].paused)
    BY <1>5, <1>6, <1>26
  <2> QED BY <1>1, <1>5, <1>13, <1>26, <2>1, <2>2, <2>3 DEF Announced
<1>27. CommandInv'
  <2>1. ASSUME NEW x \in host'.ran PROVE Announced(x)'
    BY <1>17, <1>25, <1>26 DEF PluginInv, CommandInv
  <2>2. ASSUME NEW i \in DOMAIN host'.late, NEW x, x = host'.late[i] PROVE Announced(x)'
    <3>1. CASE host'.late = host.late
      BY <1>25, <2>2, <3>1 DEF PluginInv, CommandInv
    <3>2. CASE host'.late = <<c>> /\ c.cmd \in Commands /\ Usable(c.prep)
      BY <1>26, <2>2, <3>2
    <3> QED BY <1>17, <3>1, <3>2
  <2> QED BY <2>1, <2>2 DEF CommandInv, Announced
<1>28. LateInv'
  <2>1. ASSUME NEW q \in Procs, procs'[q].step \in AfterLook, Home(q) = host.epoch PROVE host'.late = <<>>
    <3>1. CASE q = p
      <4>1. a # "lost"
        BY <1>9, <2>1, <3>1 DEF AfterLook, Asking, Commands
      <4> QED BY <1>17, <4>1
    <3>2. CASE q # p
      <4>1. procs[q].step \in AfterLook /\ procs[q].step \in Inside
        BY <1>7, <2>1, <3>2 DEF AfterLook, Inside
      <4>2. ~Usable(c.prep)
        BY <1>4, <1>15, <2>1, <3>2, <4>1
      <4>3. host.late = <<>>
        BY <2>1, <4>1 DEF PluginInv, LateInv
      <4> QED BY <1>17, <4>2, <4>3
    <3> QED BY <3>1, <3>2
  <2>2. ASSUME NEW q \in Procs, procs'[q].step = "unload", Home(q) = host.epoch PROVE host'.paused /\ ~host'.lease
    <3>1. CASE q = p
      <4>1. step = "quiet" /\ a = "ready"
        BY <1>9, <2>2, <3>1
      <4>2. c.cmd = "readiness" /\ a = Answer(host, c) /\ host' = host
        BY <1>3, <1>5, <4>1 DEF Asks, Commands
      <4> QED BY <4>1, <4>2 DEF Answer
    <3>2. CASE q # p
      <4>1. procs[q].step = "unload" /\ procs[q].step \in Inside
        BY <1>7, <2>2, <3>2 DEF Inside, Asking, Commands
      <4>2. ~Usable(c.prep)
        BY <1>4, <1>15, <2>2, <3>2, <4>1
      <4>3. host.paused /\ ~host.lease
        BY <2>2, <4>1 DEF PluginInv, LateInv
      <4> QED BY <1>17, <4>2, <4>3
    <3> QED BY <3>1, <3>2
  <2>3. ASSUME host'.late # <<>> PROVE Len(host'.late) = 1 /\ \A x : x = host'.late[1] => Waits(x)'
    <3>1. a = "lost" /\ procs'[p].step = "error" /\ host'.paused = host.paused
      BY <1>9, <1>17, <2>3
    <3>2. CASE host'.late = host.late
      <4> SUFFICES ASSUME NEW x, x = host.late[1] PROVE Len(host.late) = 1 /\ Waits(x)'
        BY <3>2
      <4>1. Len(host.late) = 1 /\ Waits(x)
        BY <2>3, <3>2, LateIs
      <4>2. \A q \in Procs : procs'[q].step \in Inside /\ procs'[q].id = x.id => procs'[q].step \in {"error", "finish"}
        BY <1>7, <1>11, <3>1, <4>1 DEF Waits
      <4> QED BY <1>1, <1>17, <3>1, <4>1, <4>2 DEF Waits
    <3>3. CASE host'.late = <<c>> /\ c.cmd \in Commands /\ Usable(c.prep)
      <4>1. Len(<<c>>) = 1 /\ <<c>>[1] = c
        OBVIOUS
      <4>2. \A q \in Procs : procs'[q].step \in Inside /\ procs'[q].id = c.id => q = p
        BY <1>4, <1>5, <1>11
      <4>3. /\ preps[c.prep].epoch = host.epoch /\ Abi[preps[c.prep].build] = host.abi
            /\ (c.cmd = "unload" => host.paused /\ ~host.lease) /\ ops[c.id].outcome # "success"
        BY <1>5, <1>13, <1>15, <1>16, <3>3, OwnerAssumption
      <4>4. ASSUME NEW x, x = c PROVE Waits(x)'
        BY <1>1, <1>17, <3>1, <4>2, <4>3, <4>4 DEF Waits
      <4> QED BY <3>3, <4>1, <4>4
    <3> QED BY <1>17, <3>2, <3>3
  <2>4. host'.late # <<>> => Waits(host.late[1])'
    BY <2>3 DEF Waits
  <2> QED BY <1>11, <1>17, <2>1, <2>2, <2>3, <2>4 DEF LateInv
<1>29. RefreshInv'
  <2>1. procs'[p].step # "prune" /\ \A q \in Procs : procs'[q].step = "prune" => procs[q].step = "prune"
    BY <1>7, <1>10
  <2>2. AloneInv'
    BY <1>1, <1>3, <1>11, <2>1 DEF PluginInv, RefreshInv, AloneInv
  <2> QED BY <1>1, <1>17, <1>19, <1>21, <2>2 DEF PluginInv, RefreshInv, Loaded
<1> QED BY <1>17, <1>18, <1>19, <1>20, <1>22, <1>23, <1>24, <1>27, <1>28, <1>29 DEF PluginInv

----------------------------------------------------------------------------
(* The theorems                                                             *)

\* Nothing has been done yet.
LEMMA Starts ==
    ASSUME Init
    PROVE  PluginInv
<1>1. PICK c \in Cases :
    /\ host = [epoch |-> 1, abi |-> c.abi, loaded |-> None, paused |-> FALSE, lease |-> FALSE,
               late |-> <<>>, ran |-> {}]
    /\ left = [verbs |-> c.verbs, refreshes |-> c.refreshes, losses |-> c.losses, kills |-> c.kills,
               restarts |-> c.restarts, leases |-> c.leases, abis |-> c.abis, builds |-> c.builds, overlap |-> FALSE, cut |-> FALSE]
  BY DEF Init
<1>2. /\ preps = [r \in Preps |-> [state |-> "none", build |-> None, epoch |-> 1]]
      /\ disk = [current |-> None, pin |-> None, copy |-> None]
      /\ shared = [e \in Epochs |-> NoJournal] /\ private = [r \in Preps |-> NoJournal]
      /\ lock = [e \in Epochs |-> None]
      /\ ops = [id \in Ids |-> [verb |-> None, outcome |-> None, sent |-> FALSE, paused |-> FALSE]]
      /\ procs = [p \in Procs |-> NoProc]
  BY DEF Init
<1>3. 1 \in Epochs
  BY OwnerAssumption DEF Epochs
<1>4. c \in [abi : Nat, verbs : Nat, refreshes : Nat, losses : Nat, kills : Nat,
             restarts : Nat, leases : Nat, abis : SUBSET Nat, builds : SUBSET Builds]
  BY OwnerAssumption
<1>5. TypeOK
  <2>1. host \in Host
    <3>1. <<>> \in Seq(Command)
      OBVIOUS
    <3> QED BY <1>1, <1>3, <1>4, <3>1 DEF Host
  <2>2. left \in Left
    BY <1>1, <1>4 DEF Left
  <2>3. NoProc \in Proc /\ NoJournal \in Journal
    BY DEF NoProc, Proc, NoJournal, Journal
  <2>4. ops \in [Ids -> Op]
    BY <1>2 DEF Op
  <2>5. preps \in [Preps -> Prep]
    BY <1>2, <1>3 DEF Prep
  <2> QED BY <1>2, <2>1, <2>2, <2>3, <2>4, <2>5 DEF TypeOK
<1>6. \A p \in Procs : procs[p].step = "idle" /\ procs[p].op = None
  BY <1>2 DEF NoProc
<1>7. "idle" \notin Inside /\ "idle" \notin Ready /\ "idle" \notin Linking /\ "idle" \notin Asking /\ "idle" \notin AfterLook
  BY DEF Inside, Ready, Linking, Asking, Commands, AfterLook
<1>8. \A p \in Procs : ProcInv(p) /\ Pursued(p)
  BY <1>6, <1>7, OwnerAssumption DEF ProcInv, Pursued
<1>9. \A r \in Preps : preps[r].state = "none" /\ private[r].begun = {} /\ private[r].done = {}
  BY <1>2 DEF NoJournal
<1>10. \A e \in Epochs : shared[e].begun = {} /\ shared[e].done = {} /\ lock[e] = None
  BY <1>2 DEF NoJournal
<1>11. PrepInv /\ LockInv
  BY <1>6, <1>7, <1>9, <1>10 DEF PrepInv, LockInv
<1>12. JournalInv
  <2>1. \A p \in Procs : Stage(p) /\ Says(p)
    BY <1>6, <1>7 DEF Stage, Says
  <2>2. \A id \in Ids : ops[id].outcome = None
    BY <1>2
  <2>3. \A r \in Preps : preps[r].epoch = 1
    BY <1>2
  <2> QED BY <1>3, <1>9, <1>10, <2>1, <2>2, <2>3 DEF JournalInv, Open
<1>13. CommandInv /\ LateInv /\ LoadInv
  BY <1>1, <1>6, <1>7 DEF CommandInv, LateInv, LoadInv
<1>14. RefreshInv
  <2>1. AloneInv
    BY <1>2, <1>6, <1>7, OwnerAssumption DEF AloneInv
  <2> QED BY <1>2, <1>8, <2>1 DEF RefreshInv
<1> QED BY <1>5, <1>8, <1>11, <1>12, <1>13, <1>14 DEF PluginInv

\* Every step keeps the invariant.
LEMMA EveryStep ==
    ASSUME PluginInv, [Next]_vars
    PROVE  PluginInv'
<1>1. CASE UNCHANGED vars
  <2> USE <1>1 DEF vars
  <2>1. TypeOK' /\ PrepInv' /\ LockInv' /\ LoadInv' /\ CommandInv'
    BY DEF PluginInv, TypeOK, PrepInv, LockInv, LoadInv, CommandInv, Announced, Home, Loaded
  <2>2. \A p \in Procs : ProcInv(p)' /\ Pursued(p)'
    BY SMTT(30) DEF PluginInv, RefreshInv, ProcInv, Pursued, Home, Verb, Loaded
  <2>3. \A p \in Procs : Stage(p)' /\ Says(p)'
    <3> TAKE p \in Procs
    <3>1. Stage(p) /\ Says(p)
      BY DEF PluginInv, JournalInv
    <3> QED BY <3>1 DEF Stage, Says, Home, Open
  <2>4. JournalInv'
    BY <2>3 DEF PluginInv, JournalInv, Open
  <2>5. LateInv'
    BY DEF PluginInv, LateInv, Waits, Home
  <2>6. RefreshInv'
    BY <2>2 DEF PluginInv, RefreshInv, AloneInv, Loaded
  <2> QED BY <2>1, <2>2, <2>4, <2>5, <2>6 DEF PluginInv
<1>2. CASE LateServed \/ LeaseComes \/ LeaseGoes \/ Restart
  BY <1>2, LateServedStep, LeaseStep, RestartStep
<1>3. ASSUME NEW p \in Procs,
             \/ Opens(p) \/ BeginsShared(p) \/ BeginsPrivate(p) \/ Steps(p)
             \/ FinishesPrivate(p) \/ FinishesShared(p)
      PROVE  PluginInv'
  BY <1>3, OpensStep, BeginsSharedStep, BeginsPrivateStep, StepsStep, FinishesPrivateStep, FinishesSharedStep
<1>4. ASSUME NEW p \in Procs,
             \/ Checks(p) \/ Copies(p) \/ Stages(p) \/ Prepared(p) \/ Records(p) \/ Links(p) \/ Prunes(p) \/ Killed(p)
      PROVE  PluginInv'
  BY <1>4, ChecksStep, CopiesStep, StagesStep, PreparedStep, RecordsStep, LinksStep, PrunesStep, KilledStep
<1>5. ASSUME NEW p \in Procs, NEW b \in left.builds \cup {None}, Refresh(p, b) PROVE PluginInv'
  BY <1>5, RefreshStep
<1>6. ASSUME NEW p \in Procs, NEW v \in Verbs, NEW r \in Preps, Operate(p, v, r) PROVE PluginInv'
  BY <1>6, OperateStep
<1> QED BY <1>1, <1>2, <1>3, <1>4, <1>5, <1>6 DEF Next

\* The inductive invariant of the owner's commands (operate and refresh together).
THEOREM PluginInvariant == Spec => []PluginInv
<1>1. Init => PluginInv
  BY Starts
<1>2. PluginInv /\ [Next]_vars => PluginInv'
  BY EveryStep
<1> QED BY <1>1, <1>2, PTL DEF Spec

\* The journals account for every command that the plugin served or may still serve, and
\* one operation at most is open on an instance (operate, OwnerJournal).
THEOREM CommandsAreRecorded == Spec => []CommandsRecorded
<1>1. PluginInv => CommandsRecorded
  <2> SUFFICES ASSUME PluginInv PROVE CommandsRecorded
    OBVIOUS
  <2>1. ASSUME NEW c, c.id \in Ids, c.prep \in Preps, Announced(c)
        PROVE  /\ c.id \in shared[preps[c.prep].epoch].begun \cap private[c.prep].begun
               /\ ops[c.id].outcome # None => IF c.cmd = "pause" THEN ops[c.id].paused ELSE ops[c.id].sent
    BY <2>1 DEF PluginInv, JournalInv, Announced, Noted
  <2>2. \A c \in host.ran : c.id \in Ids /\ c.prep \in Preps /\ Announced(c)
    BY DEF PluginInv, TypeOK, Host, CommandInv
  <2>3. host.late \in Seq(Command)
    BY DEF PluginInv, TypeOK, Host
  <2>4. ASSUME NEW i \in 1 .. Len(host.late)
        PROVE  /\ host.late[i].id \in Ids /\ host.late[i].prep \in Preps /\ Announced(host.late[i])
               /\ ops[host.late[i].id].outcome # "success"
    <3>1. host.late # <<>> /\ i \in DOMAIN host.late
      BY <2>3, <2>4
    <3>2. Len(host.late) = 1
      BY <3>1, LateIs
    <3>3. i = 1
      BY <2>4, <3>2
    <3> QED BY <3>1, <3>3, LateIs DEF Waits
  <2>5. ASSUME NEW e \in Epochs PROVE Cardinality(shared[e].begun \ shared[e].done) <= 1
    <3> DEFINE S == shared[e].begun \ shared[e].done
    <3>1. \A i, j \in S : i = j
      BY DEF PluginInv, JournalInv, Open
    <3> HIDE DEF S
    <3>2. S = {} \/ \E i : S = {i}
      BY <3>1
    <3>3. ASSUME NEW i, S = {i} PROVE Cardinality(S) <= 1
      <4>1. Cardinality({i}) = 1
        BY FS_Singleton
      <4> QED BY <3>3, <4>1
    <3>4. ASSUME S = {} PROVE Cardinality(S) <= 1
      <4>1. Cardinality({}) = 0
        BY FS_EmptySet
      <4> QED BY <3>4, <4>1
    <3>5. Cardinality(S) <= 1
      BY <3>2, <3>3, <3>4
    <3> QED BY <3>5 DEF S
  <2>6. \A e \in Epochs, r \in Preps : preps[r].epoch = e => (shared[e].done \cap private[r].begun) \subseteq private[r].done
    BY DEF PluginInv, JournalInv
  <2>7. ASSUME NEW c \in host.ran \cup {host.late[i] : i \in 1 .. Len(host.late)}
        PROVE  c.id \in Ids /\ c.prep \in Preps /\ Announced(c)
    <3>1. CASE c \in host.ran
      BY <2>2, <3>1
    <3>2. ASSUME NEW i \in 1 .. Len(host.late), c = host.late[i]
          PROVE  c.id \in Ids /\ c.prep \in Preps /\ Announced(c)
      BY <2>4, <3>2
    <3> QED BY <2>7, <3>1, <3>2
  <2>8. TypeOK
    BY DEF PluginInv
  <2> QED BY <2>1, <2>4, <2>5, <2>6, <2>7, <2>8 DEF CommandsRecorded
<1> QED BY <1>1, PluginInvariant, PTL

----------------------------------------------------------------------------
(* What is recorded of a refresh                                            *)

\* The steps of a refresh that has a preparation.
Staged == Ready \cup {"publish"}
\* The preparation that a refresh works on is of its build.
StagedOf(p) == procs[p].op = "refresh" /\ procs[p].step \in Staged => preps[procs[p].prep].build = procs[p].build
\* Its record precedes its link.
LinkOf(p) == ~left.overlap /\ procs[p].step = "link" => disk.pin = procs[p].build
RecordInv == RecordSound /\ \A p \in Procs : StagedOf(p) /\ LinkOf(p)

\* What is recorded of what was loaded and bound goes on to be true.
LEMMA RecordStands ==
    ASSUME PluginInv, RecordSound, PrepsStand, host.ran \subseteq host'.ran,
           disk'.pin = disk.pin \/ disk'.pin \notin Builds
    PROVE  /\ disk'.pin \in Builds => \E c \in host'.ran : c.cmd = "load" /\ preps'[c.prep].build = disk'.pin
           /\ disk.current # None => preps'[disk.current].build = preps[disk.current].build
<1>1. ASSUME NEW c \in host.ran PROVE preps'[c.prep].build = preps[c.prep].build
  <2>1. c.prep \in Preps /\ c.id \in private[c.prep].begun
    BY DEF PluginInv, TypeOK, Host, CommandInv, Announced
  <2>2. preps[c.prep].state # "none"
    BY <2>1 DEF PluginInv, PrepInv
  <2> QED BY <2>1, <2>2 DEF PrepsStand
<1>2. disk.current # None => \E c \in host.ran : c.cmd = "load" /\ c.prep = disk.current
  BY DEF PluginInv, RefreshInv, Loaded
<1> QED BY <1>1, <1>2 DEF RecordSound

\* A process that is not between the record and the link moves.
LEMMA RecordMoves ==
    ASSUME PluginInv, RecordInv, NEW p \in Procs, Others(p), PrepsStand, host.ran \subseteq host'.ran,
           disk'.pin = disk.pin, disk'.current = disk.current, left'.cut = left.cut,
           ~left'.overlap => ~left.overlap,
           procs[p].step # "link", procs'[p].step # "link", StagedOf(p)'
    PROVE  RecordInv'
<1>1. ASSUME NEW q \in Procs, q # p PROVE StagedOf(q)' /\ LinkOf(q)'
  <2>1. procs'[q] = procs[q] /\ StagedOf(q) /\ LinkOf(q) /\ ProcInv(q)
    BY <1>1 DEF Others, RecordInv, PluginInv
  <2>2. procs[q].step \in Staged => procs[q].prep \in Preps /\ preps[procs[q].prep].state # "none"
    BY <2>1 DEF Staged, ProcInv
  <2> QED BY <2>1, <2>2 DEF StagedOf, LinkOf, PrepsStand
<1>2. LinkOf(p)'
  BY DEF LinkOf
<1>3. RecordSound'
  <2>1. (\A q \in Procs : procs'[q].step # "link") => \A q \in Procs : procs[q].step # "link"
    BY DEF Others
  <2> QED BY <2>1, RecordStands DEF RecordInv, RecordSound
<1> QED BY <1>1, <1>2, <1>3 DEF RecordInv

\* Outside of a refresh nothing is recorded; the compositor and the journals move alone.
LEMMA CommandsRecord ==
    ASSUME PluginInv, RecordInv, NEW p \in Procs,
           \/ Opens(p) \/ BeginsShared(p) \/ BeginsPrivate(p) \/ Steps(p)
           \/ FinishesPrivate(p) \/ FinishesShared(p)
           \/ \E v \in Verbs, r \in Preps : Operate(p, v, r)
    PROVE  RecordInv'
<1>1. UNCHANGED <<preps, disk>> /\ PrepsStand
  BY DEF Opens, BeginsShared, BeginsPrivate, Steps, FinishesPrivate, FinishesShared, Operate, PrepsStand
<1>2. procs[p] \in Proc /\ left \in Left /\ StagedOf(p)
  BY DEF PluginInv, TypeOK, RecordInv
<1>3. /\ Others(p) /\ procs'[p].step # "link" /\ procs[p].step # "link"
      /\ procs'[p].op # "refresh" \/ procs'[p].step = "idle"
         \/ /\ procs'[p].op = procs[p].op /\ procs'[p].prep = procs[p].prep /\ procs'[p].build = procs[p].build
            /\ procs[p].step \in Staged
      /\ host.ran \subseteq host'.ran /\ left'.cut = left.cut /\ left'.overlap = left.overlap
  <2>1. CASE Steps(p)
    <3>1. PICK x \in Exchange([cmd |-> Asks(procs[p].step), id |-> procs[p].id, prep |-> procs[p].prep]) :
            /\ host' = x.host /\ left' = [left EXCEPT !.losses = @ - x.losses]
            /\ procs' = [procs EXCEPT ![p] = Told(p, x.reply)]
      BY <2>1 DEF Steps
    <3>2. procs[p].step \in Asking
      BY <2>1 DEF Steps
    <3>3. procs'[p] = Told(p, x.reply) /\ Others(p)
      BY <3>1 DEF PluginInv, TypeOK, Others
    <3>4. /\ Told(p, x.reply).step = Leads(Verb(p), procs[p].step, x.reply)
          /\ Told(p, x.reply).op = procs[p].op /\ Told(p, x.reply).prep = procs[p].prep
          /\ Told(p, x.reply).build = procs[p].build /\ Verb(p) \in Verbs
      BY <3>2, ToldIs
    <3>5. Told(p, x.reply).step \in Inside
      BY <3>2, <3>4, LeadsIs DEF Inside, AfterLook
    <3>6. host.ran \subseteq host'.ran
      <4>1. host \in Host
        BY DEF PluginInv, TypeOK
      <4>2. ASSUME NEW c PROVE host.ran \subseteq Applied(host, c).ran /\ host.ran \subseteq [host EXCEPT !.late = Append(@, c)].ran
        BY <4>1 DEF Applied, Host
      <4>3. x.host = host \/ \E c : x.host = Applied(host, c) \/ x.host = [host EXCEPT !.late = Append(@, c)]
        BY DEF Exchange, Given
      <4> QED BY <3>1, <4>2, <4>3
    <3>7. left'.cut = left.cut /\ left'.overlap = left.overlap
      BY <1>2, <3>1 DEF Left
    <3> QED BY <3>2, <3>3, <3>4, <3>5, <3>6, <3>7 DEF Inside, Asking, Commands, Staged, Ready
  <2>2. ASSUME NEW v \in Verbs, NEW r \in Preps, Operate(p, v, r)
        PROVE  /\ Others(p) /\ procs[p].step = "idle" /\ procs'[p].op # "refresh" /\ procs'[p].step = "open"
               /\ host' = host /\ left'.cut = left.cut /\ left'.overlap = left.overlap
    <3>1. procs' = [procs EXCEPT ![p] = [NoProc EXCEPT !.op = v, !.step = "open", !.prep = r]]
          /\ procs[p].step = "idle" /\ host' = host /\ left' = [left EXCEPT !.verbs = @ - 1]
      BY <2>2 DEF Operate
    <3>2. procs'[p] = [NoProc EXCEPT !.op = v, !.step = "open", !.prep = r] /\ Others(p)
      BY <3>1 DEF PluginInv, TypeOK, Others
    <3>3. left'.cut = left.cut /\ left'.overlap = left.overlap
      BY <1>2, <3>1 DEF Left
    <3>4. procs'[p].op = v /\ procs'[p].step = "open"
      BY <3>2 DEF NoProc
    <3>5. v # "refresh"
      BY DEF Verbs
    <3> QED BY <3>1, <3>2, <3>3, <3>4, <3>5
  <2>3. CASE Opens(p) \/ BeginsShared(p) \/ BeginsPrivate(p)
    <3>1. \/ Rests(p) /\ procs[p].step = "open"
          \/ Goes(p, "intent") /\ procs[p].step = "begin"
          \/ Goes(p, "status") /\ procs[p].step = "intent"
          \/ \E id \in Ids : procs' = [procs EXCEPT ![p].step = "begin", ![p].id = id] /\ procs[p].step = "open"
      BY <2>3 DEF Opens, BeginsShared, BeginsPrivate
    <3>2. UNCHANGED <<host, left>>
      BY <2>3 DEF Opens, BeginsShared, BeginsPrivate
    <3> QED BY <1>2, <3>1, <3>2 DEF Goes, Rests, NoProc, Others, PluginInv, TypeOK, Proc, Staged, Ready, Inside
  <2>4. CASE FinishesPrivate(p) \/ FinishesShared(p)
    <3>1. \/ Rests(p) /\ procs[p].step \in {"success", "error", "finish"}
          \/ Goes(p, "finish") /\ procs[p].step \in {"success", "error"}
          \/ Goes(p, "record") /\ procs[p].step = "finish"
      BY <2>4 DEF FinishesPrivate, FinishesShared
    <3>2. UNCHANGED <<host, left>>
      BY <2>4 DEF FinishesPrivate, FinishesShared
    <3> QED BY <1>2, <3>1, <3>2 DEF Goes, Rests, NoProc, Others, PluginInv, TypeOK, Proc, Staged, Ready, Inside
  <2> QED BY <2>1, <2>2, <2>3, <2>4
<1>4. StagedOf(p)'
  BY <1>1, <1>2, <1>3 DEF StagedOf, Staged, Ready, Inside, Asking, Commands
<1> QED BY <1>1, <1>3, <1>4, RecordMoves

\* A refresh up to its operation.
LEMMA RefreshesRecord ==
    ASSUME PluginInv, RecordInv, NEW p \in Procs,
           \/ \E b \in left.builds \cup {None} : Refresh(p, b)
           \/ Checks(p) \/ Copies(p) \/ Stages(p) \/ Prepared(p) \/ Prunes(p)
    PROVE  RecordInv'
<1>1. procs[p] \in Proc /\ left \in Left /\ StagedOf(p) /\ host' = host
  BY DEF PluginInv, TypeOK, RecordInv, Refresh, Checks, Copies, Stages, Prepared, Prunes
<1>2. disk'.pin = disk.pin /\ disk'.current = disk.current
  BY DEF PluginInv, TypeOK, Refresh, Checks, Copies, Stages, Prepared, Prunes
<1>3. left'.cut = left.cut /\ (~left'.overlap => ~left.overlap)
  <2>1. CASE left' = left
    BY <2>1
  <2>2. CASE \E b \in left.builds \cup {None} : Refresh(p, b)
    <3>1. PICK over : over = (left.overlap \/ \E q \in Procs : procs[q].op = "refresh")
      OBVIOUS
    <3>2. left' = [left EXCEPT !.refreshes = @ - 1, !.overlap = over]
      BY <2>2, <3>1 DEF Refresh
    <3>3. ~over => ~left.overlap
      BY <3>1
    <3> QED BY <1>1, <3>2, <3>3 DEF Left
  <2> QED BY <2>1, <2>2 DEF Checks, Copies, Stages, Prepared, Prunes
<1>4. PrepsStand
  <2>1. CASE Stages(p)
    <3>1. \E r \in Preps : preps[r].state = "none" /\ \A q \in Preps : q # r => preps'[q] = preps[q]
      BY <2>1 DEF Stages, PluginInv, TypeOK
    <3> QED BY <3>1 DEF PrepsStand
  <2>2. CASE Prepared(p)
    <3>1. procs[p].prep \in Preps
      BY <2>2 DEF Prepared, PluginInv, ProcInv
    <3>2. preps[procs[p].prep] \in Prep
      BY <3>1 DEF PluginInv, TypeOK
    <3>3. \/ preps' = preps
          \/ preps[procs[p].prep].state = "partial" /\ preps' = [preps EXCEPT ![procs[p].prep].state = "published"]
      BY <2>2 DEF Prepared
    <3> QED BY <3>1, <3>2, <3>3 DEF PrepsStand, PluginInv, TypeOK, Prep
  <2>3. CASE Prunes(p)
    <3>1. \A r \in Preps : preps[r] \in Prep /\ preps'[r] = IF r \in Pruned(procs[p].prep) THEN [preps[r] EXCEPT !.state = "removed"] ELSE preps[r]
      BY <2>3 DEF Prunes, PluginInv, TypeOK
    <3> QED BY <3>1 DEF PrepsStand, Prep
  <2> QED BY <2>1, <2>2, <2>3 DEF PrepsStand, Refresh, Checks, Copies
<1>5. Others(p) /\ procs[p].step # "link" /\ procs'[p].step # "link" /\ StagedOf(p)'
  <2>1. ASSUME procs'[p] = NoProc PROVE procs'[p].step # "link" /\ StagedOf(p)'
    BY <2>1, OwnerAssumption DEF NoProc, StagedOf
  <2>2. CASE \E b \in left.builds \cup {None} : Refresh(p, b)
    <3>1. PICK b \in left.builds \cup {None} : Refresh(p, b)
      BY <2>2
    <3>2. PICK pr : pr = [NoProc EXCEPT !.op = "refresh", !.step = "check", !.build = b, !.supplied = b # None]
      OBVIOUS
    <3>3. procs' = [procs EXCEPT ![p] = pr] /\ procs[p].step = "idle"
      BY <3>1, <3>2 DEF Refresh
    <3>4. pr.step = "check"
      BY <3>2 DEF NoProc
    <3> QED BY <3>3, <3>4 DEF Others, PluginInv, TypeOK, StagedOf, Staged, Ready, Inside, Asking, Commands
  <2>3. CASE Checks(p)
    <3>1. Rests(p) \/ \E b : procs' = [procs EXCEPT ![p].step = "copy", ![p].build = b]
      BY <2>3 DEF Checks
    <3>2. procs[p].step = "check"
      BY <2>3 DEF Checks
    <3>3. CASE Rests(p)
      BY <2>1, <3>2, <3>3 DEF Rests, Others, PluginInv, TypeOK
    <3>4. ASSUME NEW b, procs' = [procs EXCEPT ![p].step = "copy", ![p].build = b]
          PROVE  Others(p) /\ procs'[p].step = "copy"
      BY <1>1, <3>4 DEF Others, PluginInv, TypeOK, Proc
    <3> QED BY <3>1, <3>2, <3>3, <3>4 DEF StagedOf, Staged, Ready, Inside, Asking, Commands
  <2>4. CASE Copies(p)
    <3>1. (Rests(p) \/ Goes(p, "stage")) /\ procs[p].step = "copy"
      BY <2>4 DEF Copies
    <3>2. Others(p) /\ (procs'[p] = NoProc \/ procs'[p].step = "stage")
      BY <1>1, <3>1 DEF Others, PluginInv, TypeOK, Rests, Goes, Proc
    <3> QED BY <2>1, <3>1, <3>2 DEF StagedOf, Staged, Ready, Inside, Asking, Commands
  <2>5. CASE Stages(p)
    <3>1. PICK r \in Preps :
            /\ preps' = [preps EXCEPT ![r] = [state |-> "partial", build |-> procs[p].build, epoch |-> host.epoch]]
            /\ procs' = [procs EXCEPT ![p].step = "publish", ![p].prep = r] \/ Rests(p)
      BY <2>5 DEF Stages
    <3>2. preps'[r].build = procs[p].build /\ procs[p].step = "stage"
      BY <2>5, <3>1 DEF Stages, PluginInv, TypeOK
    <3>3. CASE Rests(p)
      BY <2>1, <3>2, <3>3 DEF Rests, Others, PluginInv, TypeOK
    <3>4. CASE procs' = [procs EXCEPT ![p].step = "publish", ![p].prep = r]
      <4>1. Others(p) /\ procs'[p].step = "publish" /\ procs'[p].prep = r /\ procs'[p].build = procs[p].build
        BY <1>1, <3>4 DEF Others, PluginInv, TypeOK, Proc
      <4> QED BY <3>2, <4>1 DEF StagedOf
    <3> QED BY <3>1, <3>3, <3>4
  <2>6. CASE Prepared(p)
    <3>1. (Rests(p) \/ Goes(p, "open")) /\ procs[p].step = "publish"
      BY <2>6 DEF Prepared
    <3>2. Others(p) /\ \/ procs'[p] = NoProc
                       \/ procs'[p].step = "open" /\ procs'[p].op = procs[p].op
                          /\ procs'[p].prep = procs[p].prep /\ procs'[p].build = procs[p].build
      BY <1>1, <3>1 DEF Others, PluginInv, TypeOK, Rests, Goes, Proc
    <3>3. procs[p].prep \in Preps /\ preps[procs[p].prep].state # "none"
      BY <3>1 DEF PluginInv, ProcInv
    <3> QED BY <1>1, <1>4, <2>1, <3>1, <3>2, <3>3 DEF StagedOf, Staged, PrepsStand
  <2>7. CASE Prunes(p)
    <3>1. Rests(p) /\ procs[p].step = "prune"
      BY <2>7 DEF Prunes
    <3> QED BY <2>1, <3>1 DEF Rests, Others, PluginInv, TypeOK
  <2> QED BY <2>2, <2>3, <2>4, <2>5, <2>6, <2>7
<1> QED BY <1>1, <1>2, <1>3, <1>4, <1>5, RecordMoves

\* The record and the link themselves, and a death between them.
LEMMA RecordsRecord ==
    ASSUME PluginInv, RecordInv, NEW p \in Procs, Records(p) \/ Links(p) \/ Killed(p)
    PROVE  RecordInv'
<1> DEFINE pr == procs[p]
<1>1. pr \in Proc /\ left \in Left /\ StagedOf(p) /\ LinkOf(p) /\ ProcInv(p) /\ Pursued(p)
  BY DEF PluginInv, TypeOK, RecordInv, RefreshInv
<1>2. UNCHANGED <<host, preps>> /\ PrepsStand
  BY DEF Records, Links, Killed, PrepsStand
<1>3. left'.overlap = left.overlap
  <2>1. \E kills, cut : left' = [left EXCEPT !.kills = kills, !.cut = cut] \/ left' = [left EXCEPT !.cut = cut] \/ left' = left
    BY DEF Records, Links, Killed
  <2> QED BY <1>1, <2>1 DEF Left
<1>4. Others(p) /\ \/ procs'[p] = NoProc
                   \/ procs'[p].step \in {"link", "prune"} /\ procs'[p].op = pr.op
                      /\ procs'[p].prep = pr.prep /\ procs'[p].build = pr.build /\ pr.step \in {"record", "link"}
  <2>1. Rests(p) \/ (pr.step \in {"record", "link"} /\ (Goes(p, "link") \/ Goes(p, "prune")))
    BY DEF Records, Links, Killed
  <2> QED BY <1>1, <2>1 DEF Others, PluginInv, TypeOK, Rests, Goes, Proc
<1>5. \A q \in Procs : StagedOf(q)'
  <2>1. StagedOf(p)'
    BY <1>1, <1>2, <1>4, OwnerAssumption DEF StagedOf, NoProc, Staged, Ready
  <2> QED BY <1>2, <1>4, <2>1 DEF StagedOf, Others, RecordInv
<1>6. ASSUME ~left.overlap, pr.step \in {"record", "link"}
      PROVE  \A q \in Procs : procs[q].step = "link" => q = p
  <2>1. \A q \in Procs : procs[q].step \in {"record", "link"} => procs[q].op = "refresh"
    BY DEF PluginInv, ProcInv
  <2> QED BY <1>6, <2>1 DEF PluginInv, RefreshInv, AloneInv
<1>7. CASE Records(p)
  <2>1. pr.step = "record" /\ disk'.pin = pr.build /\ disk'.current = disk.current /\ procs'[p].step = "link"
        /\ procs'[p].build = pr.build
    BY <1>1, <1>7 DEF Records, Goes, PluginInv, TypeOK, Proc
  <2>2. \A q \in Procs : LinkOf(q)'
    BY <1>3, <1>4, <1>6, <2>1 DEF LinkOf, Others
  <2>3. pr.op = "refresh" /\ preps[pr.prep].build = pr.build /\ Loaded(pr.prep)
    BY <1>1, <2>1 DEF ProcInv, StagedOf, Staged, Ready, Pursued, Linking
  <2>4. RecordSound'
    BY <1>2, <2>1, <2>3 DEF RecordSound, Loaded
  <2> QED BY <1>5, <2>2, <2>4 DEF RecordInv
<1>8. CASE Links(p)
  <2>1. /\ pr.step = "link" /\ disk'.pin = disk.pin /\ disk'.current = pr.prep
        /\ procs'[p].step = "prune"
    BY <1>1, <1>8 DEF Links, Goes, PluginInv, TypeOK, Proc
  <2>2. \A q \in Procs : LinkOf(q)'
    BY <1>3, <1>4, <2>1 DEF LinkOf, Others, RecordInv
  <2>3. preps[pr.prep].build = pr.build
    BY <1>1, <2>1 DEF ProcInv, StagedOf, Staged, Ready
  <2>4. ~left.overlap => disk.pin = pr.build
    BY <1>1, <2>1 DEF LinkOf
  <2>5. RecordSound'
    BY <1>2, <1>3, <2>1, <2>3, <2>4 DEF RecordInv, RecordSound
  <2> QED BY <1>5, <2>2, <2>5 DEF RecordInv
<1>9. CASE Killed(p)
  <2>1. Rests(p) /\ (disk' = disk \/ (pr.step = "record" /\ disk' = [disk EXCEPT !.pin = "torn"]))
    BY <1>9 DEF Killed
  <2>2. procs'[p] = NoProc /\ procs'[p].step = "idle"
    BY <2>1 DEF Rests, NoProc, PluginInv, TypeOK
  <2>3. disk'.current = disk.current /\ (disk' = disk \/ (pr.step = "record" /\ disk'.pin = "torn"))
    BY <2>1 DEF PluginInv, TypeOK
  <2>4. left'.cut <=> left.cut \/ pr.step = "link" \/ disk' # disk
    <3>1. PICK cut : cut = (left.cut \/ procs[p].step = "link" \/ disk' # disk)
      OBVIOUS
    <3>2. PICK kills : kills = left.kills - 1
      OBVIOUS
    <3>3. left' = [left EXCEPT !.kills = kills, !.cut = cut]
      BY <1>9, <3>1, <3>2 DEF Killed
    <3>4. left'.cut = cut
      BY <1>1, <3>3 DEF Left
    <3> QED BY <3>1, <3>4
  <2>5. \A q \in Procs : LinkOf(q)'
    <3>1. ASSUME NEW q \in Procs, ~left.overlap, procs'[q].step = "link" PROVE disk'.pin = procs'[q].build
      <4>1. q # p /\ procs'[q] = procs[q] /\ LinkOf(q)
        BY <1>4, <2>2, <3>1 DEF Others, RecordInv
      <4>2. pr.step # "record"
        BY <1>6, <3>1, <4>1
      <4> QED BY <2>3, <3>1, <4>1, <4>2 DEF LinkOf
    <3> QED BY <1>3, <3>1 DEF LinkOf
  <2>6. RecordSound'
    <3>1. /\ disk'.pin \in Builds => \E c \in host'.ran : c.cmd = "load" /\ preps'[c.prep].build = disk'.pin
          /\ disk.current # None => preps'[disk.current].build = preps[disk.current].build
      BY <1>2, <2>3, RecordStands, OwnerAssumption DEF RecordInv
    <3>2. ASSUME ~left'.cut PROVE disk' = disk /\ ~left.cut /\ pr.step # "link"
      BY <2>4, <3>2
    <3>3. (\A q \in Procs : procs'[q].step # "link") /\ pr.step # "link" => \A q \in Procs : procs[q].step # "link"
      BY <1>4 DEF Others
    <3> QED BY <1>2, <1>3, <3>1, <3>2, <3>3 DEF RecordInv, RecordSound
  <2> QED BY <1>5, <2>5, <2>6 DEF RecordInv
<1> QED BY <1>7, <1>8, <1>9

\* The compositor by itself records nothing.
LEMMA HostRecords ==
    ASSUME PluginInv, RecordInv, LateServed \/ LeaseComes \/ LeaseGoes \/ Restart
    PROVE  RecordInv'
<1>1. UNCHANGED <<preps, disk, procs>> /\ host \in Host /\ left \in Left
  BY DEF LateServed, LeaseComes, LeaseGoes, Restart, PluginInv, TypeOK
<1>2. left'.cut = left.cut /\ left'.overlap = left.overlap
  BY <1>1 DEF LateServed, LeaseComes, LeaseGoes, Restart, Left
<1>3. host.ran \subseteq host'.ran
  <2>1. CASE LateServed
    <3>1. [host EXCEPT !.late = Tail(@)].ran = host.ran /\ DOMAIN [host EXCEPT !.late = Tail(@)] = DOMAIN host
      BY <1>1 DEF Host
    <3>2. PICK h, c : h = [host EXCEPT !.late = Tail(@)] /\ host' = Applied(h, c)
      BY <2>1 DEF LateServed
    <3>3. h.ran = host.ran /\ DOMAIN h = {"epoch", "abi", "loaded", "paused", "lease", "late", "ran"}
      BY <1>1, <3>1, <3>2 DEF Host
    <3> QED BY <3>2, <3>3 DEF Applied
  <2> QED BY <1>1, <2>1 DEF LeaseComes, LeaseGoes, Restart, Host
<1>4. RecordSound' /\ \A p \in Procs : StagedOf(p)' /\ LinkOf(p)'
  BY <1>1, <1>2, <1>3 DEF RecordInv, RecordSound, StagedOf, LinkOf
<1> QED BY <1>4 DEF RecordInv

\* What is recorded is what was loaded and, but for a refresh that was cut or overlapped, what
\* new workers bind (plugin-build.json and `current' in refresh.py).
THEOREM RecordIsSound == Spec => []RecordSound
<1>1. Init => RecordInv
  <2> SUFFICES ASSUME Init PROVE RecordInv
    OBVIOUS
  <2>1. disk.current = None /\ disk.pin = None /\ \A p \in Procs : procs[p] = NoProc
    BY DEF Init
  <2> QED BY <2>1, OwnerAssumption DEF RecordInv, RecordSound, StagedOf, LinkOf, NoProc
<1>2. PluginInv /\ RecordInv /\ [Next]_vars => RecordInv'
  <2> SUFFICES ASSUME PluginInv, RecordInv, [Next]_vars PROVE RecordInv'
    OBVIOUS
  <2>1. CASE UNCHANGED vars
    BY <2>1 DEF vars, RecordInv, RecordSound, StagedOf, LinkOf
  <2>2. CASE LateServed \/ LeaseComes \/ LeaseGoes \/ Restart
    BY <2>2, HostRecords
  <2>3. ASSUME NEW p \in Procs,
               \/ Opens(p) \/ BeginsShared(p) \/ BeginsPrivate(p) \/ Steps(p)
               \/ FinishesPrivate(p) \/ FinishesShared(p)
               \/ \E v \in Verbs, r \in Preps : Operate(p, v, r)
        PROVE  RecordInv'
    BY <2>3, CommandsRecord
  <2>4. ASSUME NEW p \in Procs,
               \/ \E b \in left.builds \cup {None} : Refresh(p, b)
               \/ Checks(p) \/ Copies(p) \/ Stages(p) \/ Prepared(p) \/ Prunes(p)
        PROVE  RecordInv'
    BY <2>4, RefreshesRecord
  <2>5. ASSUME NEW p \in Procs, Records(p) \/ Links(p) \/ Killed(p) PROVE RecordInv'
    BY <2>5, RecordsRecord
  <2> QED BY <2>1, <2>2, <2>3, <2>4, <2>5 DEF Next
<1>3. RecordInv => RecordSound
  BY DEF RecordInv
<1> QED BY <1>1, <1>2, <1>3, PluginInvariant, PTL DEF Spec

\* What is loaded, bound, recorded and unloaded fits the instance and the sessions that rest
\* on it, although each is decided by an earlier look (plugin_owner.py, refresh.py).
THEOREM PluginIsSound == Spec => []PluginSound
<1>1. PluginInv /\ RecordSound => PluginSound
  <2> SUFFICES ASSUME PluginInv, RecordSound PROVE PluginSound
    OBVIOUS
  <2>1. UnloadQuiet
    BY DEF UnloadQuiet, PluginInv, LoadInv
  <2>2. CurrentSound
    BY DEF CurrentSound, PluginInv, LoadInv, RefreshInv, AloneInv, Loaded
  <2> QED BY <2>1, <2>2 DEF PluginSound
<1> QED BY <1>1, PluginInvariant, RecordIsSound, PTL

----------------------------------------------------------------------------
(* Actions on references                                                    *)

\* What the worker is about at each step.
WorkerInv ==
    /\ worker.step \in {"target", "tree", "after"} => worker.op \in {"observe", "prepare", "send"}
    /\ worker.step \in {"place", "prepares"} => worker.op = "prepare"
    /\ worker.step \in {"dispatch", "sends"} => worker.op = "send"
    /\ worker.step = "retire" => worker.op = "pause"
    /\ worker.step # "idle" /\ worker.op = "observe" =>
          (worker.step = "after" <=> worker.ref # Null)
    /\ worker.step # "idle" /\ worker.op \in {"prepare", "send"} =>
          worker.tok \in Tokens /\ worker.ref \in Refs /\ story.shown[worker.ref] # Null
    /\ worker.step # "idle" /\ worker.op = "prepare" =>
          /\ entries[worker.tok].state = IF worker.step = "prepares" THEN "live" ELSE "none"
          /\ told[worker.tok] = {}
          /\ worker.step = "prepares" => ~Click(worker.tok)
    /\ worker.step # "idle" /\ worker.op = "send" =>
          /\ entries[worker.tok].state = "consumed" /\ entries[worker.tok].result = "unknown"
          /\ worker.ref = entries[worker.tok].ref

\* A request that has an effect is on the wire.
Asked(t) == \E i \in DOMAIN wire : wire[i].tok = t /\ wire[i].cmd \in {"send", "click"}
\* Nothing has been sent of a token.
Quiet(t) == story.effects[t] = 0 /\ ~Asked(t) /\ plugin[t].mail = Null /\ plugin[t].stage # "sent"
\* Nothing will come of a token, unless it is sent now.
Never(t) ==
    \/ Quiet(t)
    \/ ~Click(t) /\ plugin[t].stage = "done" /\ story.effects[t] = 0 /\ plugin[t].mail = Null

\* What the compositor has of a token.
EffectInv(t) ==
    /\ story.effects[t] <= 1
    /\ \A i, j \in DOMAIN wire :
          wire[i].tok = t /\ wire[j].tok = t /\ {wire[i].cmd, wire[j].cmd} \subseteq {"send", "click"} => i = j
    /\ \A i \in DOMAIN wire : wire[i].tok = t => (wire[i].cmd = "click" <=> Click(t))
    /\ Click(t) => /\ plugin[t].stage = "none" /\ plugin[t].mail = Null
                   /\ Asked(t) => story.effects[t] = 0
    /\ ~Click(t) /\ plugin[t].stage \in {"none", "preparing", "ready"} =>
          plugin[t].mail = Null /\ story.effects[t] = 0
    /\ plugin[t].mail = "out" => story.effects[t] = 0
    /\ plugin[t].stage = "done" /\ plugin[t].delivery = "not-delivered" =>
          plugin[t].mail = Null /\ story.effects[t] = 0
    /\ plugin[t].stage = "done" /\ plugin[t].delivery = "delivered" => story.effects[t] = 1

\* What the worker and the broker believe of a token.
Refused(t) == told[t] \cap {"not-delivered", "cancelled", "failed"} # {}
TokenInv(t) ==
    /\ EffectInv(t)
    /\ entries[t].state \in {"none", "live"} => Quiet(t) /\ entries[t].result = "unknown"
    /\ entries[t].state = "consumed" /\ entries[t].result = "not-delivered" => Never(t)
    /\ entries[t].state = "consumed" /\ entries[t].result = "delivered" => story.effects[t] = 1
    /\ Refused(t) => Never(t) /\ entries[t].state # "live" /\ (worker.tok = t => worker.step \in {"idle", "retire"})
    /\ "delivered" \in told[t] => story.effects[t] = 1
    /\ entries[t].state # "none" => entries[t].ref \in Refs /\ story.shown[entries[t].ref] # Null
    /\ Quiet(t) \/ story.proved[t] = story.shown[entries[t].ref]

\* How far a send is.
SendInv ==
    /\ worker.op = "send" /\ worker.step \in {"target", "tree", "after", "dispatch"} => Quiet(worker.tok)
    /\ worker.step \in {"dispatch", "sends"} => story.proved[worker.tok] = story.shown[worker.ref]
    /\ worker.step = "sends" /\ worker.answer = "not-delivered" => Never(worker.tok)
    /\ worker.step = "sends" /\ worker.answer \in {"delivered", "ok"} => story.effects[worker.tok] = 1
    /\ worker.step = "sends" /\ worker.answer = "sent" => ~Click(worker.tok)
HeardInv ==
    /\ \A i \in DOMAIN wire : wire[i].heard =>
          wire[i].tok = worker.tok /\ worker.step \in {"prepares", "sends"} /\ worker.answer = Null
    /\ \A i, j \in DOMAIN wire : wire[i].heard /\ wire[j].heard => i = j

\* What was published first goes with a reference for ever.
SnapInv ==
    \A r \in Refs : /\ helper.snaps[r] # Null \/ story.shown[r] # Null => story.published[r]
                    /\ helper.snaps[r] # Null /\ story.shown[r] # Null => helper.snaps[r].inc = story.shown[r]
New(r, inc) ==
    /\ story.published[r] /\ story.shown[r] = Null
    /\ helper.snaps[r] # Null => helper.snaps[r].inc = inc
JobInv ==
    /\ helper.job # Null =>
          /\ worker.step = "tree"
          /\ worker.ref # Null => /\ helper.job.ref = worker.ref
                                  /\ helper.job.phase = "found" \/ helper.job.reply = "ok" =>
                                        helper.job.inc = story.shown[worker.ref]
          /\ worker.ref = Null =>
                /\ helper.job.phase # "done" => helper.job.ref = Null /\ \E r \in Refs : ~story.published[r]
                /\ helper.job.reply = "ok" => helper.job.ref \in Refs /\ New(helper.job.ref, helper.job.inc)
          /\ helper.job.phase # "done" => helper.job.reply = Null
    /\ worker.step = "target" /\ worker.op = "observe" => \E r \in Refs : ~story.published[r]
    /\ worker.step = "after" => IF worker.op = "observe" THEN New(worker.ref, worker.inc)
                                ELSE worker.inc = story.shown[worker.ref]

\* One helper, or one that waits to be reaped.
ProcessInv ==
    /\ story.running \subseteq {parent.child} \ {Null}
    /\ story.retired => story.running = {} /\ worker.step \in {"idle", "retire"}

SemanticInv ==
    /\ SemanticTypeOK /\ WorkerInv /\ (\A t \in Tokens : TokenInv(t)) /\ SendInv /\ HeardInv
    /\ SnapInv /\ JobInv /\ ProcessInv

----------------------------------------------------------------------------
(* What is on the wire                                                      *)

\* The wire has grown by requests that have no effect.
Grows ==
    /\ wire' \in Seq(Message) /\ Len(wire') >= Len(wire)
    /\ \A i \in 1 .. Len(wire) : wire'[i] = wire[i]
    /\ \A i \in 1 .. Len(wire') : i > Len(wire) => wire'[i].cmd \notin {"send", "click"} /\ ~Click(wire'[i].tok)
\* Nobody waits for what was added.
Quietly == \A i \in 1 .. Len(wire') : i > Len(wire) => ~wire'[i].heard

\* A sequence of a finite set holds its elements (SetToSeq).
LEMMA InOrder == ASSUME NEW T, IsFiniteSet(T), NEW i \in 1 .. Cardinality(T) PROVE SetToSeq(T)[i] \in T
<1> DEFINE n == Cardinality(T)
<1>1. n \in Nat /\ ExistsBijection(1 .. n, T)
  BY FS_CardinalityType
<1>2. PICK f : f \in Bijection(1 .. n, T)
  BY <1>1 DEF ExistsBijection
<1>3. f \in [1 .. n -> T] /\ \A a, b \in DOMAIN f : f[a] = f[b] => a = b
  BY <1>2 DEF Bijection, Injection, IsInjective
<1>4. SetToSeq(T) \in [1 .. n -> T]
  BY <1>3 DEF SetToSeq, IsInjective
<1> QED BY <1>4

\* Cancelling some tokens adds what nobody waits for (Unheard).
LEMMA CancelGrows ==
    ASSUME SemanticInv, NEW T \in SUBSET {t \in Tokens : ~Click(t)}, wire' = Unheard("cancel", T)
    PROVE  Grows /\ Quietly
<1> DEFINE n == Cardinality(T)
           more == [i \in 1 .. n |-> [cmd |-> "cancel", tok |-> SetToSeq(T)[i], heard |-> FALSE]]
<1>1. IsFiniteSet(T)
  BY SemanticAssumption, FS_Subset
<1>2. n \in Nat
  BY <1>1, FS_CardinalityType
<1>3. \A i \in 1 .. n : SetToSeq(T)[i] \in T
  BY <1>1, InOrder
<1>4. \A i \in 1 .. n : more[i] \in Message /\ more[i].cmd = "cancel" /\ more[i].tok \in T /\ ~more[i].heard
  BY <1>3 DEF Message
<1>5. more \in Seq(Message) /\ Len(more) = n
  BY <1>2, <1>4
<1>6. wire \in Seq(Message)
  BY DEF SemanticInv, SemanticTypeOK
<1>7. wire' = wire \o more
  BY DEF Unheard
<1> HIDE DEF more, n
<1>8. wire' \in Seq(Message) /\ Len(wire') = Len(wire) + n
  BY <1>2, <1>5, <1>6, <1>7, ConcatProperties
<1>9. \A i \in 1 .. Len(wire) : wire'[i] = wire[i]
  BY <1>5, <1>6, <1>7, ConcatProperties
<1>10. ASSUME NEW i \in 1 .. Len(wire'), i > Len(wire) PROVE wire'[i] = more[i - Len(wire)] /\ i - Len(wire) \in 1 .. n
  BY <1>2, <1>5, <1>6, <1>7, <1>8, <1>10, ConcatProperties
<1>11. Len(wire) \in Nat
  BY <1>6
<1>12. ASSUME NEW i \in 1 .. Len(wire'), i > Len(wire)
       PROVE  wire'[i].cmd = "cancel" /\ wire'[i].tok \in T /\ ~wire'[i].heard
  BY <1>4, <1>10, <1>12
<1>13. \A t \in T : ~Click(t)
  OBVIOUS
<1>14. Len(wire') >= Len(wire)
  BY <1>2, <1>8, <1>11
<1> QED BY <1>8, <1>9, <1>12, <1>13, <1>14 DEF Grows, Quietly

\* A wire that stays has grown by nothing.
LEMMA StaysGrows == ASSUME SemanticInv, UNCHANGED wire PROVE Grows /\ Quietly
<1>1. wire \in Seq(Message)
  BY DEF SemanticInv, SemanticTypeOK
<1> QED BY <1>1 DEF Grows, Quietly

\* What is known of the tokens does not depend on requests that have no effect.
LEMMA GrownIsSame ==
    ASSUME SemanticInv, Grows, UNCHANGED plugin, story'.effects = story.effects, story'.kind = story.kind
    PROVE  \A t \in Tokens : EffectInv(t)' /\ (Quiet(t)' <=> Quiet(t)) /\ (Never(t)' <=> Never(t))
<1> SUFFICES ASSUME NEW t \in Tokens
             PROVE  EffectInv(t)' /\ (Quiet(t)' <=> Quiet(t)) /\ (Never(t)' <=> Never(t))
  OBVIOUS
<1>1. wire \in Seq(Message) /\ wire' \in Seq(Message)
  BY DEF SemanticInv, SemanticTypeOK, Grows
<1>2. DOMAIN wire = 1 .. Len(wire) /\ DOMAIN wire' = 1 .. Len(wire') /\ Len(wire) \in Nat /\ Len(wire') \in Nat
  BY <1>1
<1>3. \A i \in DOMAIN wire : i \in DOMAIN wire' /\ wire'[i] = wire[i]
  BY <1>2 DEF Grows
<1>4. \A i \in DOMAIN wire' : i \in DOMAIN wire \/ (wire'[i].cmd \notin {"send", "click"} /\ ~Click(wire'[i].tok))
  BY <1>2 DEF Grows
<1>5. Click(t)' <=> Click(t)
  BY DEF Click
<1>6. Asked(t)' <=> Asked(t)
  BY <1>3, <1>4 DEF Asked
<1>7. EffectInv(t)
  BY DEF SemanticInv, TokenInv
<1>8. \A i, j \in DOMAIN wire' :
          wire'[i].tok = t /\ wire'[j].tok = t /\ {wire'[i].cmd, wire'[j].cmd} \subseteq {"send", "click"} => i = j
  BY <1>3, <1>4, <1>7 DEF EffectInv
<1>9. \A i \in DOMAIN wire' : wire'[i].tok = t => (wire'[i].cmd = "click" <=> Click(t))
  BY <1>3, <1>4, <1>7 DEF EffectInv
<1>10. EffectInv(t)'
  BY <1>5, <1>6, <1>7, <1>8, <1>9 DEF EffectInv
<1> QED BY <1>5, <1>6, <1>10 DEF Quiet, Never

----------------------------------------------------------------------------
(* The application and the helper                                           *)

\* What the application and the helper do by themselves changes nothing for the tokens.
LEMMA AwayStands ==
    ASSUME SemanticInv, UNCHANGED <<entries, worker, plugin, wire, told>>,
           story'.kind = story.kind, story'.effects = story.effects, story'.shown = story.shown,
           story'.proved = story.proved
    PROVE  WorkerInv' /\ (\A t \in Tokens : TokenInv(t)') /\ SendInv' /\ HeardInv'
<1> USE DEF SemanticInv
<1>1. \A t \in Tokens : Click(t)' <=> Click(t)
  BY DEF Click
<1>2. WorkerInv'
  BY <1>1 DEF WorkerInv
<1>3. \A t : (Quiet(t)' <=> Quiet(t)) /\ (Asked(t)' <=> Asked(t)) /\ (Click(t)' <=> Click(t))
  BY DEF Quiet, Asked, Click
<1>4. \A t : Never(t)' <=> Never(t)
  BY <1>3 DEF Never
<1>5. \A t \in Tokens : TokenInv(t)'
  BY <1>3, <1>4 DEF TokenInv, EffectInv, Refused
<1>6. SendInv'
  BY <1>3, <1>4 DEF SendInv
<1>7. HeardInv'
  BY DEF HeardInv
<1> QED BY <1>2, <1>5, <1>6, <1>7

\* The application changes, moves, or closes its window.
LEMMA AppActsStep == ASSUME SemanticInv, AppActs PROVE SemanticInv'
<1> USE DEF SemanticInv
<1>1. story \in Story /\ app \in App
  BY DEF SemanticTypeOK
<1>2. story' \in Story /\ story'.kind = story.kind /\ story'.effects = story.effects
      /\ story'.shown = story.shown /\ story'.proved = story.proved
      /\ story'.published = story.published /\ story'.running = story.running /\ story'.retired = story.retired
  BY <1>1 DEF AppActs, Story
<1>3. app' \in App
  <2>1. \A a \in App : Emits(a) \in App
    BY DEF App, Emits
  <2>2. /\ [app EXCEPT !.inc = @ + 1] \in App /\ [app EXCEPT !.inc = @ + 1, !.owner = @ + 1] \in App
        /\ [app EXCEPT !.place = 1 - @] \in App /\ [app EXCEPT !.title = 1 - @] \in App
        /\ [app EXCEPT !.open = FALSE] \in App
    <3>1. app.inc + 1 \in Nat /\ app.owner + 1 \in Nat /\ 1 - app.place \in 0 .. 1 /\ 1 - app.title \in 0 .. 1
      BY <1>1 DEF App
    <3>2. [app EXCEPT !.inc = @ + 1] \in App /\ [app EXCEPT !.inc = @ + 1, !.owner = @ + 1] \in App
      BY <1>1, <3>1 DEF App
    <3>3. [app EXCEPT !.place = 1 - @] \in App /\ [app EXCEPT !.title = 1 - @] \in App
      BY <1>1, <3>1 DEF App
    <3>4. [app EXCEPT !.open = FALSE] \in App
      BY <1>1 DEF App
    <3> QED BY <3>2, <3>3, <3>4
  <2>3. \/ app' \in {Emits(app), Emits([app EXCEPT !.inc = @ + 1]), Emits([app EXCEPT !.inc = @ + 1, !.owner = @ + 1])}
        \/ app' \in {[app EXCEPT !.place = 1 - @], [app EXCEPT !.title = 1 - @], [app EXCEPT !.open = FALSE]}
    BY DEF AppActs
  <2> QED BY <1>1, <2>1, <2>2, <2>3
<1>4. UNCHANGED <<helper, parent, entries, worker, plugin, wire, told>>
  BY DEF AppActs
<1>5. SemanticTypeOK'
  BY <1>2, <1>3, <1>4 DEF SemanticTypeOK
<1>6. SnapInv' /\ JobInv' /\ ProcessInv'
  BY <1>2, <1>4 DEF SnapInv, JobInv, New, ProcessInv
<1> QED BY <1>2, <1>4, <1>5, <1>6, AwayStands

\* What has been heard of leaves the snapshots where they are (pump).
LEMMA PumpedKeeps ==
    ASSUME SemanticInv, NEW n \in 0 .. 2
    PROVE  /\ Pumped(helper, n) \in Helper
           /\ Pumped(helper, n).job = helper.job /\ Pumped(helper, n).up = helper.up
           /\ \A r \in Refs : /\ Pumped(helper, n).snaps[r] = Null <=> helper.snaps[r] = Null
                              /\ Pumped(helper, n).snaps[r].inc = helper.snaps[r].inc
<1>1. helper \in Helper /\ helper.snaps \in [Refs -> Snap \cup {Null}]
  BY DEF SemanticInv, SemanticTypeOK, Helper
<1> DEFINE snaps == [r \in Refs |-> IF helper.snaps[r] = Null THEN Null ELSE [helper.snaps[r] EXCEPT !.fresh = FALSE]]
<1>2. ASSUME NEW r \in Refs, helper.snaps[r] # Null
      PROVE  snaps[r] \in Snap /\ snaps[r].inc = helper.snaps[r].inc /\ snaps[r] # Null
  <2>1. helper.snaps[r] \in Snap
    BY <1>1, <1>2
  <2>2. [helper.snaps[r] EXCEPT !.fresh = FALSE] \in Snap
    BY <2>1 DEF Snap
  <2> QED BY <1>2, <2>1, <2>2, SemanticAssumption DEF Snap
<1>3. snaps \in [Refs -> Snap \cup {Null}]
  BY <1>2
<1>4. \A r \in Refs : helper.snaps[r] = Null => snaps[r] = Null
  OBVIOUS
<1> HIDE DEF snaps
<1>5. CASE n = 0
  BY <1>1, <1>5 DEF Pumped
<1>6. CASE n # 0
  <2>1. Pumped(helper, n) = [helper EXCEPT !.changed = TRUE, !.snaps = snaps]
    <3>1. [r \in Refs |-> IF helper.snaps[r] = Null THEN Null ELSE [helper.snaps[r] EXCEPT !.fresh = FALSE]] = snaps
      BY DEF snaps
    <3> QED BY <1>1, <1>6, <3>1 DEF Pumped, Helper
  <2> QED BY <1>1, <1>2, <1>3, <1>4, <2>1 DEF Helper
<1> QED BY <1>5, <1>6

\* The helper finds the widget that a reference names only if it is the one that was published (observe, resolve).
LEMMA HelperLooksStep == ASSUME SemanticInv, HelperLooks PROVE SemanticInv'
<1> USE DEF SemanticInv
<1>1. app \in App /\ helper \in Helper /\ worker \in Worker
  BY DEF SemanticTypeOK
<1>2. PICK n \in 0 .. app.news : /\ app' = [app EXCEPT !.news = @ - n]
                                 /\ helper' = Looked([Pumped(helper, n) EXCEPT !.changed = FALSE])
  BY DEF HelperLooks
<1>3. n \in 0 .. 2
  BY <1>1 DEF App
<1> DEFINE h == [Pumped(helper, n) EXCEPT !.changed = FALSE]
           r == helper.job.ref
<1>4. /\ h \in Helper /\ h.job = helper.job /\ h.up = helper.up
      /\ \A s \in Refs : (h.snaps[s] = Null <=> helper.snaps[s] = Null) /\ h.snaps[s].inc = helper.snaps[s].inc
  BY <1>3, PumpedKeeps DEF Helper
<1>5. helper' = Looked(h)
  BY <1>2
<1> HIDE DEF h
<1>6. helper.job \in Job /\ helper.job # Null /\ helper.job.phase = "asked" /\ worker.step = "tree"
  BY <1>1 DEF HelperLooks, Helper, JobInv
<1>7. UNCHANGED <<parent, entries, worker, plugin, wire, told, story>>
  BY DEF HelperLooks
<1>8. app' \in App
  BY <1>1, <1>2, <1>3 DEF App
<1>9. worker.ref = Null => r = Null
  BY <1>6 DEF JobInv
<1>10. worker.ref # Null => r = worker.ref /\ r \in Refs /\ story.shown[r] # Null
  BY <1>1, <1>6 DEF JobInv, WorkerInv, Worker
<1>11. CASE r = Null \/ (h.snaps[r] # Null /\ Resolvable(h.snaps[r]))
  <2> DEFINE j == [h.job EXCEPT !.phase = "found", !.title = app.title, !.owner = app.owner, !.inc = app.inc]
  <2>1. helper' = [h EXCEPT !.job = j]
    BY <1>4, <1>5, <1>6, <1>11 DEF Looked, Helper, Job
  <2>2. j \in Job /\ j.phase = "found" /\ j.reply = helper.job.reply /\ j.ref = r /\ j.inc = app.inc
    <3>1. app.title \in 0 .. 1 /\ app.owner \in Nat /\ app.inc \in Nat
      BY <1>1 DEF App
    <3>2. h.job \in Job
      BY <1>4, <1>6
    <3> QED BY <1>4, <3>1, <3>2 DEF Job
  <2> HIDE DEF j
  <2>3. helper' \in Helper /\ helper'.job = j /\ helper'.snaps = h.snaps
    BY <1>4, <2>1, <2>2 DEF Helper
  <2>4. worker.ref # Null => story.shown[worker.ref] = app.inc
    <3> SUFFICES ASSUME worker.ref # Null PROVE story.shown[worker.ref] = app.inc
      OBVIOUS
    <3>1. r \in Refs /\ h.snaps[r] # Null /\ Resolvable(h.snaps[r])
      BY <1>10, <1>11, SemanticAssumption
    <3>2. h.snaps[r].inc = app.inc
      BY <3>1 DEF Resolvable
    <3> QED BY <1>4, <1>10, <3>1, <3>2 DEF SnapInv
  <2>5. SnapInv'
    BY <1>4, <1>7, <2>3 DEF SnapInv
  <2>6. j # Null /\ helper.job.reply = Null /\ Null # "ok"
    BY <1>6, <2>2, SemanticAssumption DEF JobInv, Replies
  <2>7. JobInv'
    BY <1>6, <1>7, <1>9, <1>10, <2>2, <2>3, <2>4, <2>6 DEF JobInv, New
  <2> QED BY <1>7, <1>8, <2>3, <2>5, <2>7, AwayStands DEF SemanticTypeOK, ProcessInv
<1>12. CASE ~(r = Null \/ (h.snaps[r] # Null /\ Resolvable(h.snaps[r])))
  <2> DEFINE j == [h.job EXCEPT !.phase = "done", !.reply = "ref-error"]
  <2>1. r \in Refs /\ r = worker.ref /\ worker.ref # Null
    BY <1>9, <1>10, <1>12
  <2>a. PICK kept : kept = IF h.snaps[r] # Null /\ h.snaps[r].title # app.title THEN h.snaps[r] ELSE Null
    OBVIOUS
  <2>b. kept \in {h.snaps[r], Null}
    BY <2>a
  <2>2. helper' = [h EXCEPT !.job = j, !.snaps = [h.snaps EXCEPT ![r] = kept]]
    BY <1>4, <1>5, <1>6, <1>12, <2>a DEF Looked, Helper, Job
  <2>3. j \in Job /\ j.phase = "done" /\ j.reply = "ref-error" /\ j.ref = r
    BY <1>4, <1>6 DEF Job
  <2> HIDE DEF j
  <2>4. helper' \in Helper /\ helper'.job = j /\ helper'.snaps = [h.snaps EXCEPT ![r] = kept]
    BY <1>4, <2>1, <2>b, <2>2, <2>3 DEF Helper
  <2>5. SnapInv'
    BY <1>4, <1>7, <2>1, <2>b, <2>4 DEF SnapInv, Helper
  <2>6. JobInv'
    BY <1>6, <1>7, <2>1, <2>3, <2>4 DEF JobInv
  <2> QED BY <1>7, <1>8, <2>4, <2>5, <2>6, AwayStands DEF SemanticTypeOK, ProcessInv
<1> QED BY <1>11, <1>12

\* A walk publishes a reference that nobody has seen; another answer repeats the lifetime that was found.
LEMMA HelperEndsStep == ASSUME SemanticInv, HelperEnds PROVE SemanticInv'
<1> USE DEF SemanticInv
<1>1. app \in App /\ helper \in Helper /\ worker \in Worker /\ story \in Story
  BY SMTT(30) DEF SemanticTypeOK
<1> DEFINE free == {r \in Refs : ~story.published[r]}
           new  == CHOOSE r \in free : TRUE
<1>2. PICK n \in 0 .. app.news :
        LET h == Pumped(helper, n)  j == h.job  walk == j.ref = Null
            sound == ~h.changed /\ (~walk => h.snaps[j.ref] # Null)
        IN
        /\ app' = [app EXCEPT !.news = @ - n]
        /\ helper' = [h EXCEPT
              !.job = [j EXCEPT !.phase = "done",
                                !.reply = IF sound THEN "ok" ELSE IF walk THEN "unavailable" ELSE "ref-error",
                                !.ref = IF sound /\ walk THEN new ELSE @],
              !.snaps = IF sound /\ walk
                        THEN [@ EXCEPT ![new] = [inc |-> j.inc, owner |-> j.owner,
                                                 title |-> j.title, fresh |-> TRUE]]
                        ELSE @]
        /\ story' = IF sound /\ walk THEN [story EXCEPT !.published[new] = TRUE] ELSE story
  BY DEF HelperEnds
<1>3. n \in 0 .. 2
  BY <1>1 DEF App
<1> DEFINE h == Pumped(helper, n)
           j == helper.job
           walk == j.ref = Null
           sound == ~h.changed /\ (~walk => h.snaps[j.ref] # Null)
           snap == [inc |-> j.inc, owner |-> j.owner, title |-> j.title, fresh |-> TRUE]
           k == [j EXCEPT !.phase = "done",
                          !.reply = IF sound THEN "ok" ELSE IF walk THEN "unavailable" ELSE "ref-error",
                          !.ref = IF sound /\ walk THEN new ELSE @]
<1>4. /\ h \in Helper /\ h.job = j
      /\ \A s \in Refs : (h.snaps[s] = Null <=> helper.snaps[s] = Null) /\ h.snaps[s].inc = helper.snaps[s].inc
  BY <1>3, PumpedKeeps
<1>5. j \in Job /\ j # Null /\ j.phase = "found" /\ worker.step = "tree"
  BY <1>1 DEF HelperEnds, Helper, JobInv
<1>6. /\ helper' = [h EXCEPT !.job = k, !.snaps = IF sound /\ walk THEN [h.snaps EXCEPT ![new] = snap] ELSE h.snaps]
      /\ story' = IF sound /\ walk THEN [story EXCEPT !.published = [@ EXCEPT ![new] = TRUE]] ELSE story
  <2> HIDE DEF new, h
  <2>1. story' = IF sound /\ walk THEN [story EXCEPT !.published[new] = TRUE] ELSE story
    BY <1>2, <1>4 DEF h, new
  <2>2. helper' = [h EXCEPT !.job = k, !.snaps = IF sound /\ walk THEN [@ EXCEPT ![new] = snap] ELSE @]
    BY <1>2, <1>4 DEF h, new
  <2>3. h.snaps = h.snaps /\ DOMAIN h = {"up", "changed", "snaps", "job"}
    BY <1>4 DEF Helper
  <2> QED BY <2>1, <2>2, <2>3
<1>7. UNCHANGED <<parent, entries, worker, plugin, wire, told>> /\ app' \in App
  BY <1>1, <1>2, <1>3 DEF HelperEnds, App
<1>8. walk <=> worker.ref = Null
  BY <1>1, <1>5, SemanticAssumption DEF JobInv
<1>9. walk => new \in Refs /\ ~story.published[new] /\ new # Null
  <2>1. ASSUME walk PROVE \E r : r \in free
    BY <1>5, <1>8, <2>1 DEF JobInv
  <2> QED BY <2>1, SemanticAssumption
<1>10. story.published \in [Refs -> BOOLEAN] /\ story.shown \in [Refs -> Nat \cup {Null}]
  BY <1>1 DEF Story
<1>11. snap \in Snap /\ snap.inc = j.inc /\ snap # Null
  <2>1. j.inc \in Nat /\ j.owner \in Nat /\ j.title \in 0 .. 1
    BY <1>5 DEF Job
  <2>2. snap \in Snap
    BY <2>1 DEF Snap
  <2> QED BY <2>2, SemanticAssumption
<1>12. /\ k \in Job /\ k.phase = "done" /\ k.inc = j.inc /\ k # Null
       /\ k.reply = (IF sound THEN "ok" ELSE IF walk THEN "unavailable" ELSE "ref-error")
       /\ k.ref = IF sound /\ walk THEN new ELSE j.ref
  <2> HIDE DEF h, new, free
  <2>1. PICK reply \in {"ok", "unavailable", "ref-error"} :
          reply = IF sound THEN "ok" ELSE IF walk THEN "unavailable" ELSE "ref-error"
    OBVIOUS
  <2>2. PICK ref \in Refs \cup {Null} : ref = IF sound /\ walk THEN new ELSE j.ref
    BY <1>5, <1>9 DEF Job
  <2>3. k = [j EXCEPT !.phase = "done", !.reply = reply, !.ref = ref]
    BY <1>5, <2>1, <2>2 DEF Job
  <2>4. k \in Job /\ k.phase = "done" /\ k.inc = j.inc /\ k.reply = reply /\ k.ref = ref
    BY <1>5, <2>1, <2>2, <2>3 DEF Job
  <2> QED BY <2>1, <2>2, <2>4, SemanticAssumption
<1> HIDE DEF h, k, snap, new, free
<1>13. CASE sound /\ walk
  <2>1. helper' = [h EXCEPT !.job = k, !.snaps = [h.snaps EXCEPT ![new] = snap]]
    BY <1>6, <1>13
  <2>2. helper' \in Helper /\ helper'.job = k /\ helper'.snaps = [h.snaps EXCEPT ![new] = snap]
    BY <1>4, <1>9, <1>11, <1>12, <1>13, <2>1 DEF Helper
  <2>3. story' = [story EXCEPT !.published = [@ EXCEPT ![new] = TRUE]]
    BY <1>6, <1>13
  <2>4. /\ story' \in Story /\ story'.published = [story.published EXCEPT ![new] = TRUE]
        /\ story'.kind = story.kind /\ story'.effects = story.effects /\ story'.shown = story.shown
        /\ story'.proved = story.proved /\ story'.running = story.running /\ story'.retired = story.retired
    BY <1>1, <1>9, <1>10, <1>13, <2>3 DEF Story
  <2>5. story.shown[new] = Null
    BY <1>9, <1>13 DEF SnapInv
  <2>6. SnapInv'
    BY <1>4, <1>9, <1>10, <1>13, <2>2, <2>4, <2>5 DEF SnapInv, Helper
  <2>7. helper'.snaps[new].inc = k.inc
    BY <1>4, <1>9, <1>11, <1>12, <1>13, <2>2 DEF Helper
  <2>8. JobInv'
    BY <1>5, <1>7, <1>8, <1>9, <1>10, <1>12, <1>13, <2>2, <2>4, <2>5, <2>7 DEF JobInv, New
  <2> QED BY <1>7, <2>2, <2>4, <2>6, <2>8, AwayStands DEF SemanticTypeOK, ProcessInv
<1>14. CASE ~(sound /\ walk)
  <2>1. helper' = [h EXCEPT !.job = k, !.snaps = h.snaps] /\ story' = story
    BY <1>6, <1>14
  <2>2. helper' \in Helper /\ helper'.job = k /\ helper'.snaps = h.snaps
    BY <1>4, <1>12, <2>1 DEF Helper
  <2>3. SnapInv'
    BY <1>4, <2>1, <2>2 DEF SnapInv
  <2>4. JobInv'
    BY <1>5, <1>7, <1>8, <1>12, <1>14, <2>1, <2>2 DEF JobInv
  <2> QED BY <1>7, <2>1, <2>2, <2>3, <2>4, AwayStands DEF SemanticTypeOK, ProcessInv
<1> QED BY <1>13, <1>14

\* A snapshot is forgotten (SnapshotStore).
LEMMA SnapshotExpiresStep == ASSUME SemanticInv, NEW r \in Refs, SnapshotExpires(r) PROVE SemanticInv'
<1> USE DEF SemanticInv
<1>1. helper \in Helper /\ story \in Story
  BY DEF SemanticTypeOK
<1>2. helper' \in Helper /\ helper'.job = helper.job /\ helper'.snaps = [helper.snaps EXCEPT ![r] = Null]
  BY <1>1 DEF SnapshotExpires, Helper
<1>3. /\ story' \in Story /\ story'.published = story.published
      /\ story'.kind = story.kind /\ story'.effects = story.effects /\ story'.shown = story.shown
      /\ story'.proved = story.proved /\ story'.running = story.running /\ story'.retired = story.retired
  BY <1>1 DEF SnapshotExpires, Story
<1>4. UNCHANGED <<app, parent, entries, worker, plugin, wire, told>>
  BY DEF SnapshotExpires
<1>5. \A s \in Refs : helper'.snaps[s] # Null => helper.snaps[s] # Null /\ helper'.snaps[s] = helper.snaps[s]
  BY <1>1, <1>2 DEF Helper
<1>6. SnapInv'
  BY <1>3, <1>5 DEF SnapInv
<1>7. \A s \in Refs : \A inc : New(s, inc) => New(s, inc)'
  BY <1>3, <1>5 DEF New
<1>8. worker.step = "after" /\ worker.op = "observe" => worker.ref \in Refs
  BY DEF WorkerInv, SemanticTypeOK, Worker
<1>9. JobInv'
  BY <1>2, <1>3, <1>4, <1>7, <1>8 DEF JobInv
<1> QED BY <1>2, <1>3, <1>4, <1>6, <1>9, AwayStands DEF SemanticTypeOK, ProcessInv

\* The helper's process is gone, and no longer runs.
LEMMA HelperDiesStep == ASSUME SemanticInv, HelperDies PROVE SemanticInv'
<1> USE DEF SemanticInv
<1>1. helper \in Helper /\ story \in Story
  BY DEF SemanticTypeOK
<1>2. helper' \in Helper /\ helper'.job = helper.job /\ helper'.snaps = helper.snaps
  BY <1>1 DEF HelperDies, Helper
<1>3. /\ story' \in Story /\ story'.published = story.published
      /\ story'.kind = story.kind /\ story'.effects = story.effects /\ story'.shown = story.shown
      /\ story'.proved = story.proved /\ story'.running \subseteq story.running /\ story'.retired = story.retired
  <2>1. story' = [story EXCEPT !.deaths = @ - 1, !.running = @ \ {parent.child}] /\ story.deaths > 0
    BY DEF HelperDies
  <2>2. story.deaths - 1 \in Nat /\ story.running \ {parent.child} \in SUBSET Nat
    BY <1>1, <2>1 DEF Story
  <2> QED BY <1>1, <2>1, <2>2 DEF Story
<1>4. UNCHANGED <<app, parent, entries, worker, plugin, wire, told>>
  BY DEF HelperDies
<1>5. SnapInv' /\ JobInv' /\ ProcessInv'
  BY <1>2, <1>3, <1>4 DEF SnapInv, JobInv, New, ProcessInv
<1> QED BY <1>2, <1>3, <1>4, <1>5, AwayStands DEF SemanticTypeOK

----------------------------------------------------------------------------
(* The plugin                                                               *)

\* What does not touch the helper or the place of the worker leaves the references alone.
LEMMA RefsStand ==
    ASSUME SemanticInv, UNCHANGED <<helper, parent>>,
           worker'.step = worker.step, worker'.op = worker.op, worker'.ref = worker.ref, worker'.inc = worker.inc,
           story'.published = story.published, story'.shown = story.shown,
           story'.running = story.running, story'.retired = story.retired
    PROVE  SnapInv' /\ JobInv' /\ ProcessInv'
<1> USE DEF SemanticInv
<1>1. SnapInv'
  BY DEF SnapInv
<1>2. \A r, inc : New(r, inc)' <=> New(r, inc)
  BY DEF New
<1>3. JobInv'
  BY <1>2 DEF JobInv
<1> QED BY <1>1, <1>3 DEF ProcessInv

\* A step of the plugin that takes nothing back from a token.
LEMMA PluginStands ==
    ASSUME SemanticInv, UNCHANGED <<entries, told>>,
           worker'.step = worker.step, worker'.op = worker.op, worker'.ref = worker.ref, worker'.tok = worker.tok,
           story'.kind = story.kind, story'.shown = story.shown, story'.proved = story.proved,
           \A t \in Tokens : /\ EffectInv(t)' /\ (Quiet(t) => Quiet(t)') /\ (Never(t) => Never(t)')
                             /\ story.effects[t] = 1 => story'.effects[t] = 1
    PROVE  /\ WorkerInv' /\ \A t \in Tokens : TokenInv(t)'
           /\ worker'.answer = worker.answer => SendInv'
<1> USE DEF SemanticInv
<1>1. \A t \in Tokens : Click(t)' <=> Click(t)
  BY DEF Click
<1>2. WorkerInv'
  BY <1>1 DEF WorkerInv
<1>3. \A t \in Tokens : Refused(t)' <=> Refused(t)
  BY DEF Refused
<1>4. ASSUME NEW t \in Tokens PROVE TokenInv(t)'
  <2>1. TokenInv(t)
    OBVIOUS
  <2>2. Quiet(t)' \/ story'.proved[t] = story'.shown[entries'[t].ref]
    BY <2>1 DEF TokenInv
  <2> QED BY <1>3, <2>1, <2>2 DEF TokenInv
<1>5. ASSUME worker'.answer = worker.answer PROVE SendInv'
  <2>1. worker.step \in {"target", "tree", "after", "dispatch", "sends"} /\ worker.op = "send" => worker.tok \in Tokens
    BY DEF WorkerInv
  <2>2. worker.step \in {"dispatch", "sends"} => worker.op = "send"
    BY DEF WorkerInv
  <2> QED BY <1>1, <1>5, <2>1, <2>2 DEF SendInv
<1> QED BY <1>2, <1>4, <1>5

\* The same, for a step about the operation of one token (Operation).
LEMMA OperationStands ==
    ASSUME SemanticInv, NEW t \in Tokens, UNCHANGED <<app, helper, parent, entries, worker, wire, told>>,
           plugin' \in [Tokens -> Operation], story' \in Story,
           \A u \in Tokens : u # t => plugin'[u] = plugin[u] /\ story'.effects[u] = story.effects[u],
           story'.kind = story.kind, story'.shown = story.shown, story'.proved = story.proved,
           story'.published = story.published, story'.running = story.running, story'.retired = story.retired,
           EffectInv(t)', Quiet(t) => Quiet(t)', Never(t) => Never(t)', story.effects[t] = 1 => story'.effects[t] = 1
    PROVE  SemanticInv'
<1> USE DEF SemanticInv
<1>1. ASSUME NEW u \in Tokens, u # t
      PROVE  EffectInv(u)' /\ (Quiet(u) => Quiet(u)') /\ (Never(u) => Never(u)')
  <2>1. EffectInv(u)
    BY DEF TokenInv
  <2>2. (Click(u)' <=> Click(u)) /\ (Asked(u)' <=> Asked(u)) /\ (Quiet(u)' <=> Quiet(u))
    BY <1>1 DEF Click, Asked, Quiet
  <2>3. EffectInv(u)'
    BY <1>1, <2>1, <2>2 DEF EffectInv
  <2> QED BY <1>1, <2>2, <2>3 DEF Never
<1>2. HeardInv'
  BY DEF HeardInv
<1>3. \A u \in Tokens : /\ EffectInv(u)' /\ (Quiet(u) => Quiet(u)') /\ (Never(u) => Never(u)')
                        /\ story.effects[u] = 1 => story'.effects[u] = 1
  BY <1>1
<1>4. WorkerInv' /\ (\A u \in Tokens : TokenInv(u)') /\ SendInv'
  BY <1>3, PluginStands
<1>5. SnapInv' /\ JobInv' /\ ProcessInv'
  BY RefsStand
<1> QED BY <1>2, <1>4, <1>5 DEF SemanticTypeOK

\* The plugin finds the provider of an operation, or gives the operation up, before anything is sent (tick).
LEMMA PluginPreparesStep == ASSUME SemanticInv, NEW t \in Tokens, PluginPrepares(t) PROVE SemanticInv'
<1> USE DEF SemanticInv
<1>1. plugin \in [Tokens -> Operation] /\ EffectInv(t) /\ plugin[t].stage = "preparing"
  BY DEF SemanticTypeOK, TokenInv, PluginPrepares
<1> DEFINE o == IF app.owner = plugin[t].owner THEN [plugin[t] EXCEPT !.stage = "ready"]
                ELSE Settled(plugin[t], "not-delivered")
<1>2. plugin' = [plugin EXCEPT ![t] = o] /\ UNCHANGED <<app, helper, parent, entries, worker, wire, told, story>>
  BY DEF PluginPrepares
<1>3. /\ o \in Operation /\ o.mail = plugin[t].mail
      /\ o.stage = "ready" \/ (o.stage = "done" /\ o.delivery = "not-delivered")
  <2>1. plugin[t] \in Operation
    BY <1>1
  <2> QED BY <2>1 DEF Operation, Settled
<1> HIDE DEF o
<1>4. plugin' \in [Tokens -> Operation] /\ plugin'[t] = o /\ \A u \in Tokens : u # t => plugin'[u] = plugin[u]
  BY <1>1, <1>2, <1>3
<1>5. (Click(t)' <=> Click(t)) /\ (Asked(t)' <=> Asked(t))
  BY <1>2 DEF Click, Asked
<1>6. ~Click(t) /\ plugin[t].mail = Null /\ story.effects[t] = 0
  BY <1>1 DEF EffectInv
<1>7. EffectInv(t)'
  BY <1>1, <1>2, <1>3, <1>4, <1>5, <1>6, SemanticAssumption DEF EffectInv
<1>8. (Quiet(t) => Quiet(t)') /\ (Never(t) => Never(t)')
  BY <1>1, <1>2, <1>3, <1>4, <1>5, <1>6 DEF Quiet, Never
<1>9. story' \in Story
  BY <1>2 DEF SemanticTypeOK
<1> QED BY <1>2, <1>4, <1>7, <1>8, <1>9, OperationStands

\* The deadline of an operation settles it: as not delivered only where nothing was sent (Operation).
LEMMA PluginExpiresStep == ASSUME SemanticInv, NEW t \in Tokens, PluginExpires(t) PROVE SemanticInv'
<1> USE DEF SemanticInv
<1>1. /\ plugin \in [Tokens -> Operation] /\ story \in Story /\ EffectInv(t)
      /\ plugin[t].stage \in {"preparing", "ready", "sent"}
  BY DEF SemanticTypeOK, TokenInv, PluginExpires
<1> DEFINE o == Undone(plugin[t])
<1>2. plugin' = [plugin EXCEPT ![t] = o] /\ UNCHANGED <<app, helper, parent, entries, worker, wire, told>>
  BY DEF PluginExpires
<1>3. /\ o \in Operation /\ o.mail = plugin[t].mail /\ o.stage = "done"
      /\ o.delivery = IF plugin[t].stage = "sent" THEN "unknown" ELSE "not-delivered"
  <2>1. plugin[t] \in Operation
    BY <1>1
  <2> QED BY <2>1 DEF Operation, Undone, Settled
<1> HIDE DEF o
<1>4. plugin' \in [Tokens -> Operation] /\ plugin'[t] = o /\ \A u \in Tokens : u # t => plugin'[u] = plugin[u]
  BY <1>1, <1>2, <1>3
<1>5. /\ story' \in Story /\ story'.published = story.published
      /\ story'.kind = story.kind /\ story'.effects = story.effects /\ story'.shown = story.shown
      /\ story'.proved = story.proved /\ story'.running = story.running /\ story'.retired = story.retired
  BY <1>1 DEF PluginExpires, Story
<1>6. (Click(t)' <=> Click(t)) /\ (Asked(t)' <=> Asked(t))
  BY <1>2, <1>5 DEF Click, Asked
<1>7. ~Click(t)
  BY <1>1 DEF EffectInv
<1>8. EffectInv(t)'
  BY <1>1, <1>2, <1>3, <1>4, <1>5, <1>6, <1>7, SemanticAssumption DEF EffectInv
<1>9. (Quiet(t) => Quiet(t)') /\ (Never(t) => Never(t)')
  BY <1>1, <1>2, <1>3, <1>4, <1>5, <1>6 DEF Quiet, Never
<1> QED BY <1>2, <1>4, <1>5, <1>8, <1>9, OperationStands

\* What was written once is performed once, by whatever is at the path.
LEMMA AppPerformsStep == ASSUME SemanticInv, NEW t \in Tokens, AppPerforms(t) PROVE SemanticInv'
<1> USE DEF SemanticInv
<1>1. plugin \in [Tokens -> Operation] /\ story \in Story /\ EffectInv(t) /\ plugin[t].mail = "out"
  BY DEF SemanticTypeOK, TokenInv, AppPerforms
<1>2. /\ plugin' = [plugin EXCEPT ![t] = [@ EXCEPT !.mail = "back"]]
      /\ UNCHANGED <<app, helper, parent, entries, worker, wire, told>>
  BY <1>1 DEF AppPerforms
<1>3. [plugin[t] EXCEPT !.mail = "back"] \in Operation
  BY <1>1 DEF Operation
<1>4. /\ plugin' \in [Tokens -> Operation] /\ plugin'[t] = [plugin[t] EXCEPT !.mail = "back"]
      /\ \A u \in Tokens : u # t => plugin'[u] = plugin[u]
  BY <1>1, <1>2, <1>3
<1>5. plugin'[t].mail = "back" /\ plugin'[t].stage = plugin[t].stage /\ plugin'[t].delivery = plugin[t].delivery
  BY <1>1, <1>4 DEF Operation
<1>6. /\ story.effects \in [Tokens -> Nat] /\ story.effects[t] = 0
      /\ ~Click(t) /\ plugin[t].stage \in {"sent", "done"}
      /\ plugin[t].stage = "done" => plugin[t].delivery = "unknown"
  <2>1. "out" # Null
    BY SemanticAssumption
  <2>2. plugin[t] \in Operation
    BY <1>1
  <2> QED BY <1>1, <2>1, <2>2 DEF EffectInv, Operation, Story
<1>7. /\ story' \in Story /\ story'.published = story.published
      /\ story'.kind = story.kind /\ story'.shown = story.shown
      /\ story'.proved = story.proved /\ story'.running = story.running /\ story'.retired = story.retired
      /\ \A u \in Tokens : u # t => story'.effects[u] = story.effects[u]
      /\ story'.effects[t] \in {0, 1}
  <2>1. CASE app.owner = plugin[t].owner
    <3>1. story' = [story EXCEPT !.effects = [story.effects EXCEPT ![t] = story.effects[t] + 1]]
      BY <1>1, <2>1 DEF AppPerforms, Story
    <3>2. [story.effects EXCEPT ![t] = story.effects[t] + 1] \in [Tokens -> Nat]
      BY <1>6
    <3> QED BY <1>1, <1>6, <3>1, <3>2 DEF Story
  <2>2. CASE app.owner # plugin[t].owner
    BY <1>1, <1>6, <2>2 DEF AppPerforms
  <2> QED BY <2>1, <2>2
<1>8. (Click(t)' <=> Click(t)) /\ (Asked(t)' <=> Asked(t))
  BY <1>2, <1>7 DEF Click, Asked
<1>9. EffectInv(t)'
  BY <1>1, <1>2, <1>5, <1>6, <1>7, <1>8 DEF EffectInv
<1>10. ~Quiet(t) /\ ~Never(t)
  BY <1>1, SemanticAssumption DEF Quiet, Never
<1> QED BY <1>2, <1>4, <1>6, <1>7, <1>9, <1>10, OperationStands

\* The reply of the application settles an operation as what became of it.
LEMMA PluginHearsStep == ASSUME SemanticInv, NEW t \in Tokens, PluginHears(t) PROVE SemanticInv'
<1> USE DEF SemanticInv
<1>1. plugin \in [Tokens -> Operation] /\ EffectInv(t) /\ plugin[t].mail = "back" /\ story \in Story
  BY DEF SemanticTypeOK, TokenInv, PluginHears
<1> DEFINE o == IF plugin[t].stage # "sent" THEN plugin[t]
                ELSE Settled(plugin[t], IF story.effects[t] > 0 THEN "delivered" ELSE "unknown")
           p == [o EXCEPT !.mail = Null]
<1>2. plugin' = [plugin EXCEPT ![t] = p] /\ UNCHANGED <<app, helper, parent, entries, worker, wire, told, story>>
  BY DEF PluginHears
<1>3. plugin[t] \in Operation /\ "back" # Null /\ story.effects[t] \in Nat
  BY <1>1, SemanticAssumption DEF Story
<1>4. plugin[t].stage \in {"sent", "done"} /\ ~Click(t) /\ (plugin[t].stage = "done" => plugin[t].delivery # "not-delivered")
  BY <1>1, <1>3 DEF EffectInv, Operation
<1>5. /\ p \in Operation /\ p.mail = Null /\ p.stage = "done"
      /\ p.delivery = IF plugin[t].stage = "done" THEN plugin[t].delivery
                      ELSE IF story.effects[t] > 0 THEN "delivered" ELSE "unknown"
  BY <1>3, <1>4 DEF Operation, Settled
<1> HIDE DEF p
<1>6. plugin' \in [Tokens -> Operation] /\ plugin'[t] = p /\ \A u \in Tokens : u # t => plugin'[u] = plugin[u]
  BY <1>1, <1>2, <1>5
<1>7. (Click(t)' <=> Click(t)) /\ (Asked(t)' <=> Asked(t))
  BY <1>2 DEF Click, Asked
<1>8. EffectInv(t)'
  BY <1>1, <1>2, <1>3, <1>4, <1>5, <1>6, <1>7, SemanticAssumption DEF EffectInv
<1>9. ~Quiet(t) /\ ~Never(t)
  BY <1>1, <1>3 DEF Quiet, Never
<1>10. story' \in Story
  BY <1>1, <1>2
<1> QED BY <1>2, <1>6, <1>8, <1>9, <1>10, OperationStands

\* What a request makes of an operation, and what its answer says (Served).
LEMMA ServedSays ==
    ASSUME SemanticInv, NEW t \in Tokens, NEW provider \in Nat,
           NEW cmd \in {"prepare", "status", "send", "cancel"}, NEW s \in Served(cmd, plugin[t], provider)
    PROVE  /\ s[1] \in Operation /\ s[2] \in Replies \ {"ok", "lost"}
           /\ s[2] = "not-delivered" => s[1].stage = "done" /\ s[1].delivery = "not-delivered"
           /\ s[2] = "delivered" => s[1].stage = "done" /\ s[1].delivery = "delivered"
           /\ \/ s[1] = plugin[t]
              \/ /\ plugin[t].stage = "none" /\ cmd = "prepare" /\ s[1].stage = "preparing" /\ s[1].mail = plugin[t].mail
              \/ /\ plugin[t].stage = "ready" /\ cmd = "send" /\ s[1].stage = "sent" /\ s[1].mail = "out"
              \/ /\ plugin[t].stage \in {"preparing", "ready", "sent"}
                 /\ s[1].stage = "done" /\ s[1].mail = plugin[t].mail
                 /\ s[1].delivery = IF plugin[t].stage = "sent" THEN "unknown" ELSE "not-delivered"
<1> DEFINE o == plugin[t]
<1>1. o \in Operation
  BY DEF SemanticInv, SemanticTypeOK
<1> HIDE DEF o
<1>2. CASE o.stage = "none" /\ cmd = "prepare" /\ app.open
  <2>1. s = <<[o EXCEPT !.stage = "preparing", !.owner = provider], "preparing">>
    BY <1>2 DEF Served, o
  <2> QED BY <1>1, <1>2, <2>1 DEF Operation, Replies, o
<1>3. CASE o.stage = "ready" /\ cmd = "send"
  <2>1. \/ s = <<[o EXCEPT !.stage = "sent", !.mail = "out"], "sent">>
        \/ s = <<Settled(o, "not-delivered"), "not-delivered">>
    BY <1>3 DEF Served, o
  <2>2. CASE s = <<[o EXCEPT !.stage = "sent", !.mail = "out"], "sent">>
    BY <1>1, <1>3, <2>2 DEF Operation, Replies, o
  <2>3. CASE s = <<Settled(o, "not-delivered"), "not-delivered">>
    BY <1>1, <1>3, <2>3 DEF Operation, Replies, Settled, o
  <2> QED BY <2>1, <2>2, <2>3
<1>4. CASE o.stage = "preparing" /\ cmd = "send"
  <2>1. s = <<Settled(o, "not-delivered"), "not-delivered">>
    BY <1>4 DEF Served, o
  <2> QED BY <1>1, <1>4, <2>1 DEF Operation, Replies, Settled, o
<1>5. CASE o.stage \in {"preparing", "ready", "sent"} /\ cmd = "cancel"
  <2>1. s = <<Undone(o), Receipt(Undone(o))>>
    BY <1>5 DEF Served, o
  <2> QED BY <1>1, <1>5, <2>1 DEF Operation, Replies, Settled, Undone, Receipt, o
<1>6. CASE \/ o.stage # "none" /\ cmd \in {"prepare", "status"}
           \/ o.stage = "sent" /\ cmd = "send"
           \/ o.stage = "done"
  <2>1. s = <<o, Receipt(o)>>
    BY <1>6 DEF Served, o
  <2> QED BY <1>1, <1>6, <2>1 DEF Operation, Replies, Receipt, o
<1>7. CASE o.stage = "none" /\ ~(cmd = "prepare" /\ app.open)
  <2>1. s = <<o, "refused">>
    BY <1>7 DEF Served, o
  <2> QED BY <1>1, <1>7, <2>1 DEF Operation, Replies, o
<1> QED BY <1>1, <1>2, <1>3, <1>4, <1>5, <1>6, <1>7 DEF Operation

\* The compositor serves the oldest request, and its answer says no more than what is so.
LEMMA PluginServesStep == ASSUME SemanticInv, PluginServes PROVE SemanticInv'
<1> USE DEF SemanticInv
<1>1. /\ wire \in Seq(Message) /\ wire # <<>> /\ plugin \in [Tokens -> Operation] /\ story \in Story
      /\ worker \in Worker /\ entries \in [Tokens -> Entry]
  BY DEF SemanticTypeOK, PluginServes
<1>0. PICK q \in Message : q = Head(wire)
  BY <1>1
<1>t. PICK t \in Tokens : t = q.tok
  BY DEF Message
<1>2. q = wire[1] /\ 1 \in DOMAIN wire /\ wire' = Tail(wire) /\ wire' \in Seq(Message)
  BY <1>0, <1>1 DEF PluginServes
<1>3. \A i \in DOMAIN wire' : i + 1 \in DOMAIN wire /\ i + 1 # 1 /\ wire'[i] = wire[i + 1] /\ i \in Nat
  BY <1>1, <1>2
<1> DEFINE reply(s) == IF q.cmd = "click" THEN (IF app.open THEN "ok" ELSE "refused") ELSE s[2]
<1>4. PICK s \in Served(q.cmd, plugin[t], entries[t].owner) :
        /\ plugin' = IF q.cmd = "click" THEN plugin ELSE [plugin EXCEPT ![t] = s[1]]
        /\ worker' = IF q.heard THEN [worker EXCEPT !.answer = reply(s)] ELSE worker
        /\ story' = IF q.cmd = "click" /\ app.open THEN [story EXCEPT !.effects[t] = @ + 1] ELSE story
  BY <1>0, <1>t DEF PluginServes
<1>5. q.tok = t /\ q.cmd \in {"prepare", "status", "send", "click", "cancel"} /\ q.heard \in BOOLEAN
  BY <1>t DEF Message
<1>6. UNCHANGED <<app, helper, parent, entries, told>>
  BY DEF PluginServes
<1>7. entries[t].owner \in Nat /\ EffectInv(t) /\ plugin[t] \in Operation
  BY <1>1, <1>5 DEF Entry, TokenInv
<1>8. q.cmd # "click" =>
        /\ s[1] \in Operation /\ s[2] \in Replies \ {"ok", "lost"}
        /\ s[2] = "not-delivered" => s[1].stage = "done" /\ s[1].delivery = "not-delivered"
        /\ s[2] = "delivered" => s[1].stage = "done" /\ s[1].delivery = "delivered"
        /\ \/ s[1] = plugin[t]
           \/ /\ plugin[t].stage = "none" /\ q.cmd = "prepare" /\ s[1].stage = "preparing" /\ s[1].mail = plugin[t].mail
           \/ /\ plugin[t].stage = "ready" /\ q.cmd = "send" /\ s[1].stage = "sent" /\ s[1].mail = "out"
           \/ /\ plugin[t].stage \in {"preparing", "ready", "sent"}
              /\ s[1].stage = "done" /\ s[1].mail = plugin[t].mail
              /\ s[1].delivery = IF plugin[t].stage = "sent" THEN "unknown" ELSE "not-delivered"
  <2>1. ASSUME q.cmd # "click" PROVE q.cmd \in {"prepare", "status", "send", "cancel"}
    BY <1>5, <2>1
  <2> QED BY <1>4, <1>5, <1>7, <2>1, ServedSays
<1>9. q.cmd = "click" <=> Click(t)
  BY <1>2, <1>5, <1>7 DEF EffectInv
<1>10. /\ worker' \in Worker
       /\ worker'.step = worker.step /\ worker'.op = worker.op /\ worker'.ref = worker.ref
       /\ worker'.tok = worker.tok /\ worker'.inc = worker.inc
       /\ worker'.answer = IF q.heard THEN reply(s) ELSE worker.answer
  <2>1. reply(s) \in Replies
    BY <1>8 DEF Replies
  <2> HIDE DEF reply
  <2> QED BY <1>1, <1>4, <2>1 DEF Worker
<1>11. /\ story' \in Story /\ story'.published = story.published
       /\ story'.kind = story.kind /\ story'.shown = story.shown
       /\ story'.proved = story.proved /\ story'.running = story.running /\ story'.retired = story.retired
       /\ \A u \in Tokens : u # t => story'.effects[u] = story.effects[u]
       /\ story'.effects[t] = IF q.cmd = "click" /\ app.open THEN story.effects[t] + 1 ELSE story.effects[t]
  <2>1. CASE q.cmd = "click" /\ app.open
    <3>1. story' = [story EXCEPT !.effects = [story.effects EXCEPT ![t] = story.effects[t] + 1]]
      BY <1>1, <1>4, <2>1 DEF Story
    <3>2. story.effects \in [Tokens -> Nat] /\ [story.effects EXCEPT ![t] = story.effects[t] + 1] \in [Tokens -> Nat]
      BY <1>1, <1>5 DEF Story
    <3> QED BY <1>1, <1>5, <2>1, <3>1, <3>2 DEF Story
  <2>2. CASE ~(q.cmd = "click" /\ app.open)
    BY <1>1, <1>4, <2>2
  <2> QED BY <2>1, <2>2
<1>12. /\ plugin' \in [Tokens -> Operation] /\ \A u \in Tokens : u # t => plugin'[u] = plugin[u]
       /\ plugin'[t] = IF q.cmd = "click" THEN plugin[t] ELSE s[1]
  <2> QED BY <1>1, <1>4, <1>5, <1>8
<1>13. \A u \in Tokens : (Click(u)' <=> Click(u)) /\ (Asked(u)' => Asked(u))
  BY <1>3, <1>11 DEF Click, Asked
<1>14. ASSUME NEW u \in Tokens
       PROVE  /\ \A i, j \in DOMAIN wire' : wire'[i].tok = u /\ wire'[j].tok = u
                    /\ {wire'[i].cmd, wire'[j].cmd} \subseteq {"send", "click"} => i = j
              /\ \A i \in DOMAIN wire' : wire'[i].tok = u => (wire'[i].cmd = "click" <=> Click(u)')
  <2>1. EffectInv(u)
    BY DEF TokenInv
  <2>2. \A i, j \in DOMAIN wire' : i + 1 = j + 1 => i = j
    BY <1>3
  <2> QED BY <1>3, <1>13, <2>1, <2>2, SemanticAssumption DEF EffectInv
<1> DEFINE Keeps(u) == /\ EffectInv(u)' /\ (Quiet(u) => Quiet(u)') /\ (Never(u) => Never(u)')
                       /\ story.effects[u] = 1 => story'.effects[u] = 1
<1>15. ASSUME NEW u \in Tokens, u # t PROVE Keeps(u)
  <2>1. EffectInv(u) /\ story'.effects[u] = story.effects[u] /\ plugin'[u] = plugin[u]
    BY <1>11, <1>12, <1>15 DEF TokenInv
  <2>2. EffectInv(u)'
    BY <1>13, <1>14, <2>1 DEF EffectInv
  <2>3. Quiet(u) => Quiet(u)'
    BY <1>13, <2>1 DEF Quiet
  <2> QED BY <1>13, <2>1, <2>2, <2>3 DEF Never
<1>16. ASSUME q.cmd = "click"
       PROVE  Keeps(t) /\ (q.heard /\ worker.step = "sends" =>
                                       /\ worker'.answer = "not-delivered" => Never(t)'
                                       /\ worker'.answer \in {"delivered", "ok"} => story'.effects[t] = 1
                                       /\ worker'.answer = "sent" => ~Click(t)')
  <2> HIDE DEF reply
  <2>1. Asked(t) /\ Click(t) /\ story.effects[t] = 0
    BY <1>2, <1>7, <1>9, <1>16, <1>t DEF Asked, EffectInv
  <2>2. ~Asked(t)'
    BY <1>2, <1>3, <1>7, <1>16, <1>t DEF Asked, EffectInv
  <2>3. EffectInv(t)'
    BY <1>5, <1>7, <1>11, <1>12, <1>13, <1>14, <1>16, <2>1, <2>2, SemanticAssumption DEF EffectInv
  <2>4. Keeps(t)
    BY <2>1, <2>3 DEF Quiet, Never
  <2>5. q.heard /\ worker.step = "sends" =>
          /\ worker'.answer \notin {"not-delivered", "delivered", "sent"}
          /\ worker'.answer = "ok" => story'.effects[t] = 1
    BY <1>10, <1>11, <1>16, <2>1 DEF reply
  <2> QED BY <2>4, <2>5
<1>17. ASSUME q.cmd # "click"
       PROVE  Keeps(t) /\ (q.heard /\ worker.step = "sends" =>
                                       /\ worker'.answer = "not-delivered" => Never(t)'
                                       /\ worker'.answer \in {"delivered", "ok"} => story'.effects[t] = 1
                                       /\ worker'.answer = "sent" => ~Click(t)')
  <2> HIDE DEF reply
  <2>1. ~Click(t) /\ story'.effects[t] = story.effects[t] /\ plugin'[t] = s[1]
    BY <1>9, <1>11, <1>12, <1>17
  <2>2. plugin[t].stage \in {"none", "preparing", "ready", "sent", "done"}
    BY <1>7 DEF Operation
  <2>3. EffectInv(t)'
    BY <1>5, <1>7, <1>8, <1>13, <1>14, <1>17, <2>1, <2>2, SemanticAssumption DEF EffectInv
  <2>4. Quiet(t) => q.cmd # "send"
    BY <1>2, <1>t DEF Quiet, Asked
  <2>5. Quiet(t) => Quiet(t)'
    BY <1>8, <1>13, <1>17, <2>1, <2>4, <1>5 DEF Quiet
  <2>6. Never(t) => Never(t)'
    BY <1>8, <1>13, <1>5, <1>17, <2>1, <2>5 DEF Never
  <2>7. Keeps(t)
    BY <2>1, <2>3, <2>5, <2>6
  <2>8. q.heard => worker'.answer = s[2] /\ worker'.answer # "ok"
    BY <1>8, <1>10, <1>17 DEF reply
  <2>9. q.heard /\ worker'.answer = "delivered" => story'.effects[t] = 1
    BY <1>8, <1>17, <2>1, <2>3, <2>8 DEF EffectInv
  <2>10. q.heard /\ worker'.answer = "not-delivered" => Never(t)'
    BY <1>5, <1>8, <1>13, <1>17, <2>1, <2>3, <2>8 DEF EffectInv, Never
  <2> QED BY <1>13, <2>1, <2>7, <2>8, <2>9, <2>10
<1>18. Keeps(t) /\ (q.heard /\ worker.step = "sends" =>
                      /\ worker'.answer = "not-delivered" => Never(t)'
                      /\ worker'.answer \in {"delivered", "ok"} => story'.effects[t] = 1
                      /\ worker'.answer = "sent" => ~Click(t)')
  BY <1>16, <1>17
<1>19. WorkerInv' /\ (\A u \in Tokens : TokenInv(u)') /\ (worker'.answer = worker.answer => SendInv')
  <2>1. ASSUME NEW u \in Tokens
        PROVE  /\ EffectInv(u)' /\ (Quiet(u) => Quiet(u)') /\ (Never(u) => Never(u)')
               /\ story.effects[u] = 1 => story'.effects[u] = 1
    <3>1. CASE u = t
      BY <1>18, <3>1
    <3>2. CASE u # t
      BY <1>15, <3>2
    <3> QED BY <3>1, <3>2
  <2> HIDE DEF reply, Keeps
  <2> QED BY <1>6, <1>10, <1>11, <2>1, PluginStands
<1>20. q.heard => worker.tok = t /\ worker.step \in {"prepares", "sends"}
  BY <1>2, <1>5 DEF HeardInv
<1>21. SendInv'
  <2>1. CASE ~q.heard
    BY <1>10, <1>19, <2>1
  <2>2. CASE q.heard
    <3>1. worker.step = "sends" =>
            /\ worker'.answer = "not-delivered" => Never(t)'
            /\ worker'.answer \in {"delivered", "ok"} => story'.effects[t] = 1
            /\ worker'.answer = "sent" => ~Click(t)'
      BY <1>18, <2>2
    <3>2. worker.step \in {"dispatch", "sends"} => story'.proved[worker.tok] = story'.shown[worker.ref]
      BY <1>11 DEF SendInv
    <3> HIDE DEF reply
    <3> QED BY <1>10, <1>20, <2>2, <3>1, <3>2 DEF SendInv
  <2> QED BY <2>1, <2>2
<1>22. HeardInv'
  <2>1. \A i, j \in DOMAIN wire' : wire'[i].heard /\ wire'[j].heard => i = j
    <3>1. \A i, j \in DOMAIN wire' : i + 1 = j + 1 => i = j
      BY <1>3
    <3> QED BY <1>3, <3>1 DEF HeardInv
  <2>2. \A i \in DOMAIN wire' : wire'[i].heard => ~q.heard
    BY <1>2, <1>3 DEF HeardInv
  <2> HIDE DEF reply
  <2> QED BY <1>3, <1>10, <2>1, <2>2 DEF HeardInv
<1>23. SnapInv' /\ JobInv' /\ ProcessInv'
  BY <1>6, <1>10, <1>11, RefsStand
<1> QED BY <1>2, <1>6, <1>10, <1>11, <1>12, <1>19, <1>21, <1>22, <1>23 DEF SemanticTypeOK

\* A preparation comes of age.
LEMMA TimePassesStep == ASSUME SemanticInv, NEW t \in Tokens, TimePasses(t) PROVE SemanticInv'
<1> USE DEF SemanticInv
<1>1. entries \in [Tokens -> Entry] /\ UNCHANGED <<app, helper, parent, worker, plugin, wire, told, story>>
  BY DEF SemanticTypeOK, TimePasses
<1>2. /\ entries' \in [Tokens -> Entry]
      /\ \A u \in Tokens : /\ entries'[u].state = entries[u].state /\ entries'[u].ref = entries[u].ref
                           /\ entries'[u].result = entries[u].result
  <2>1. entries' = [entries EXCEPT ![t] = [entries[t] EXCEPT !.late = TRUE]]
    BY <1>1 DEF TimePasses
  <2>2. entries[t] \in Entry
    BY <1>1
  <2>3. /\ [entries[t] EXCEPT !.late = TRUE] \in Entry
        /\ [entries[t] EXCEPT !.late = TRUE].state = entries[t].state
        /\ [entries[t] EXCEPT !.late = TRUE].ref = entries[t].ref
        /\ [entries[t] EXCEPT !.late = TRUE].result = entries[t].result
    BY <2>2 DEF Entry
  <2> QED BY <1>1, <2>1, <2>3
<1>3. WorkerInv'
  <2>1. worker.step # "idle" /\ worker.op \in {"prepare", "send"} => worker.tok \in Tokens
    BY DEF WorkerInv
  <2> QED BY <1>1, <1>2, <2>1 DEF WorkerInv, Click
<1>4. \A u \in Tokens : (Quiet(u)' <=> Quiet(u)) /\ (Never(u)' <=> Never(u)) /\ EffectInv(u)' /\ (Refused(u)' <=> Refused(u))
  BY <1>1 DEF Quiet, Never, Asked, Click, EffectInv, TokenInv, Refused
<1>5. \A u \in Tokens : TokenInv(u)'
  BY <1>1, <1>2, <1>4 DEF TokenInv
<1>6. SendInv' /\ HeardInv'
  BY <1>1 DEF SendInv, HeardInv, Quiet, Never, Asked, Click
<1>7. SnapInv' /\ JobInv' /\ ProcessInv'
  BY <1>1, RefsStand
<1> QED BY <1>1, <1>2, <1>3, <1>5, <1>6, <1>7 DEF SemanticTypeOK

\* The worker gives an exchange up while its request stays on the wire.
LEMMA ExchangeExpiresStep == ASSUME SemanticInv, ExchangeExpires PROVE SemanticInv'
<1> USE DEF SemanticInv
<1>1. wire \in Seq(Message) /\ worker \in Worker /\ story \in Story
      /\ UNCHANGED <<app, helper, parent, entries, plugin, told>>
  BY DEF SemanticTypeOK, ExchangeExpires
<1>2. wire' = [i \in DOMAIN wire |-> [wire[i] EXCEPT !.heard = FALSE]]
  BY DEF ExchangeExpires
<1>3. \A i \in DOMAIN wire : wire[i] \in Message
  BY <1>1
<1>4. \A i \in DOMAIN wire : wire'[i] \in Message /\ wire'[i].tok = wire[i].tok /\ wire'[i].cmd = wire[i].cmd /\ ~wire'[i].heard
  BY <1>2, <1>3 DEF Message
<1>5. DOMAIN wire' = DOMAIN wire
  BY <1>2
<1>6. wire' \in Seq(Message)
  <2>1. wire' \in [1 .. Len(wire) -> Message] /\ Len(wire) \in Nat
    BY <1>1, <1>2, <1>4
  <2> QED BY <2>1
<1>7. /\ story' \in Story /\ story'.published = story.published
      /\ story'.kind = story.kind /\ story'.effects = story.effects /\ story'.shown = story.shown
      /\ story'.proved = story.proved /\ story'.running = story.running /\ story'.retired = story.retired
  <2>1. story' = [story EXCEPT !.losses = @ - 1] /\ story.losses > 0
    BY DEF ExchangeExpires
  <2>2. story.losses - 1 \in Nat
    BY <1>1, <2>1 DEF Story
  <2> QED BY <1>1, <2>1, <2>2 DEF Story
<1>8. /\ worker' \in Worker /\ worker'.answer = "lost"
      /\ worker'.step = worker.step /\ worker'.op = worker.op /\ worker'.ref = worker.ref
      /\ worker'.tok = worker.tok /\ worker'.inc = worker.inc
  BY <1>1 DEF ExchangeExpires, Worker, Replies
<1>9. \A t : (Asked(t)' <=> Asked(t)) /\ (Click(t)' <=> Click(t))
  BY <1>4, <1>5, <1>7 DEF Asked, Click
<1>10. ASSUME NEW t \in Tokens PROVE EffectInv(t)' /\ (Quiet(t)' <=> Quiet(t)) /\ (Never(t)' <=> Never(t))
  <2>1. EffectInv(t)
    BY DEF TokenInv
  <2>2. EffectInv(t)'
    BY <1>1, <1>4, <1>5, <1>7, <1>9, <2>1 DEF EffectInv
  <2> QED BY <1>1, <1>7, <1>9, <2>2 DEF Quiet, Never
<1>11. WorkerInv' /\ \A t \in Tokens : TokenInv(t)'
  BY <1>1, <1>7, <1>8, <1>10, PluginStands
<1>12. SendInv'
  <2>1. worker.step \in {"target", "tree", "after", "dispatch"} /\ worker.op = "send" => worker.tok \in Tokens
    BY DEF WorkerInv
  <2> QED BY <1>7, <1>8, <1>10, <2>1 DEF SendInv
<1>13. HeardInv'
  BY <1>4, <1>5 DEF HeardInv
<1>14. SnapInv' /\ JobInv' /\ ProcessInv'
  BY <1>1, <1>7, <1>8, RefsStand
<1> QED BY <1>1, <1>6, <1>7, <1>8, <1>11, <1>12, <1>13, <1>14 DEF SemanticTypeOK

----------------------------------------------------------------------------
(* The worker                                                               *)

\* What cancelling some tokens leaves of them (Cancels).
LEMMA CancelsSays ==
    ASSUME SemanticInv, NEW T \in SUBSET Tokens, Cancels(T)
    PROVE  /\ Grows /\ Quietly /\ entries' \in [Tokens -> Entry]
           /\ \A t \in Tokens : t \notin T => entries'[t] = entries[t]
           /\ \A t \in T : /\ entries'[t].state = "consumed" /\ entries'[t].result = "not-delivered"
                           /\ entries'[t].ref = entries[t].ref
<1>1. entries \in [Tokens -> Entry]
  BY DEF SemanticInv, SemanticTypeOK
<1> DEFINE e(t) == [entries[t] EXCEPT !.state = "consumed", !.result = "not-delivered"]
<1>2. entries' = [t \in Tokens |-> IF t \notin T THEN entries[t] ELSE e(t)]
  BY DEF Cancels
<1>3. ASSUME NEW t \in Tokens
      PROVE  e(t) \in Entry /\ e(t).state = "consumed" /\ e(t).result = "not-delivered" /\ e(t).ref = entries[t].ref
  <2>1. entries[t] \in Entry
    BY <1>1
  <2> QED BY <2>1 DEF Entry
<1> HIDE DEF e
<1>4. \A t \in Tokens : entries'[t] = IF t \notin T THEN entries[t] ELSE e(t)
  BY <1>2
<1>5. entries' \in [Tokens -> Entry]
  BY <1>1, <1>2, <1>3
<1>6. {t \in T : ~Click(t)} \in SUBSET {t \in Tokens : ~Click(t)} /\ wire' = Unheard("cancel", {t \in T : ~Click(t)})
  BY DEF Cancels
<1>7. Grows /\ Quietly
  BY <1>6, CancelGrows
<1> QED BY <1>3, <1>4, <1>5, <1>7

\* Where nobody waits, and nobody was added who waits, nobody waits.
LEMMA NobodyWaits ==
    ASSUME SemanticInv, Grows, Quietly, \A i \in DOMAIN wire : ~wire[i].heard
    PROVE  wire' \in Seq(Message) /\ \A i \in DOMAIN wire' : ~wire'[i].heard
<1>1. wire \in Seq(Message) /\ wire' \in Seq(Message)
  BY DEF SemanticInv, SemanticTypeOK, Grows
<1>2. DOMAIN wire = 1 .. Len(wire) /\ DOMAIN wire' = 1 .. Len(wire') /\ Len(wire) \in Nat /\ Len(wire') \in Nat
  BY <1>1
<1> QED BY <1>1, <1>2 DEF Grows, Quietly

\* What is said of a token stays right when only what is believed of it changes.
LEMMA TokenStands ==
    ASSUME SemanticInv, Grows, UNCHANGED plugin, NEW t \in Tokens,
           story'.kind = story.kind, story'.effects = story.effects, story'.shown = story.shown,
           \/ entries'[t] = entries[t]
           \/ /\ entries[t].state # "none" /\ entries'[t].state = "consumed" /\ entries'[t].ref = entries[t].ref
              /\ entries'[t].result = "not-delivered" => Never(t)
              /\ entries'[t].result = "delivered" => story.effects[t] = 1
           \/ /\ entries'[t].state = "live" /\ entries'[t].result = "unknown" /\ Quiet(t) /\ told[t] = {}
              /\ entries'[t].ref \in Refs /\ story.shown[entries'[t].ref] # Null,
           \/ told'[t] = told[t]
           \/ /\ Refused(t)' => Never(t) /\ entries'[t].state # "live"
              /\ "delivered" \in told'[t] => story.effects[t] = 1,
           Quiet(t) \/ story'.proved[t] = story.proved[t],
           worker'.tok = t => worker'.step \in {"idle", "retire"} \/ ~Refused(t)'
    PROVE  TokenInv(t)'
<1> USE DEF SemanticInv
<1>1. EffectInv(t)' /\ (Quiet(t)' <=> Quiet(t)) /\ (Never(t)' <=> Never(t))
  BY GrownIsSame
<1>2. TokenInv(t)
  OBVIOUS
<1>3. entries'[t].ref = entries[t].ref \/ Quiet(t)
  OBVIOUS
<1>4. entries'[t].state \in {"none", "live"} => Quiet(t)' /\ entries'[t].result = "unknown"
  BY <1>1, <1>2 DEF TokenInv
<1>5. entries'[t].state = "consumed" /\ entries'[t].result = "not-delivered" => Never(t)'
  BY <1>1, <1>2 DEF TokenInv
<1>6. entries'[t].state = "consumed" /\ entries'[t].result = "delivered" => story'.effects[t] = 1
  BY <1>1, <1>2 DEF TokenInv
<1>7. entries'[t].state = "live" => entries[t].state = "live" \/ told[t] = {}
  OBVIOUS
<1>8. Refused(t)' => Never(t)' /\ entries'[t].state # "live"
  BY <1>1, <1>2, <1>7 DEF TokenInv, Refused
<1>9. "delivered" \in told'[t] => story'.effects[t] = 1
  BY <1>2 DEF TokenInv
<1>10. entries'[t].state # "none" => entries'[t].ref \in Refs /\ story'.shown[entries'[t].ref] # Null
  BY <1>2 DEF TokenInv
<1>11. Quiet(t)' \/ story'.proved[t] = story'.shown[entries'[t].ref]
  BY <1>1, <1>2, <1>3 DEF TokenInv
<1> QED BY <1>1, <1>4, <1>5, <1>6, <1>8, <1>9, <1>10, <1>11 DEF TokenInv

\* A step after which the worker rests, and nothing new can be sent.
LEMMA RestsWell ==
    ASSUME SemanticInv, Grows, Quietly, UNCHANGED plugin, \A i \in DOMAIN wire : ~wire[i].heard,
           story'.kind = story.kind, story'.effects = story.effects, story'.shown = story.shown,
           worker'.step \in {"idle", "retire"}, worker'.step = "retire" => worker'.op = "pause",
           \A t \in Tokens :
              /\ \/ entries'[t] = entries[t]
                 \/ /\ entries[t].state # "none" /\ entries'[t].state = "consumed" /\ entries'[t].ref = entries[t].ref
                    /\ entries'[t].result = "not-delivered" => Never(t)
                    /\ entries'[t].result = "delivered" => story.effects[t] = 1
              /\ \/ told'[t] = told[t]
                 \/ /\ told'[t] \cap {"not-delivered", "cancelled", "failed"} # {} =>
                          Never(t) /\ entries'[t].state # "live"
                    /\ "delivered" \in told'[t] => story.effects[t] = 1
              /\ Quiet(t) \/ story'.proved[t] = story.proved[t]
    PROVE  WorkerInv' /\ (\A t \in Tokens : TokenInv(t)') /\ SendInv' /\ HeardInv'
<1>1. WorkerInv'
  BY DEF WorkerInv
<1>2. SendInv'
  BY DEF SendInv
<1>3. HeardInv'
  BY NobodyWaits DEF HeardInv
<1>4. ASSUME NEW t \in Tokens PROVE TokenInv(t)'
  BY TokenStands DEF Refused
<1> QED BY <1>1, <1>2, <1>3, <1>4

\* What is typed of a worker that rests, or that takes its next step.
LEMMA StepsTyped ==
    ASSUME SemanticInv
    PROVE  /\ Idles => worker' \in Worker /\ worker'.step = "idle"
           /\ \A step \in {"prepares", "dispatch", "sends"} : Moves(step) =>
                 /\ worker' \in Worker /\ worker'.step = step /\ worker'.answer = Null /\ worker'.op = worker.op
                 /\ worker'.tok = worker.tok /\ worker'.ref = worker.ref
           /\ \A t \in Tokens, a \in {"prepared", "failed", "cancelled", "delivered", "not-delivered", "unknown"} :
                 Answers(t, a) =>
                    /\ worker' \in Worker /\ worker'.step = "idle"
                    /\ told' \in [Tokens -> SUBSET {"prepared", "failed", "cancelled", "delivered", "not-delivered", "unknown"}]
                    /\ told'[t] = told[t] \cup {a} /\ \A u \in Tokens : u # t => told'[u] = told[u]
<1>1. worker \in Worker
  BY DEF SemanticInv, SemanticTypeOK
<1>2. told \in [Tokens -> SUBSET {"prepared", "failed", "cancelled", "delivered", "not-delivered", "unknown"}]
  BY DEF SemanticInv, SemanticTypeOK
<1>3. [worker EXCEPT !.step = "idle", !.answer = Null] \in Worker
  BY <1>1 DEF Worker
<1>4. \A step \in {"prepares", "dispatch", "sends"} : [worker EXCEPT !.step = step, !.answer = Null] \in Worker
  BY <1>1 DEF Worker
<1>5. Idles => worker' \in Worker /\ worker'.step = "idle"
  BY <1>1, <1>3 DEF Idles, Worker
<1>6. ASSUME NEW step \in {"prepares", "dispatch", "sends"}, Moves(step)
      PROVE  /\ worker' \in Worker /\ worker'.step = step /\ worker'.answer = Null /\ worker'.op = worker.op
             /\ worker'.tok = worker.tok /\ worker'.ref = worker.ref
  <2>1. worker' = [worker EXCEPT !.step = step, !.answer = Null]
    BY <1>6 DEF Moves
  <2> QED BY <1>1, <1>4, <2>1 DEF Worker
<1>7. ASSUME NEW t \in Tokens, NEW a \in {"prepared", "failed", "cancelled", "delivered", "not-delivered", "unknown"}, Answers(t, a)
      PROVE  /\ worker' \in Worker /\ worker'.step = "idle"
             /\ told' \in [Tokens -> SUBSET {"prepared", "failed", "cancelled", "delivered", "not-delivered", "unknown"}]
             /\ told'[t] = told[t] \cup {a} /\ \A u \in Tokens : u # t => told'[u] = told[u]
  <2>1. worker' = [worker EXCEPT !.step = "idle", !.answer = Null] /\ told' = [told EXCEPT ![t] = told[t] \cup {a}]
    BY <1>7 DEF Answers
  <2>2. worker'.step = "idle"
    BY <1>1, <2>1 DEF Worker
  <2>3. told[t] \cup {a} \in SUBSET {"prepared", "failed", "cancelled", "delivered", "not-delivered", "unknown"}
    BY <1>2
  <2> QED BY <1>2, <1>3, <2>1, <2>2, <2>3
<1> QED BY <1>5, <1>6, <1>7

\* Whatever fails is told, or noted, only as what is so (Fails).
LEMMA FailsWell ==
    ASSUME SemanticInv, NEW a \in {"not-delivered", "unknown"}, Fails(a),
           worker.op \in {"observe", "prepare", "send"}, worker.step # "idle",
           UNCHANGED plugin, \A i \in DOMAIN wire : ~wire[i].heard,
           story'.kind = story.kind, story'.effects = story.effects, story'.shown = story.shown,
           \A t \in Tokens : Quiet(t) \/ story'.proved[t] = story.proved[t],
           a = "not-delivered" /\ worker.op = "send" => Never(worker.tok)
    PROVE  /\ worker' \in Worker /\ worker'.step = "idle" /\ entries' \in [Tokens -> Entry] /\ wire' \in Seq(Message)
           /\ told' \in [Tokens -> SUBSET {"prepared", "failed", "cancelled", "delivered", "not-delivered", "unknown"}]
           /\ WorkerInv' /\ (\A t \in Tokens : TokenInv(t)') /\ SendInv' /\ HeardInv'
<1> USE DEF SemanticInv
<1>1. /\ entries \in [Tokens -> Entry] /\ wire \in Seq(Message) /\ worker \in Worker
      /\ told \in [Tokens -> SUBSET {"prepared", "failed", "cancelled", "delivered", "not-delivered", "unknown"}]
  BY DEF SemanticTypeOK
<1> DEFINE Rest == /\ worker' \in Worker /\ worker'.step = "idle"
                   /\ entries' \in [Tokens -> Entry] /\ wire' \in Seq(Message)
                   /\ told' \in [Tokens -> SUBSET {"prepared", "failed", "cancelled", "delivered", "not-delivered", "unknown"}]
                   /\ WorkerInv' /\ (\A u \in Tokens : TokenInv(u)') /\ SendInv' /\ HeardInv'
<1>2. CASE worker.op = "observe"
  <2>1. Idles /\ UNCHANGED <<entries, wire, told>>
    BY <1>2 DEF Fails
  <2>2. worker' \in Worker /\ worker'.step = "idle" /\ Grows /\ Quietly
    BY <2>1, StepsTyped, StaysGrows
  <2> QED BY <1>1, <2>1, <2>2, RestsWell
<1>3. CASE worker.op # "observe"
  <2>1. PICK t \in Tokens : t = worker.tok
    BY <1>3 DEF WorkerInv
  <2>2. CASE worker.op = "prepare" /\ ~Live(t)
    <3>1. Answers(t, "failed") /\ UNCHANGED <<entries, wire>>
      BY <2>1, <2>2 DEF Fails
    <3>2. /\ worker' \in Worker /\ worker'.step = "idle"
          /\ told' \in [Tokens -> SUBSET {"prepared", "failed", "cancelled", "delivered", "not-delivered", "unknown"}]
          /\ told'[t] = told[t] \cup {"failed"} /\ \A u \in Tokens : u # t => told'[u] = told[u]
      BY <3>1, StepsTyped
    <3>3. entries[t].state = "none" /\ told[t] = {}
      BY <2>1, <2>2 DEF WorkerInv, Live
    <3>4. Never(t)
      BY <3>3 DEF TokenInv, Never
    <3>5. Grows /\ Quietly
      BY <3>1, StaysGrows
    <3>6. told'[t] = {"failed"}
      BY <3>2, <3>3
    <3>7. \A u \in Tokens : told'[u] = told[u] \/ (told'[u] = {"failed"} /\ Never(u) /\ entries'[u].state # "live")
      BY <3>1, <3>2, <3>3, <3>4, <3>6
    <3>8. WorkerInv' /\ (\A u \in Tokens : TokenInv(u)') /\ SendInv' /\ HeardInv'
      BY <3>1, <3>2, <3>5, <3>7, RestsWell
    <3> QED BY <1>1, <3>1, <3>2, <3>8
  <2>3. CASE worker.op = "prepare" /\ Live(t)
    <3>1. Answers(t, "failed") /\ Cancels({t})
      BY <2>1, <2>3 DEF Fails
    <3>2. /\ worker' \in Worker /\ worker'.step = "idle"
          /\ told' \in [Tokens -> SUBSET {"prepared", "failed", "cancelled", "delivered", "not-delivered", "unknown"}]
          /\ told'[t] = told[t] \cup {"failed"} /\ \A u \in Tokens : u # t => told'[u] = told[u]
      BY <3>1, StepsTyped
    <3>3. /\ Grows /\ Quietly /\ entries' \in [Tokens -> Entry]
          /\ \A u \in Tokens : u # t => entries'[u] = entries[u]
          /\ entries'[t].state = "consumed" /\ entries'[t].result = "not-delivered" /\ entries'[t].ref = entries[t].ref
      BY <3>1, CancelsSays
    <3>4. told[t] = {} /\ Never(t) /\ entries[t].state # "none"
      BY <2>1, <2>3 DEF WorkerInv, Live, TokenInv, Never
    <3>5. told'[t] = {"failed"}
      BY <3>2, <3>4
    <3>6. \A u \in Tokens : told'[u] = told[u] \/ (told'[u] = {"failed"} /\ Never(u) /\ entries'[u].state # "live")
      BY <3>2, <3>3, <3>4, <3>5
    <3>7. \A u \in Tokens : entries'[u] = entries[u] \/
             (entries[u].state # "none" /\ entries'[u].state = "consumed" /\ entries'[u].ref = entries[u].ref
              /\ entries'[u].result = "not-delivered" /\ Never(u))
      BY <3>3, <3>4
    <3>8. WorkerInv' /\ (\A u \in Tokens : TokenInv(u)') /\ SendInv' /\ HeardInv'
      BY <3>2, <3>3, <3>6, <3>7, RestsWell
    <3> QED BY <3>2, <3>3, <3>8, NobodyWaits
  <2>4. CASE worker.op = "send"
    <3>1. /\ entries' = [entries EXCEPT ![t] = [entries[t] EXCEPT !.result = a]]
          /\ wire' = Unheard("cancel", {t} \ {u \in {t} : Click(u)}) /\ Answers(t, a)
      BY <1>1, <2>1, <2>4 DEF Fails
    <3>2. /\ worker' \in Worker /\ worker'.step = "idle"
          /\ told' \in [Tokens -> SUBSET {"prepared", "failed", "cancelled", "delivered", "not-delivered", "unknown"}]
          /\ told'[t] = told[t] \cup {a} /\ \A u \in Tokens : u # t => told'[u] = told[u]
      BY <3>1, StepsTyped
    <3>3. {t} \ {u \in {t} : Click(u)} \in SUBSET {u \in Tokens : ~Click(u)}
      OBVIOUS
    <3>4. Grows /\ Quietly
      BY <3>1, <3>3, CancelGrows
    <3>5. entries[t] \in Entry /\ entries[t].state = "consumed"
      BY <1>1, <2>1, <2>4 DEF WorkerInv
    <3>6. LET e == [entries[t] EXCEPT !.result = a] IN
          e \in Entry /\ e.state = "consumed" /\ e.ref = entries[t].ref /\ e.result = a
      BY <3>5 DEF Entry
    <3>7. /\ entries' \in [Tokens -> Entry] /\ \A u \in Tokens : u # t => entries'[u] = entries[u]
          /\ entries'[t].state = "consumed" /\ entries'[t].ref = entries[t].ref /\ entries'[t].result = a
      BY <1>1, <3>1, <3>6
    <3>8. a = "not-delivered" => Never(t)
      BY <2>1, <2>4
    <3>9. \A u \in Tokens : entries'[u] = entries[u] \/
             /\ entries[u].state # "none" /\ entries'[u].state = "consumed" /\ entries'[u].ref = entries[u].ref
             /\ entries'[u].result = "not-delivered" => Never(u)
             /\ entries'[u].result # "delivered"
      BY <3>5, <3>7, <3>8
    <3>10. /\ told'[t] \cap {"not-delivered", "cancelled", "failed"} # {} => Never(t) /\ entries'[t].state # "live"
           /\ "delivered" \in told'[t] => story.effects[t] = 1
      <4>1. TokenInv(t)
        OBVIOUS
      <4>2. "delivered" \in told'[t] => "delivered" \in told[t]
        BY <3>2
      <4>3. told'[t] \cap {"not-delivered", "cancelled", "failed"} # {} => a = "not-delivered" \/ Refused(t)
        BY <3>2 DEF Refused
      <4> QED BY <3>7, <3>8, <4>1, <4>2, <4>3 DEF TokenInv
    <3>11. \A u \in Tokens : told'[u] = told[u] \/
              /\ told'[u] \cap {"not-delivered", "cancelled", "failed"} # {} => Never(u) /\ entries'[u].state # "live"
              /\ "delivered" \in told'[u] => story.effects[u] = 1
      BY <3>2, <3>10
    <3>12. WorkerInv' /\ (\A u \in Tokens : TokenInv(u)') /\ SendInv' /\ HeardInv'
      BY <3>2, <3>4, <3>9, <3>11, RestsWell
    <3> QED BY <3>2, <3>4, <3>7, <3>12, NobodyWaits
  <2> QED BY <1>3, <2>2, <2>3, <2>4
<1> QED BY <1>2, <1>3

\* A worker that rests, or that looks at a window anew, has nothing of the helper.
LEMMA RefsRest ==
    ASSUME SemanticInv, helper'.snaps = helper.snaps \/ helper'.snaps = NoSnaps, helper'.job = Null,
           story'.published = story.published, story'.shown = story.shown,
           worker'.step \notin {"tree", "after"},
           worker'.step = "target" /\ worker'.op = "observe" => \E r \in Refs : ~story.published[r]
    PROVE  SnapInv' /\ JobInv'
<1> USE DEF SemanticInv
<1>1. SnapInv'
  BY DEF SnapInv, NoSnaps
<1> QED BY <1>1 DEF JobInv

\* Where no helper is asked, none works, and nobody waits where no answer is expected.
LEMMA NothingPending ==
    ASSUME SemanticInv
    PROVE  /\ worker.step # "tree" => helper.job = Null
           /\ worker.step \notin {"prepares", "sends"} \/ worker.answer # Null =>
                 \A i \in DOMAIN wire : ~wire[i].heard
BY DEF SemanticInv, JobInv, HeardInv

\* What is typed of an operation that begins (Begins).
LEMMA BeginsTyped ==
    ASSUME NEW op \in Ops, NEW t \in Tokens \cup {Null}, NEW r \in Refs \cup {Null}, Begins(op, t, r)
    PROVE  /\ worker' \in Worker /\ worker'.op = op /\ worker'.tok = t /\ worker'.ref = r
           /\ worker'.step = "target" /\ worker'.answer = Null
BY DEF Begins, Worker

\* An observation begins, with a reference left to publish.
LEMMA ObserveStep == ASSUME SemanticInv, Observe PROVE SemanticInv'
<1> USE DEF SemanticInv
<1>1. story \in Story /\ UNCHANGED <<app, helper, parent, entries, plugin, wire, told>> /\ worker.step = "idle"
  BY DEF SemanticTypeOK, Observe
<1>2. /\ story' \in Story /\ story'.published = story.published
      /\ story'.kind = story.kind /\ story'.effects = story.effects /\ story'.shown = story.shown
      /\ story'.proved = story.proved /\ story'.running = story.running /\ ~story'.retired
  <2>1. story' = [story EXCEPT !.observes = @ - 1, !.retired = FALSE] /\ story.observes > 0
    BY DEF Observe
  <2>2. story.observes - 1 \in Nat
    BY <1>1, <2>1 DEF Story
  <2> QED BY <1>1, <2>1, <2>2 DEF Story
<1>3. /\ worker' \in Worker /\ worker'.op = "observe" /\ worker'.tok = Null /\ worker'.ref = Null
      /\ worker'.step = "target"
  BY BeginsTyped DEF Observe, Ops
<1>4. WorkerInv' /\ SendInv'
  BY <1>3 DEF WorkerInv, SendInv
<1>5. Grows /\ Quietly /\ \A i \in DOMAIN wire : ~wire[i].heard
  BY <1>1, StaysGrows, NothingPending
<1>6. HeardInv'
  BY <1>5, NobodyWaits DEF HeardInv
<1>7. \A t \in Tokens : TokenInv(t)'
  BY <1>1, <1>2, <1>3, <1>5, TokenStands, SemanticAssumption
<1>8. SnapInv' /\ JobInv'
  BY <1>1, <1>2, <1>3, RefsRest, NothingPending DEF Observe
<1>9. ProcessInv'
  BY <1>1, <1>2 DEF ProcessInv
<1> QED BY <1>1, <1>2, <1>3, <1>4, <1>6, <1>7, <1>8, <1>9 DEF SemanticTypeOK

\* A cancelled token was not sent, and never will be (cancel).
LEMMA CancelStep == ASSUME SemanticInv, NEW t \in Tokens, Cancel(t) PROVE SemanticInv'
<1> USE DEF SemanticInv
<1>1. UNCHANGED <<app, helper, parent, plugin, story>> /\ worker.step = "idle" /\ Cancels({t})
      /\ Answers(t, "cancelled") /\ entries[t].state = "live"
  BY DEF Cancel, Live
<1>2. /\ worker' \in Worker /\ worker'.step = "idle"
      /\ told' \in [Tokens -> SUBSET {"prepared", "failed", "cancelled", "delivered", "not-delivered", "unknown"}]
      /\ told'[t] = told[t] \cup {"cancelled"} /\ \A u \in Tokens : u # t => told'[u] = told[u]
  BY <1>1, StepsTyped
<1>3. /\ Grows /\ Quietly /\ entries' \in [Tokens -> Entry]
      /\ \A u \in Tokens : u # t => entries'[u] = entries[u]
      /\ entries'[t].state = "consumed" /\ entries'[t].result = "not-delivered" /\ entries'[t].ref = entries[t].ref
  BY <1>1, CancelsSays
<1>4. TokenInv(t) /\ Never(t) /\ \A i \in DOMAIN wire : ~wire[i].heard
  BY <1>1, NothingPending DEF TokenInv, Never
<1>5. /\ told'[t] \cap {"not-delivered", "cancelled", "failed"} # {} => Never(t) /\ entries'[t].state # "live"
      /\ "delivered" \in told'[t] => story.effects[t] = 1
  BY <1>2, <1>3, <1>4 DEF TokenInv
<1>6. \A u \in Tokens : told'[u] = told[u] \/
         /\ told'[u] \cap {"not-delivered", "cancelled", "failed"} # {} => Never(u) /\ entries'[u].state # "live"
         /\ "delivered" \in told'[u] => story.effects[u] = 1
  BY <1>2, <1>5
<1>7. \A u \in Tokens : entries'[u] = entries[u] \/
         (entries[u].state # "none" /\ entries'[u].state = "consumed" /\ entries'[u].ref = entries[u].ref
          /\ entries'[u].result = "not-delivered" /\ Never(u))
  BY <1>1, <1>3, <1>4
<1>8. WorkerInv' /\ (\A u \in Tokens : TokenInv(u)') /\ SendInv' /\ HeardInv'
  BY <1>1, <1>2, <1>3, <1>4, <1>6, <1>7, RestsWell
<1>9. SnapInv' /\ JobInv'
  BY <1>1, <1>2, RefsRest, NothingPending
<1>10. ProcessInv' /\ wire' \in Seq(Message)
  BY <1>1, <1>2, <1>3 DEF ProcessInv, Grows
<1> QED BY <1>1, <1>2, <1>3, <1>8, <1>9, <1>10 DEF SemanticTypeOK

\* A pause cancels every token that is not consumed.
LEMMA PauseStep == ASSUME SemanticInv, Pause PROVE SemanticInv'
<1> USE DEF SemanticInv
<1> DEFINE live == {t \in Tokens : Live(t)}
<1>1. UNCHANGED <<app, helper, parent, plugin, told>> /\ worker.step = "idle" /\ Cancels(live)
      /\ worker \in Worker /\ story \in Story
  BY DEF Pause, SemanticTypeOK
<1>2. worker' \in Worker /\ worker'.step = "retire" /\ worker'.op = "pause"
  BY <1>1 DEF Pause, Worker, Ops
<1>3. /\ story' \in Story /\ story'.published = story.published
      /\ story'.kind = story.kind /\ story'.effects = story.effects /\ story'.shown = story.shown
      /\ story'.proved = story.proved /\ story'.running = story.running /\ story'.retired = story.retired
  <2>1. story' = [story EXCEPT !.pauses = @ - 1] /\ story.pauses > 0
    BY DEF Pause
  <2>2. story.pauses - 1 \in Nat
    BY <1>1, <2>1 DEF Story
  <2> QED BY <1>1, <2>1, <2>2 DEF Story
<1>4. /\ Grows /\ Quietly /\ entries' \in [Tokens -> Entry]
      /\ \A u \in Tokens : u \notin live => entries'[u] = entries[u]
      /\ \A u \in live : entries'[u].state = "consumed" /\ entries'[u].result = "not-delivered"
                         /\ entries'[u].ref = entries[u].ref
  BY <1>1, CancelsSays
<1>5. \A u \in live : Never(u) /\ entries[u].state # "none"
  BY DEF Live, TokenInv, Never
<1>6. \A i \in DOMAIN wire : ~wire[i].heard
  BY <1>1, NothingPending
<1>7. \A u \in Tokens : entries'[u] = entries[u] \/
         (entries[u].state # "none" /\ entries'[u].state = "consumed" /\ entries'[u].ref = entries[u].ref
          /\ entries'[u].result = "not-delivered" /\ Never(u))
  BY <1>4, <1>5
<1> HIDE DEF live
<1>8. WorkerInv' /\ (\A u \in Tokens : TokenInv(u)') /\ SendInv' /\ HeardInv'
  BY <1>1, <1>2, <1>3, <1>4, <1>6, <1>7, RestsWell
<1>9. SnapInv' /\ JobInv'
  BY <1>1, <1>2, <1>3, RefsRest, NothingPending
<1>10. ProcessInv' /\ wire' \in Seq(Message)
  BY <1>1, <1>2, <1>3, <1>4 DEF ProcessInv, Grows
<1> QED BY <1>1, <1>2, <1>3, <1>4, <1>8, <1>9, <1>10 DEF SemanticTypeOK

\* A preparation cancels those that expired, and begins or is refused at the limit.
LEMMA PrepareStep == ASSUME SemanticInv, NEW t \in Tokens, NEW r \in Refs, Prepare(t, r) PROVE SemanticInv'
<1> USE DEF SemanticInv
<1> DEFINE expired == {u \in Tokens : Live(u) /\ entries[u].late}
<1>1. /\ UNCHANGED <<app, helper, parent, plugin>> /\ worker.step = "idle" /\ Cancels(expired)
      /\ entries[t].state = "none" /\ story.shown[r] # Null /\ told[t] = {} /\ story \in Story
  BY DEF Prepare, SemanticTypeOK
<1>2. Answers(t, "not-delivered") \/ (Begins("prepare", t, r) /\ UNCHANGED told)
  BY DEF Prepare
<1>3. /\ story' \in Story /\ story'.published = story.published
      /\ story'.kind = story.kind /\ story'.effects = story.effects /\ story'.shown = story.shown
      /\ story'.proved = story.proved /\ story'.running = story.running /\ ~story'.retired
  BY <1>1 DEF Prepare, Story
<1>4. /\ Grows /\ Quietly /\ entries' \in [Tokens -> Entry]
      /\ \A u \in Tokens : u \notin expired => entries'[u] = entries[u]
      /\ \A u \in expired : entries'[u].state = "consumed" /\ entries'[u].result = "not-delivered"
                            /\ entries'[u].ref = entries[u].ref
  BY <1>1, CancelsSays
<1>5. \A u \in expired : Never(u) /\ entries[u].state # "none"
  BY DEF Live, TokenInv, Never
<1>6. t \notin expired /\ entries'[t] = entries[t] /\ Never(t)
  BY <1>1, <1>4 DEF Live, TokenInv, Never
<1>7. \A u \in Tokens : entries'[u] = entries[u] \/
         (entries[u].state # "none" /\ entries'[u].state = "consumed" /\ entries'[u].ref = entries[u].ref
          /\ entries'[u].result = "not-delivered" /\ Never(u))
  BY <1>4, <1>5
<1>8. \A i \in DOMAIN wire : ~wire[i].heard
  BY <1>1, NothingPending
<1> HIDE DEF expired
<1>9. wire' \in Seq(Message) /\ \A i \in DOMAIN wire' : ~wire'[i].heard
  BY <1>4, <1>8, NobodyWaits
<1>10. CASE Answers(t, "not-delivered")
  <2>1. /\ worker' \in Worker /\ worker'.step = "idle"
        /\ told' \in [Tokens -> SUBSET {"prepared", "failed", "cancelled", "delivered", "not-delivered", "unknown"}]
        /\ told'[t] = told[t] \cup {"not-delivered"} /\ \A u \in Tokens : u # t => told'[u] = told[u]
    BY <1>10, StepsTyped
  <2>2. told'[t] = {"not-delivered"}
    BY <1>1, <2>1
  <2>3. \A u \in Tokens : told'[u] = told[u] \/ (told'[u] = {"not-delivered"} /\ Never(u) /\ entries'[u].state # "live")
    BY <1>1, <1>6, <2>1, <2>2
  <2>4. WorkerInv' /\ (\A u \in Tokens : TokenInv(u)') /\ SendInv' /\ HeardInv'
    BY <1>1, <1>3, <1>4, <1>7, <1>8, <2>1, <2>3, RestsWell
  <2>5. SnapInv' /\ JobInv'
    BY <1>1, <1>3, <2>1, RefsRest, NothingPending
  <2>6. ProcessInv'
    BY <1>1, <1>3 DEF ProcessInv
  <2> QED BY <1>1, <1>3, <1>4, <1>9, <2>1, <2>4, <2>5, <2>6 DEF SemanticTypeOK
<1>11. CASE Begins("prepare", t, r) /\ UNCHANGED told
  <2>1. /\ worker' \in Worker /\ worker'.op = "prepare" /\ worker'.tok = t /\ worker'.ref = r
        /\ worker'.step = "target"
    BY <1>11, BeginsTyped DEF Ops
  <2>2. WorkerInv'
    BY <1>1, <1>3, <1>6, <1>11, <2>1, SemanticAssumption DEF WorkerInv
  <2>3. SendInv' /\ HeardInv'
    BY <1>9, <2>1 DEF SendInv, HeardInv
  <2>4. ~Refused(t)'
    BY <1>1, <1>11 DEF Refused
  <2>5. \A u \in Tokens : TokenInv(u)'
    BY <1>1, <1>3, <1>4, <1>7, <1>11, <2>1, <2>4, TokenStands
  <2>6. SnapInv' /\ JobInv'
    BY <1>1, <1>3, <2>1, RefsRest, NothingPending
  <2>7. ProcessInv'
    BY <1>1, <1>3 DEF ProcessInv
  <2>8. told' \in [Tokens -> SUBSET {"prepared", "failed", "cancelled", "delivered", "not-delivered", "unknown"}]
    BY <1>11 DEF SemanticTypeOK
  <2> QED BY <1>1, <1>3, <1>4, <1>9, <2>1, <2>2, <2>3, <2>5, <2>6, <2>7, <2>8 DEF SemanticTypeOK
<1> QED BY <1>2, <1>10, <1>11

\* A send consumes its token before anything else, or repeats the token's result.
LEMMA SendStep == ASSUME SemanticInv, NEW t \in Tokens, Send(t) PROVE SemanticInv'
<1> USE DEF SemanticInv
<1>1. /\ UNCHANGED <<app, helper, parent, plugin, wire>> /\ worker.step = "idle"
      /\ story \in Story /\ entries \in [Tokens -> Entry] /\ wire \in Seq(Message)
  BY DEF Send, SemanticTypeOK
<1>2. /\ story' \in Story /\ story'.published = story.published
      /\ story'.kind = story.kind /\ story'.effects = story.effects /\ story'.shown = story.shown
      /\ story'.proved = story.proved /\ story'.running = story.running /\ ~story'.retired
  <2>1. story' = [story EXCEPT !.sends = @ - 1, !.retired = FALSE] /\ story.sends > 0
    BY DEF Send
  <2>2. story.sends - 1 \in Nat
    BY <1>1, <2>1 DEF Story
  <2> QED BY <1>1, <2>1, <2>2 DEF Story
<1>3. Grows /\ Quietly /\ \A i \in DOMAIN wire : ~wire[i].heard
  BY <1>1, StaysGrows, NothingPending
<1>4. \A i \in DOMAIN wire' : ~wire'[i].heard
  BY <1>1, <1>3
<1>5. TokenInv(t) /\ entries[t] \in Entry
  BY <1>1
<1>6. ProcessInv'
  BY <1>1, <1>2 DEF ProcessInv
<1>7. CASE Live(t)
  <2>1. /\ entries' = [entries EXCEPT ![t] = [entries[t] EXCEPT !.state = "consumed", !.result = "unknown"]]
        /\ Begins("send", t, entries[t].ref) /\ UNCHANGED told
    BY <1>1, <1>7 DEF Send
  <2>2. LET e == [entries[t] EXCEPT !.state = "consumed", !.result = "unknown"] IN
        e \in Entry /\ e.state = "consumed" /\ e.ref = entries[t].ref /\ e.result = "unknown"
    BY <1>5 DEF Entry
  <2>3. /\ entries' \in [Tokens -> Entry] /\ \A u \in Tokens : u # t => entries'[u] = entries[u]
        /\ entries'[t].state = "consumed" /\ entries'[t].ref = entries[t].ref /\ entries'[t].result = "unknown"
    BY <1>1, <2>1, <2>2
  <2>4. Quiet(t) /\ ~Refused(t) /\ entries[t].ref \in Refs /\ story.shown[entries[t].ref] # Null
    BY <1>5, <1>7 DEF Live, TokenInv
  <2>5. /\ worker' \in Worker /\ worker'.op = "send" /\ worker'.tok = t /\ worker'.ref = entries[t].ref
        /\ worker'.step = "target"
    BY <2>1, <2>4, BeginsTyped DEF Ops
  <2>6. WorkerInv'
    BY <1>2, <2>3, <2>4, <2>5 DEF WorkerInv
  <2>7. Quiet(t)'
    BY <1>1, <1>2, <1>3, <2>4, GrownIsSame
  <2>8. SendInv' /\ HeardInv'
    BY <1>4, <2>5, <2>7 DEF SendInv, HeardInv
  <2>9. ~Refused(t)'
    BY <2>1, <2>4 DEF Refused
  <2>10. entries[t].state # "none"
    BY <1>7 DEF Live
  <2>11. \A u \in Tokens : TokenInv(u)'
    BY <1>1, <1>2, <1>3, <2>1, <2>3, <2>5, <2>9, <2>10, TokenStands
  <2>12. SnapInv' /\ JobInv'
    BY <1>1, <1>2, <2>5, RefsRest, NothingPending
  <2> QED BY <1>1, <1>2, <1>6, <2>1, <2>3, <2>5, <2>6, <2>8, <2>11, <2>12 DEF SemanticTypeOK
<1>8. CASE ~Live(t)
  <2>1. Answers(t, entries[t].result) /\ UNCHANGED entries
    BY <1>8 DEF Send
  <2>2. PICK a \in {"unknown", "not-delivered", "delivered"} : a = entries[t].result
    BY <1>5 DEF Entry
  <2>3. /\ worker' \in Worker /\ worker'.step = "idle"
        /\ told' \in [Tokens -> SUBSET {"prepared", "failed", "cancelled", "delivered", "not-delivered", "unknown"}]
        /\ told'[t] = told[t] \cup {a} /\ \A u \in Tokens : u # t => told'[u] = told[u]
    BY <2>1, <2>2, StepsTyped
  <2>4. entries[t].state = "consumed" \/ (entries[t].state = "none" /\ a = "unknown")
    BY <1>5, <1>8, <2>2 DEF Live, TokenInv, Entry
  <2>5. /\ a = "not-delivered" => Never(t)
        /\ a = "delivered" => story.effects[t] = 1
    BY <1>5, <2>2, <2>4 DEF TokenInv
  <2>6. /\ told'[t] \cap {"not-delivered", "cancelled", "failed"} # {} => Never(t) /\ entries'[t].state # "live"
        /\ "delivered" \in told'[t] => story.effects[t] = 1
    <3>1. told'[t] \cap {"not-delivered", "cancelled", "failed"} # {} => a = "not-delivered" \/ Refused(t)
      BY <2>3 DEF Refused
    <3>2. "delivered" \in told'[t] => a = "delivered" \/ "delivered" \in told[t]
      BY <2>3
    <3> QED BY <1>5, <1>8, <2>1, <2>5, <3>1, <3>2 DEF TokenInv, Live
  <2>7. \A u \in Tokens : told'[u] = told[u] \/
           /\ told'[u] \cap {"not-delivered", "cancelled", "failed"} # {} => Never(u) /\ entries'[u].state # "live"
           /\ "delivered" \in told'[u] => story.effects[u] = 1
    BY <2>3, <2>6
  <2>8. WorkerInv' /\ (\A u \in Tokens : TokenInv(u)') /\ SendInv' /\ HeardInv'
    BY <1>1, <1>2, <1>3, <2>1, <2>3, <2>7, RestsWell
  <2>9. SnapInv' /\ JobInv'
    BY <1>1, <1>2, <2>3, RefsRest, NothingPending
  <2> QED BY <1>1, <1>2, <1>6, <2>1, <2>3, <2>8, <2>9 DEF SemanticTypeOK
<1> QED BY <1>7, <1>8

\* A helper that is destroyed leaves a process only where it could not be reaped (_destroy).
LEMMA DestroysWell ==
    ASSUME SemanticInv, NEW retire \in BOOLEAN, Destroys(retire)
    PROVE  /\ helper' \in Helper /\ helper'.job = Null /\ helper'.snaps = NoSnaps
           /\ parent' \in Parent /\ story' \in Story /\ story'.published = story.published
           /\ story'.kind = story.kind /\ story'.effects = story.effects /\ story'.shown = story.shown
           /\ story'.proved = story.proved
           /\ story'.running \subseteq {parent'.child} \ {Null} /\ (story'.retired => retire /\ story'.running = {})
<1>1. parent \in Parent /\ story \in Story
  BY DEF SemanticInv, SemanticTypeOK
<1>2. PICK reaped \in BOOLEAN :
        /\ ~reaped => helper.up /\ story.stuck > 0
        /\ helper' = Gone
        /\ parent' = [parent EXCEPT !.sock = FALSE, !.child = IF reaped THEN Null ELSE @,
                                    !.closed = IF retire THEN ~reaped ELSE @]
        /\ story' = [story EXCEPT !.running = IF reaped THEN @ \ {parent.child} ELSE @,
                                  !.stuck = IF reaped THEN @ ELSE @ - 1,
                                  !.retired = retire /\ reaped]
  BY DEF Destroys
<1>3. helper' \in Helper /\ helper'.job = Null /\ helper'.snaps = NoSnaps
  BY <1>2 DEF Gone, Helper, NoSnaps
<1>4. story.running \subseteq {parent.child} \ {Null}
  BY DEF SemanticInv, ProcessInv
<1>5. CASE reaped
  <2>1. /\ parent' = [parent EXCEPT !.sock = FALSE, !.child = Null, !.closed = IF retire THEN FALSE ELSE @]
        /\ story' = [story EXCEPT !.running = story.running \ {parent.child}, !.stuck = story.stuck, !.retired = retire]
    BY <1>1, <1>2, <1>5 DEF Story, Parent
  <2>2. story.running \ {parent.child} = {}
    BY <1>4
  <2> QED BY <1>1, <1>3, <2>1, <2>2 DEF Parent, Story
<1>6. CASE ~reaped
  <2>1. /\ parent' = [parent EXCEPT !.sock = FALSE, !.child = parent.child, !.closed = IF retire THEN TRUE ELSE @]
        /\ story' = [story EXCEPT !.running = story.running, !.stuck = story.stuck - 1, !.retired = FALSE]
    BY <1>1, <1>2, <1>6 DEF Story, Parent
  <2>2. story.stuck - 1 \in Nat
    BY <1>1, <1>2, <1>6 DEF Story
  <2> QED BY <1>1, <1>3, <1>4, <2>1, <2>2 DEF Parent, Story
<1> QED BY <1>5, <1>6

\* A pause retires the helper (_retire_a11y_host).
LEMMA RetireStep == ASSUME SemanticInv, Retire PROVE SemanticInv'
<1> USE DEF SemanticInv
<1>1. UNCHANGED <<app, entries, plugin, wire, told>> /\ Destroys(TRUE) /\ Idles /\ worker.step = "retire"
  BY DEF Retire
<1>2. /\ helper' \in Helper /\ helper'.job = Null /\ helper'.snaps = NoSnaps
      /\ parent' \in Parent /\ story' \in Story /\ story'.published = story.published
      /\ story'.kind = story.kind /\ story'.effects = story.effects /\ story'.shown = story.shown
      /\ story'.proved = story.proved
      /\ story'.running \subseteq {parent'.child} \ {Null} /\ (story'.retired => story'.running = {})
  BY <1>1, DestroysWell
<1>3. worker' \in Worker /\ worker'.step = "idle"
  BY <1>1, StepsTyped
<1>4. Grows /\ Quietly /\ \A i \in DOMAIN wire : ~wire[i].heard
  BY <1>1, StaysGrows, NothingPending
<1>5. WorkerInv' /\ (\A u \in Tokens : TokenInv(u)') /\ SendInv' /\ HeardInv'
  BY <1>1, <1>2, <1>3, <1>4, RestsWell
<1>6. SnapInv' /\ JobInv'
  BY <1>2, <1>3, RefsRest
<1>7. ProcessInv'
  BY <1>2, <1>3 DEF ProcessInv
<1> QED BY <1>1, <1>2, <1>3, <1>5, <1>6, <1>7 DEF SemanticTypeOK

\* While an operation looks at the window and at the helper, nothing is sent (_target, _tree).
LEMMA LooksWell ==
    ASSUME SemanticInv, UNCHANGED <<entries, plugin, wire, told>>, worker.step \in {"target", "tree", "after"},
           story'.kind = story.kind, story'.effects = story.effects, story'.shown = story.shown,
           \A t \in Tokens : Quiet(t) \/ story'.proved[t] = story.proved[t],
           worker'.op = worker.op, worker'.tok = worker.tok,
           worker'.step \in {"target", "tree", "after", "place", "dispatch"},
           worker'.step = "place" => worker.op = "prepare",
           worker'.step = "dispatch" => worker.op = "send" /\ story'.proved[worker.tok] = story.shown[worker.ref],
           worker.op = "observe" => (worker'.step = "after" <=> worker'.ref # Null),
           worker.op \in {"prepare", "send"} => worker'.ref = worker.ref
    PROVE  WorkerInv' /\ (\A t \in Tokens : TokenInv(t)') /\ SendInv' /\ HeardInv'
<1> USE DEF SemanticInv
<1>1. Grows /\ Quietly /\ \A i \in DOMAIN wire : ~wire[i].heard
  BY StaysGrows, NothingPending
<1>2. worker.op \in {"observe", "prepare", "send"}
  BY DEF WorkerInv
<1>3. \A t \in Tokens : Click(t)' <=> Click(t)
  BY DEF Click
<1>4. WorkerInv'
  BY <1>2, <1>3 DEF WorkerInv
<1>5. \A t \in Tokens : worker.tok = t => ~Refused(t)
  BY DEF TokenInv
<1>6. \A t \in Tokens : Refused(t)' <=> Refused(t)
  BY DEF Refused
<1>7. \A t \in Tokens : TokenInv(t)'
  BY <1>1, <1>5, <1>6, TokenStands
<1>8. \A t \in Tokens : Quiet(t)' <=> Quiet(t)
  BY <1>1, GrownIsSame
<1>9. worker.op = "send" => worker.tok \in Tokens /\ Quiet(worker.tok)
  BY DEF WorkerInv, SendInv
<1>10. SendInv'
  BY <1>8, <1>9 DEF SendInv
<1>11. HeardInv'
  BY <1>1 DEF HeardInv
<1> QED BY <1>4, <1>7, <1>10, <1>11

\* The helper that is asked is the warm one, or one of its own process (observe, _start).
LEMMA ObservesWell ==
    ASSUME SemanticInv, NEW r \in Refs \cup {Null}, Observes(r), ~story.retired
    PROVE  /\ helper' \in Helper /\ helper'.job = Request(r) /\ Request(r) \in Job
           /\ helper'.snaps = helper.snaps \/ helper'.snaps = NoSnaps
           /\ parent' \in Parent /\ story' \in Story /\ story'.published = story.published
           /\ story'.kind = story.kind /\ story'.effects = story.effects /\ story'.shown = story.shown
           /\ story'.proved = story.proved /\ ProcessInv'
<1>1. parent \in Parent /\ story \in Story /\ helper \in Helper /\ ProcessInv
  BY DEF SemanticInv, SemanticTypeOK
<1>2. Request(r) \in Job
  BY DEF Request, Job
<1>3. CASE Warm /\ helper' = [helper EXCEPT !.job = Request(r)] /\ UNCHANGED <<parent, story>>
  <2>1. helper' \in Helper /\ helper'.job = Request(r) /\ helper'.snaps = helper.snaps
    BY <1>1, <1>2, <1>3 DEF Helper
  <2>2. ProcessInv'
    BY <1>1, <1>3 DEF ProcessInv
  <2> QED BY <1>1, <1>2, <1>3, <2>1, <2>2
<1>4. CASE /\ Startable
           /\ helper' = [Gone EXCEPT !.up = TRUE, !.job = Request(r)]
           /\ parent' = [parent EXCEPT !.sock = TRUE, !.child = parent.next, !.next = @ + 1]
           /\ story' = [story EXCEPT !.running = @ \cup {parent.next}]
  <2>1. parent.next \in Nat /\ parent.next + 1 \in Nat /\ parent.child = Null
    BY <1>1, <1>4 DEF Parent, Startable
  <2>2. NoSnaps \in [Refs -> Snap \cup {Null}]
    BY DEF NoSnaps
  <2>3. helper' \in Helper /\ helper'.job = Request(r) /\ helper'.snaps = NoSnaps
    BY <1>2, <1>4, <2>2 DEF Gone, Helper
  <2>4. parent' \in Parent /\ parent'.child = parent.next
    BY <1>1, <1>4, <2>1 DEF Parent
  <2>5. story.running = {}
    BY <1>1, <2>1 DEF ProcessInv
  <2>6. story.running \cup {parent.next} \in SUBSET Nat /\ story.running \cup {parent.next} = {parent.next}
    BY <2>1, <2>5
  <2>7. /\ story' \in Story /\ story'.published = story.published /\ story'.running = {parent.next}
        /\ story'.kind = story.kind /\ story'.effects = story.effects /\ story'.shown = story.shown
        /\ story'.proved = story.proved /\ story'.retired = story.retired
    BY <1>1, <1>4, <2>6 DEF Story
  <2>8. ProcessInv'
    BY <2>1, <2>4, <2>7, SemanticAssumption DEF ProcessInv
  <2> QED BY <1>2, <2>3, <2>4, <2>7, <2>8
<1> QED BY <1>3, <1>4 DEF Observes

\* An operation looks at its window and asks the helper (_target, _tree).
LEMMA TargetsStep == ASSUME SemanticInv, Targets PROVE SemanticInv'
<1> USE DEF SemanticInv
<1>1. UNCHANGED <<app, plugin>> /\ worker.step = "target" /\ worker \in Worker /\ app \in App
  BY DEF Targets, SemanticTypeOK
<1>2. worker.op \in {"observe", "prepare", "send"} /\ ~story.retired
  BY <1>1 DEF WorkerInv, ProcessInv
<1>3. helper.job = Null /\ \A i \in DOMAIN wire : ~wire[i].heard
  BY <1>1, NothingPending
<1>4. CASE app.open /\ (Warm \/ Startable)
  <2>1. /\ Observes(worker.ref) /\ worker' = [worker EXCEPT !.step = "tree", !.title = app.title]
        /\ UNCHANGED <<entries, wire, told>>
    BY <1>4 DEF Targets
  <2>2. worker.ref \in Refs \cup {Null}
    BY <1>1 DEF Worker
  <2>3. /\ helper' \in Helper /\ helper'.job = Request(worker.ref) /\ Request(worker.ref) \in Job
        /\ helper'.snaps = helper.snaps \/ helper'.snaps = NoSnaps
        /\ parent' \in Parent /\ story' \in Story /\ story'.published = story.published
        /\ story'.kind = story.kind /\ story'.effects = story.effects /\ story'.shown = story.shown
        /\ story'.proved = story.proved /\ ProcessInv'
    BY <1>2, <2>1, <2>2, ObservesWell
  <2>4. /\ worker' \in Worker /\ worker'.step = "tree" /\ worker'.op = worker.op /\ worker'.tok = worker.tok
        /\ worker'.ref = worker.ref
    <3>1. app.title \in 0 .. 1
      BY <1>1 DEF App
    <3> QED BY <1>1, <2>1, <3>1 DEF Worker
  <2>5. worker.op = "observe" => worker.ref = Null
    BY <1>1 DEF WorkerInv
  <2>6. WorkerInv' /\ (\A t \in Tokens : TokenInv(t)') /\ SendInv' /\ HeardInv'
    BY <1>1, <2>1, <2>3, <2>4, <2>5, LooksWell
  <2>7. SnapInv'
    BY <2>3 DEF SnapInv, NoSnaps
  <2>8. worker.ref = Null => \E r \in Refs : ~story.published[r]
    BY <1>1, <1>2, SemanticAssumption DEF JobInv, WorkerInv
  <2>9. /\ Request(worker.ref).ref = worker.ref /\ Request(worker.ref).phase = "asked"
        /\ Request(worker.ref).reply = Null /\ Null # "ok"
    BY SemanticAssumption DEF Request, Replies
  <2>10. JobInv'
    BY <2>3, <2>4, <2>8, <2>9 DEF JobInv
  <2> QED BY <1>1, <2>1, <2>3, <2>4, <2>6, <2>7, <2>10 DEF SemanticTypeOK
<1>5. CASE ~(app.open /\ (Warm \/ Startable))
  <2>1. PICK a \in {"not-delivered", "unknown"} : a = IF app.open THEN "not-delivered" ELSE "unknown"
    OBVIOUS
  <2>2. Fails(a)
    BY <1>5, <2>1 DEF Targets
  <2>3. /\ helper' \in Helper /\ helper'.job = Null
        /\ helper'.snaps = helper.snaps \/ helper'.snaps = NoSnaps
        /\ parent' \in Parent /\ story' \in Story /\ story'.published = story.published
        /\ story'.kind = story.kind /\ story'.effects = story.effects /\ story'.shown = story.shown
        /\ story'.proved = story.proved /\ ProcessInv'
    <3>1. CASE app.open
      <4>1. Destroys(FALSE)
        BY <1>5, <3>1 DEF Targets
      <4> QED BY <4>1, DestroysWell DEF ProcessInv
    <3>2. CASE ~app.open
      <4>1. UNCHANGED <<parent, helper, story>>
        BY <1>5, <3>2 DEF Targets
      <4> QED BY <1>2, <1>3, <4>1 DEF SemanticTypeOK, ProcessInv
    <3> QED BY <3>1, <3>2
  <2>4. worker.op = "send" => Never(worker.tok)
    BY <1>1 DEF SendInv, Never
  <2>5. /\ worker' \in Worker /\ worker'.step = "idle" /\ entries' \in [Tokens -> Entry] /\ wire' \in Seq(Message)
        /\ told' \in [Tokens -> SUBSET {"prepared", "failed", "cancelled", "delivered", "not-delivered", "unknown"}]
        /\ WorkerInv' /\ (\A t \in Tokens : TokenInv(t)') /\ SendInv' /\ HeardInv'
    BY <1>1, <1>2, <1>3, <2>2, <2>3, <2>4, FailsWell
  <2>6. SnapInv' /\ JobInv'
    BY <2>3, <2>5, RefsRest
  <2> QED BY <1>1, <2>3, <2>5, <2>6 DEF SemanticTypeOK
<1> QED BY <1>4, <1>5

\* The answer of the helper is taken.
LEMMA HearsTreeStep == ASSUME SemanticInv, HearsTree PROVE SemanticInv'
<1> USE DEF SemanticInv
<1>1. /\ UNCHANGED <<app, parent, plugin, story>> /\ worker.step = "tree" /\ worker \in Worker
      /\ helper \in Helper /\ helper.job.phase = "done"
  BY DEF HearsTree, SemanticTypeOK
<1>2. worker.op \in {"observe", "prepare", "send"} /\ ~story.retired
  BY <1>1 DEF WorkerInv, ProcessInv
<1>3. helper' \in Helper /\ helper'.job = Null /\ helper'.snaps = helper.snaps
  BY <1>1 DEF HearsTree, Helper
<1>4. \A i \in DOMAIN wire : ~wire[i].heard
  BY <1>1, NothingPending
<1>5. ProcessInv'
  BY <1>1, <1>2 DEF ProcessInv
<1> DEFINE j == helper.job
<1>6. CASE j.reply = "ok" /\ j # Null
  <2>1. /\ worker' = [worker EXCEPT !.step = "after", !.ref = j.ref, !.inc = j.inc, !.owner = j.owner]
        /\ UNCHANGED <<entries, wire, told>>
    BY <1>6 DEF HearsTree
  <2>2. j \in Job
    BY <1>1, <1>6 DEF Helper
  <2>3. /\ worker' \in Worker /\ worker'.step = "after" /\ worker'.op = worker.op /\ worker'.tok = worker.tok
        /\ worker'.ref = j.ref /\ worker'.inc = j.inc
    BY <1>1, <2>1, <2>2 DEF Worker, Job
  <2>4. worker.ref # Null => j.ref = worker.ref /\ j.inc = story.shown[worker.ref]
    BY <1>6 DEF JobInv
  <2>5. worker.ref = Null => j.ref \in Refs /\ New(j.ref, j.inc)
    BY <1>6 DEF JobInv
  <2>6. worker.op = "observe" => worker.ref = Null
    BY <1>1 DEF WorkerInv
  <2>7. worker.op # "observe" => worker.ref # Null
    BY <1>1, <1>2, SemanticAssumption DEF WorkerInv
  <2>8. WorkerInv' /\ (\A t \in Tokens : TokenInv(t)') /\ SendInv' /\ HeardInv'
    BY <1>1, <1>2, <2>1, <2>3, <2>4, <2>5, <2>6, <2>7, SemanticAssumption, LooksWell
  <2>9. SnapInv'
    BY <1>1, <1>3 DEF SnapInv
  <2>10. \A r, inc : New(r, inc)' <=> New(r, inc)
    BY <1>1, <1>3 DEF New
  <2>11. JobInv'
    BY <1>1, <1>3, <2>3, <2>4, <2>5, <2>6, <2>7, <2>10 DEF JobInv
  <2> QED BY <1>1, <1>3, <1>5, <2>1, <2>3, <2>8, <2>9, <2>11 DEF SemanticTypeOK
<1>7. CASE j.reply # "ok"
  <2>1. PICK a \in {"not-delivered", "unknown"} : a = IF j.reply = "ref-error" THEN "unknown" ELSE "not-delivered"
    OBVIOUS
  <2>2. Fails(a)
    BY <1>7, <2>1 DEF HearsTree
  <2>3. worker.op = "send" => Never(worker.tok)
    BY <1>1 DEF SendInv, Never
  <2>4. /\ worker' \in Worker /\ worker'.step = "idle" /\ entries' \in [Tokens -> Entry] /\ wire' \in Seq(Message)
        /\ told' \in [Tokens -> SUBSET {"prepared", "failed", "cancelled", "delivered", "not-delivered", "unknown"}]
        /\ WorkerInv' /\ (\A t \in Tokens : TokenInv(t)') /\ SendInv' /\ HeardInv'
    BY <1>1, <1>2, <1>4, <2>2, <2>3, FailsWell
  <2>5. SnapInv' /\ JobInv'
    BY <1>1, <1>3, <2>4, RefsRest
  <2> QED BY <1>1, <1>3, <1>5, <2>4, <2>5 DEF SemanticTypeOK
<1>8. j # Null
  BY DEF HearsTree
<1> QED BY <1>6, <1>7, <1>8

\* The helper does not answer in time, and is destroyed.
LEMMA LosesTreeStep == ASSUME SemanticInv, LosesTree PROVE SemanticInv'
<1> USE DEF SemanticInv
<1>1. /\ UNCHANGED <<app, plugin>> /\ worker.step = "tree" /\ Fails("not-delivered")
      /\ parent \in Parent /\ story \in Story
  BY DEF LosesTree, SemanticTypeOK
<1>2. worker.op \in {"observe", "prepare", "send"} /\ ~story.retired
  BY <1>1 DEF WorkerInv, ProcessInv
<1>3. \A i \in DOMAIN wire : ~wire[i].heard
  BY <1>1, NothingPending
<1>4. PICK reaped \in BOOLEAN :
        /\ ~reaped => helper.up /\ story.stuck > 0
        /\ helper' = Gone
        /\ parent' = [parent EXCEPT !.sock = FALSE, !.child = IF reaped THEN Null ELSE @]
        /\ story' = [story EXCEPT !.running = IF reaped THEN @ \ {parent.child} ELSE @,
                                  !.stuck = IF reaped THEN @ ELSE @ - 1,
                                  !.losses = IF helper.up THEN @ - 1 ELSE @]
  BY DEF LosesTree
<1>5. helper' \in Helper /\ helper'.job = Null /\ helper'.snaps = NoSnaps
  BY <1>4 DEF Gone, Helper, NoSnaps
<1>6. PICK stuck \in Nat : stuck = IF reaped THEN story.stuck ELSE story.stuck - 1
  BY <1>1, <1>4 DEF Story
<1>7. PICK losses \in Nat : losses = IF helper.up THEN story.losses - 1 ELSE story.losses
  <2>1. helper.up => story.losses > 0
    BY DEF LosesTree
  <2> QED BY <1>1, <2>1 DEF Story
<1>8. PICK running \in SUBSET Nat : running = IF reaped THEN story.running \ {parent.child} ELSE story.running
  BY <1>1 DEF Story
<1>9. story' = [story EXCEPT !.running = running, !.stuck = stuck, !.losses = losses]
  BY <1>4, <1>6, <1>7, <1>8
<1>10. /\ story' \in Story /\ story'.published = story.published /\ story'.running = running
       /\ story'.kind = story.kind /\ story'.effects = story.effects /\ story'.shown = story.shown
       /\ story'.proved = story.proved /\ story'.retired = story.retired
  BY <1>1, <1>9 DEF Story
<1>11. parent' \in Parent /\ parent'.child = IF reaped THEN Null ELSE parent.child
  BY <1>1, <1>4 DEF Parent
<1>12. ProcessInv'
  <2>1. story.running \subseteq {parent.child} \ {Null}
    BY DEF ProcessInv
  <2> QED BY <1>2, <1>8, <1>10, <1>11, <2>1 DEF ProcessInv
<1>13. worker.op = "send" => Never(worker.tok)
  BY <1>1 DEF SendInv, Never
<1>14. /\ worker' \in Worker /\ worker'.step = "idle" /\ entries' \in [Tokens -> Entry] /\ wire' \in Seq(Message)
       /\ told' \in [Tokens -> SUBSET {"prepared", "failed", "cancelled", "delivered", "not-delivered", "unknown"}]
       /\ WorkerInv' /\ (\A t \in Tokens : TokenInv(t)') /\ SendInv' /\ HeardInv'
  BY <1>1, <1>2, <1>3, <1>10, <1>13, FailsWell
<1>15. SnapInv' /\ JobInv'
  BY <1>5, <1>10, <1>14, RefsRest
<1> QED BY <1>1, <1>5, <1>10, <1>11, <1>12, <1>14, <1>15 DEF SemanticTypeOK

\* What becomes of the rest of a step that fails where nothing was asked of the helper.
LEMMA FailsAlone ==
    ASSUME SemanticInv, NEW a \in {"not-delivered", "unknown"}, Fails(a), UNCHANGED <<app, helper, parent, plugin>>,
           worker.step \in {"target", "after", "place", "prepares", "dispatch", "sends"},
           \A i \in DOMAIN wire : ~wire[i].heard,
           story' \in Story, story'.published = story.published, story'.kind = story.kind,
           story'.effects = story.effects, story'.shown = story.shown, story'.running = story.running,
           story'.retired = story.retired,
           \A t \in Tokens : Quiet(t) \/ story'.proved[t] = story.proved[t],
           a = "not-delivered" /\ worker.op = "send" => Never(worker.tok)
    PROVE  SemanticInv'
<1> USE DEF SemanticInv
<1>1. worker.op \in {"observe", "prepare", "send"} /\ ~story.retired /\ helper.job = Null
  BY DEF WorkerInv, ProcessInv, JobInv
<1>2. /\ worker' \in Worker /\ worker'.step = "idle" /\ entries' \in [Tokens -> Entry] /\ wire' \in Seq(Message)
      /\ told' \in [Tokens -> SUBSET {"prepared", "failed", "cancelled", "delivered", "not-delivered", "unknown"}]
      /\ WorkerInv' /\ (\A t \in Tokens : TokenInv(t)') /\ SendInv' /\ HeardInv'
  BY <1>1, FailsWell
<1>3. SnapInv' /\ JobInv'
  BY <1>1, <1>2, RefsRest
<1>4. ProcessInv'
  BY <1>1 DEF ProcessInv
<1> QED BY <1>2, <1>3, <1>4 DEF SemanticTypeOK

\* The broker does not admit the dispatch.
LEMMA UnapprovedStep == ASSUME SemanticInv, Unapproved PROVE SemanticInv'
<1> USE DEF SemanticInv
<1>1. /\ story \in Story /\ worker.step = "dispatch" /\ UNCHANGED <<app, helper, parent, plugin>>
      /\ story.losses > 0 /\ story' = [story EXCEPT !.losses = @ - 1] /\ Fails("unknown")
  BY DEF Unapproved, SemanticTypeOK
<1>2. story.losses - 1 \in Nat
  BY <1>1 DEF Story
<1>3. /\ story' \in Story /\ story'.published = story.published
      /\ story'.kind = story.kind /\ story'.effects = story.effects /\ story'.shown = story.shown
      /\ story'.proved = story.proved /\ story'.running = story.running /\ story'.retired = story.retired
  BY <1>1, <1>2 DEF Story
<1>4. \A i \in DOMAIN wire : ~wire[i].heard
  BY <1>1, NothingPending
<1> QED BY <1>1, <1>3, <1>4, FailsAlone

\* The place of a widget is read once more, and its token is prepared (_reference_point).
LEMMA PlacesStep == ASSUME SemanticInv, Places PROVE SemanticInv'
<1> USE DEF SemanticInv
<1>1. /\ UNCHANGED <<app, helper, parent, plugin, story>> /\ worker.step = "place" /\ story \in Story
      /\ entries \in [Tokens -> Entry] /\ worker \in Worker /\ app \in App
  BY DEF Places, SemanticTypeOK
<1>2. \A i \in DOMAIN wire : ~wire[i].heard
  BY <1>1, NothingPending
<1>3. CASE ~app.open
  <2>1. Fails("unknown")
    BY <1>3 DEF Places
  <2> QED BY <1>1, <1>2, <2>1, FailsAlone
<1>4. CASE app.open
  <2>1. worker.op = "prepare" /\ worker.ref \in Refs /\ story.shown[worker.ref] # Null
    BY <1>1 DEF WorkerInv
  <2>2. PICK t \in Tokens : t = worker.tok
    BY <1>1, <2>1 DEF WorkerInv
  <2>3. entries[t].state = "none" /\ told[t] = {} /\ TokenInv(t) /\ entries[t] \in Entry
    BY <1>1, <2>1, <2>2 DEF WorkerInv
  <2>4. Quiet(t) /\ entries[t].result = "unknown"
    BY <2>3 DEF TokenInv
  <2> DEFINE e == [entries[t] EXCEPT !.state = "live", !.ref = worker.ref, !.owner = worker.owner, !.place = app.place]
  <2>5. entries' = [entries EXCEPT ![t] = e] /\ Answers(t, "prepared") /\ UNCHANGED wire
    BY <1>4, <2>2 DEF Places
  <2>6. e \in Entry /\ e.state = "live" /\ e.ref = worker.ref /\ e.result = "unknown"
    BY <1>1, <2>1, <2>3, <2>4 DEF Entry, Worker, App
  <2> HIDE DEF e
  <2>7. entries' \in [Tokens -> Entry] /\ entries'[t] = e /\ \A u \in Tokens : u # t => entries'[u] = entries[u]
    BY <1>1, <2>5, <2>6
  <2>8. /\ worker' \in Worker /\ worker'.step = "idle"
        /\ told' \in [Tokens -> SUBSET {"prepared", "failed", "cancelled", "delivered", "not-delivered", "unknown"}]
        /\ told'[t] = told[t] \cup {"prepared"} /\ \A u \in Tokens : u # t => told'[u] = told[u]
    BY <2>5, StepsTyped
  <2>9. told'[t] = {"prepared"}
    BY <2>3, <2>8
  <2>10. ~Refused(t)' /\ "delivered" \notin told'[t]
    BY <2>9 DEF Refused
  <2>11. Grows
    BY <2>5, StaysGrows
  <2>12. ASSUME NEW u \in Tokens PROVE TokenInv(u)'
    <3>1. CASE u = t
      BY <1>1, <2>1, <2>3, <2>4, <2>6, <2>7, <2>8, <2>10, <2>11, <3>1, TokenStands
    <3>2. CASE u # t
      BY <1>1, <2>7, <2>8, <2>11, <3>2, TokenStands
    <3> QED BY <3>1, <3>2
  <2>13. WorkerInv' /\ SendInv' /\ HeardInv'
    BY <1>2, <2>5, <2>8 DEF WorkerInv, SendInv, HeardInv
  <2>14. SnapInv' /\ JobInv'
    BY <1>1, <2>8, RefsRest, NothingPending
  <2>15. ProcessInv'
    BY <1>1, <2>8 DEF ProcessInv
  <2> QED BY <1>1, <2>5, <2>7, <2>8, <2>12, <2>13, <2>14, <2>15 DEF SemanticTypeOK
<1> QED BY <1>3, <1>4

\* A request goes to the end of the wire (Requests).
LEMMA RequestsSays ==
    ASSUME SemanticInv, NEW cmd \in {"prepare", "status", "send", "click"}, NEW t \in Tokens, Requests(cmd, t)
    PROVE  /\ wire' \in Seq(Message) /\ Len(wire') = Len(wire) + 1 /\ Len(wire) \in Nat
           /\ DOMAIN wire = 1 .. Len(wire) /\ DOMAIN wire' = 1 .. Len(wire')
           /\ \A i \in 1 .. Len(wire) : wire'[i] = wire[i]
           /\ wire'[Len(wire')].cmd = cmd /\ wire'[Len(wire')].tok = t
<1> DEFINE q == [cmd |-> cmd, tok |-> t, heard |-> TRUE]
<1>1. q \in Message /\ wire \in Seq(Message) /\ q.cmd = cmd /\ q.tok = t
  BY DEF Message, SemanticInv, SemanticTypeOK
<1>2. wire' = Append(wire, q)
  BY DEF Requests
<1> HIDE DEF q
<1> QED BY <1>1, <1>2

\* One answer is awaited where a request is made and none was before.
LEMMA RequestWaits ==
    ASSUME SemanticInv, NEW cmd \in {"prepare", "status", "send", "click"}, NEW t \in Tokens, Requests(cmd, t),
           \A i \in DOMAIN wire : ~wire[i].heard, worker'.tok = t,
           worker'.step \in {"prepares", "sends"}, worker'.answer = Null
    PROVE  HeardInv'
<1>1. /\ Len(wire') = Len(wire) + 1 /\ Len(wire) \in Nat
      /\ DOMAIN wire = 1 .. Len(wire) /\ DOMAIN wire' = 1 .. Len(wire')
      /\ \A i \in 1 .. Len(wire) : wire'[i] = wire[i]
      /\ wire'[Len(wire')].tok = t
  BY RequestsSays
<1>2. \A i \in DOMAIN wire' : wire'[i].heard => i = Len(wire')
  BY <1>1
<1> QED BY <1>1, <1>2 DEF HeardInv

\* A request without an effect goes out: to prepare, or to ask how it goes.
LEMMA AsksWell ==
    ASSUME SemanticInv, NEW cmd \in {"prepare", "status"}, NEW t \in Tokens, t = worker.tok, ~Click(t),
           NEW step \in {"prepares", "sends"}, Requests(cmd, t), Moves(step),
           UNCHANGED <<app, helper, parent, plugin, told, story>>, \A i \in DOMAIN wire : ~wire[i].heard,
           entries' \in [Tokens -> Entry], \A u \in Tokens : u # t => entries'[u] = entries[u],
           \/ worker.step = step /\ entries'[t] = entries[t]
           \/ /\ worker.step = "after" /\ step = "prepares" /\ worker.op = "prepare"
              /\ entries'[t].state = "live" /\ entries'[t].result = "unknown" /\ entries'[t].ref = worker.ref
    PROVE  SemanticInv'
<1> USE DEF SemanticInv
<1>1. /\ worker' \in Worker /\ worker'.step = step /\ worker'.answer = Null /\ worker'.op = worker.op
      /\ worker'.tok = worker.tok /\ worker'.ref = worker.ref
  BY StepsTyped
<1>2. /\ wire' \in Seq(Message) /\ Len(wire') = Len(wire) + 1 /\ Len(wire) \in Nat
      /\ \A i \in 1 .. Len(wire) : wire'[i] = wire[i]
      /\ wire'[Len(wire')].cmd = cmd /\ wire'[Len(wire')].tok = t
  BY RequestsSays
<1>3. Grows
  <2>1. \A i \in 1 .. Len(wire') : i > Len(wire) => i = Len(wire')
    BY <1>2
  <2> QED BY <1>2, <2>1 DEF Grows
<1>4. HeardInv'
  BY <1>1, RequestWaits
<1>5. Click(t)' <=> Click(t)
  BY DEF Click
<1>6. WorkerInv'
  <2>1. worker.step = "after" \/ worker.step = step
    OBVIOUS
  <2>2. worker.op = (IF step = "prepares" THEN "prepare" ELSE "send") /\ worker.step # "idle"
    BY DEF WorkerInv
  <2>3. CASE step = "prepares"
    <3>1. worker'.op = "prepare" /\ worker'.step = "prepares" /\ worker'.tok = t
      BY <1>1, <2>2, <2>3
    <3>2. /\ worker'.ref \in Refs /\ story'.shown[worker'.ref] # Null
          /\ entries'[t].state = "live" /\ told'[t] = {}
      BY <1>1, <2>2, <2>3 DEF WorkerInv
    <3> QED BY <1>5, <3>1, <3>2 DEF WorkerInv
  <2>4. CASE step = "sends"
    <3>1. worker'.op = "send" /\ worker'.step = "sends" /\ worker'.tok = t
      BY <1>1, <2>2, <2>4
    <3>2. /\ worker'.ref \in Refs /\ story'.shown[worker'.ref] # Null /\ worker'.ref = entries'[t].ref
          /\ entries'[t].state = "consumed" /\ entries'[t].result = "unknown"
      BY <1>1, <2>2, <2>4 DEF WorkerInv
    <3> QED BY <3>1, <3>2 DEF WorkerInv
  <2> QED BY <2>3, <2>4
<1>7. TokenInv(t) /\ ~Refused(t)
  BY DEF TokenInv
<1>8. \A u \in Tokens : Refused(u)' <=> Refused(u)
  BY DEF Refused
<1>9. TokenInv(t)'
  <2>1. CASE worker.step = step /\ entries'[t] = entries[t]
    BY <1>3, <1>7, <1>8, <2>1, TokenStands
  <2>2. CASE /\ worker.step = "after" /\ step = "prepares" /\ worker.op = "prepare"
             /\ entries'[t].state = "live" /\ entries'[t].result = "unknown" /\ entries'[t].ref = worker.ref
    <3>1. /\ entries[t].state = "none" /\ told[t] = {}
          /\ worker.ref \in Refs /\ story.shown[worker.ref] # Null
      BY <2>2 DEF WorkerInv
    <3>2. Quiet(t)
      BY <1>7, <3>1 DEF TokenInv
    <3> QED BY <1>3, <1>7, <1>8, <2>2, <3>1, <3>2, TokenStands
  <2> QED BY <2>1, <2>2
<1>10. ASSUME NEW u \in Tokens, u # t PROVE TokenInv(u)'
  BY <1>1, <1>3, <1>10, TokenStands
<1>11. SendInv'
  <2>1. Null \notin {"not-delivered", "delivered", "ok", "sent"}
    BY SemanticAssumption DEF Replies
  <2> QED BY <1>1, <2>1 DEF SendInv, WorkerInv
<1>12. SnapInv' /\ JobInv'
  BY <1>1, RefsRest, NothingPending
<1>13. ProcessInv'
  BY DEF ProcessInv
<1> QED BY <1>1, <1>2, <1>4, <1>6, <1>9, <1>10, <1>11, <1>12, <1>13 DEF SemanticTypeOK

\* A reference that an observation shows was shown to nobody before (observe).
LEMMA ShowsWell ==
    ASSUME SemanticInv, worker.step = "after", worker.op = "observe",
           UNCHANGED <<app, helper, parent, plugin, entries, wire, told>>, Idles,
           story' = [story EXCEPT !.shown[worker.ref] = worker.inc]
    PROVE  SemanticInv'
<1> USE DEF SemanticInv
<1>1. worker \in Worker /\ story \in Story
  BY DEF SemanticTypeOK
<1>2. PICK r \in Refs : r = worker.ref
  BY <1>1 DEF WorkerInv, Worker
<1>3. worker.inc \in Nat /\ New(r, worker.inc)
  BY <1>1, <1>2 DEF Worker, JobInv
<1>4. story' = [story EXCEPT !.shown = [story.shown EXCEPT ![r] = worker.inc]]
  BY <1>1, <1>2 DEF Story
<1>5. story.shown \in [Refs -> Nat \cup {Null}] /\ [story.shown EXCEPT ![r] = worker.inc] \in [Refs -> Nat \cup {Null}]
  BY <1>1, <1>3 DEF Story
<1>6. /\ story' \in Story /\ story'.published = story.published
      /\ story'.kind = story.kind /\ story'.effects = story.effects /\ story'.proved = story.proved
      /\ story'.running = story.running /\ story'.retired = story.retired
      /\ story'.shown[r] = worker.inc /\ \A s \in Refs : s # r => story'.shown[s] = story.shown[s]
  BY <1>1, <1>4, <1>5 DEF Story
<1>7. worker' \in Worker /\ worker'.step = "idle"
  BY StepsTyped
<1>8. story.shown[r] = Null
  BY <1>3 DEF New
<1>9. Grows /\ \A i \in DOMAIN wire : ~wire[i].heard
  BY StaysGrows, NothingPending
<1>10. ASSUME NEW t \in Tokens PROVE TokenInv(t)'
  <2>1. EffectInv(t)' /\ (Quiet(t)' <=> Quiet(t)) /\ (Never(t)' <=> Never(t)) /\ (Refused(t)' <=> Refused(t))
    BY <1>6, <1>9, GrownIsSame DEF Refused
  <2>2. TokenInv(t)
    OBVIOUS
  <2>3. entries[t].state # "none" => /\ entries[t].ref \in Refs /\ story.shown[entries[t].ref] # Null
                                     /\ story'.shown[entries[t].ref] = story.shown[entries[t].ref]
    BY <1>6, <1>8, <2>2 DEF TokenInv
  <2>4. entries[t].state = "none" => Quiet(t)
    BY <2>2 DEF TokenInv
  <2>5. Quiet(t)' \/ story'.proved[t] = story'.shown[entries'[t].ref]
    BY <1>6, <2>1, <2>2, <2>3, <2>4 DEF TokenInv
  <2> QED BY <1>6, <1>7, <2>1, <2>2, <2>3, <2>5 DEF TokenInv
<1>11. WorkerInv' /\ SendInv' /\ HeardInv'
  BY <1>7, <1>9 DEF WorkerInv, SendInv, HeardInv
<1>12. SnapInv'
  BY <1>3, <1>6 DEF SnapInv, New
<1>13. JobInv'
  BY <1>7, NothingPending DEF JobInv
<1>14. ProcessInv'
  BY <1>6, <1>7 DEF ProcessInv
<1> QED BY <1>6, <1>7, <1>10, <1>11, <1>12, <1>13, <1>14 DEF SemanticTypeOK

\* The second look at the window, and what the answer of the helper is for.
LEMMA AfterStep == ASSUME SemanticInv, After PROVE SemanticInv'
<1> USE DEF SemanticInv
<1>1. /\ UNCHANGED <<app, helper, parent, plugin>> /\ worker.step = "after" /\ worker \in Worker
      /\ story \in Story /\ entries \in [Tokens -> Entry]
  BY DEF After, SemanticTypeOK
<1>2. worker.op \in {"observe", "prepare", "send"} /\ ~story.retired
  BY <1>1 DEF WorkerInv, ProcessInv
<1>3. helper.job = Null /\ \A i \in DOMAIN wire : ~wire[i].heard
  BY <1>1, NothingPending
<1>4. worker.op = "send" => worker.tok \in Tokens /\ Quiet(worker.tok) /\ worker.inc = story.shown[worker.ref]
  BY <1>1 DEF WorkerInv, SendInv, JobInv
<1> DEFINE same == app.open /\ app.title = worker.title
<1>5. CASE ~same
  <2>1. Fails("not-delivered") /\ UNCHANGED story
    BY <1>5 DEF After
  <2> QED BY <1>1, <1>2, <1>3, <1>4, <2>1, FailsAlone DEF Never
<1>6. CASE same /\ worker.op = "observe"
  BY <1>1, <1>6, ShowsWell DEF After
<1>7. CASE same /\ worker.op = "prepare"
  <2>1. PICK t \in Tokens : t = worker.tok
    BY <1>1, <1>7 DEF WorkerInv
  <2>2. entries[t].state = "none" /\ TokenInv(t) /\ worker.ref \in Refs
    BY <1>1, <1>7, <2>1 DEF WorkerInv
  <2>3. CASE Click(t)
    <3>1. /\ worker' = [worker EXCEPT !.step = IF worker.round = 1 THEN "target" ELSE "place", !.round = 2]
          /\ UNCHANGED <<entries, wire, told, story>>
      BY <1>7, <2>1, <2>3 DEF After
    <3>2. /\ worker' \in Worker /\ worker'.step \in {"target", "place"} /\ worker'.op = worker.op
          /\ worker'.tok = worker.tok /\ worker'.ref = worker.ref
      <4>1. PICK s \in {"target", "place"} : s = IF worker.round = 1 THEN "target" ELSE "place"
        OBVIOUS
      <4>2. worker' = [worker EXCEPT !.step = s, !.round = 2]
        BY <3>1, <4>1
      <4>3. 2 \in 1 .. 2 /\ s \in {"idle", "target", "tree", "after", "place", "prepares", "dispatch", "sends", "retire"}
        OBVIOUS
      <4>4. worker' \in Worker
        BY <1>1, <4>2, <4>3 DEF Worker
      <4>5. worker'.step = s /\ worker'.op = worker.op /\ worker'.tok = worker.tok /\ worker'.ref = worker.ref
        BY <1>1, <4>2 DEF Worker
      <4> QED BY <4>4, <4>5
    <3>3. WorkerInv' /\ (\A u \in Tokens : TokenInv(u)') /\ SendInv' /\ HeardInv'
      BY <1>1, <1>7, <3>1, <3>2, LooksWell
    <3>4. SnapInv' /\ JobInv'
      BY <1>1, <1>3, <1>7, <3>1, <3>2, RefsRest
    <3>5. ProcessInv'
      BY <1>1, <1>2, <3>1 DEF ProcessInv
    <3> QED BY <1>1, <3>1, <3>2, <3>3, <3>4, <3>5 DEF SemanticTypeOK
  <2>4. CASE ~Click(t)
    <3> DEFINE e == [entries[t] EXCEPT !.state = "live", !.ref = worker.ref, !.owner = worker.owner]
    <3>1. /\ entries' = [entries EXCEPT ![t] = e]
          /\ Requests("prepare", t) /\ Moves("prepares") /\ UNCHANGED <<told, story>>
      BY <1>7, <2>1, <2>4 DEF After
    <3>2. entries[t] \in Entry /\ entries[t].result = "unknown"
      BY <1>1, <2>2 DEF TokenInv
    <3>3. e \in Entry /\ e.state = "live" /\ e.result = "unknown" /\ e.ref = worker.ref
      BY <1>1, <2>2, <3>2 DEF Entry, Worker
    <3> HIDE DEF e
    <3>4. entries' \in [Tokens -> Entry] /\ entries'[t] = e /\ \A u \in Tokens : u # t => entries'[u] = entries[u]
      BY <1>1, <3>1, <3>3
    <3> QED BY <1>1, <1>3, <1>7, <2>1, <2>4, <3>1, <3>3, <3>4, AsksWell
  <2> QED BY <2>3, <2>4
<1>8. CASE same /\ worker.op = "send"
  <2>1. PICK t \in Tokens : t = worker.tok
    BY <1>4, <1>8
  <2>2. /\ story' = [story EXCEPT !.proved = [story.proved EXCEPT ![t] = worker.inc]]
        /\ \/ Moves("dispatch") /\ UNCHANGED <<entries, wire, told>>
           \/ Fails("not-delivered")
    BY <1>1, <1>8, <2>1 DEF After, Story
  <2>3. story.proved \in [Tokens -> Nat \cup {Null}] /\ [story.proved EXCEPT ![t] = worker.inc] \in [Tokens -> Nat \cup {Null}]
    BY <1>1 DEF Story, Worker
  <2>4. /\ story' \in Story /\ story'.published = story.published
        /\ story'.kind = story.kind /\ story'.effects = story.effects /\ story'.shown = story.shown
        /\ story'.running = story.running /\ story'.retired = story.retired
        /\ story'.proved[t] = worker.inc /\ \A u \in Tokens : u # t => story'.proved[u] = story.proved[u]
    BY <1>1, <2>2, <2>3 DEF Story
  <2>5. Quiet(t) /\ worker.inc = story.shown[worker.ref] /\ \A u \in Tokens : Quiet(u) \/ story'.proved[u] = story.proved[u]
    BY <1>4, <1>8, <2>1, <2>4
  <2>6. CASE Moves("dispatch") /\ UNCHANGED <<entries, wire, told>>
    <3>1. /\ worker' \in Worker /\ worker'.step = "dispatch" /\ worker'.op = worker.op
          /\ worker'.tok = worker.tok /\ worker'.ref = worker.ref
      BY <2>6, StepsTyped
    <3>2. WorkerInv' /\ (\A u \in Tokens : TokenInv(u)') /\ SendInv' /\ HeardInv'
      BY <1>1, <1>8, <2>1, <2>4, <2>5, <2>6, <3>1, LooksWell
    <3>3. SnapInv' /\ JobInv'
      BY <1>1, <1>3, <2>4, <3>1, RefsRest
    <3>4. ProcessInv'
      BY <1>1, <1>2, <2>4 DEF ProcessInv
    <3> QED BY <1>1, <2>4, <2>6, <3>1, <3>2, <3>3, <3>4 DEF SemanticTypeOK
  <2>7. CASE Fails("not-delivered")
    BY <1>1, <1>3, <2>1, <2>4, <2>5, <2>7, FailsAlone DEF Never
  <2> QED BY <2>2, <2>6, <2>7
<1> QED BY <1>2, <1>5, <1>6, <1>7, <1>8

\* The worker polls an operation until it is ready (prepare).
LEMMA HearsPreparedStep == ASSUME SemanticInv, HearsPrepared PROVE SemanticInv'
<1> USE DEF SemanticInv
<1>1. /\ UNCHANGED <<app, helper, parent, plugin, story>> /\ worker.step = "prepares" /\ worker.answer # Null
      /\ story \in Story /\ entries \in [Tokens -> Entry] /\ wire \in Seq(Message)
  BY DEF HearsPrepared, SemanticTypeOK
<1>2. worker.op = "prepare"
  BY <1>1 DEF WorkerInv
<1>3. PICK t \in Tokens : t = worker.tok
  BY <1>1, <1>2 DEF WorkerInv
<1>4. entries[t].state = "live" /\ told[t] = {} /\ ~Click(t)
  BY <1>1, <1>2, <1>3 DEF WorkerInv
<1>5. \A i \in DOMAIN wire : ~wire[i].heard
  BY <1>1, NothingPending
<1>6. CASE worker.answer = "ready"
  <2>1. Answers(t, "prepared") /\ UNCHANGED <<entries, wire>>
    BY <1>3, <1>6 DEF HearsPrepared
  <2>2. /\ worker' \in Worker /\ worker'.step = "idle"
        /\ told' \in [Tokens -> SUBSET {"prepared", "failed", "cancelled", "delivered", "not-delivered", "unknown"}]
        /\ told'[t] = told[t] \cup {"prepared"} /\ \A u \in Tokens : u # t => told'[u] = told[u]
    BY <2>1, StepsTyped
  <2>3. told'[t] = {"prepared"}
    BY <1>4, <2>2
  <2>4. \A u \in Tokens : told'[u] = told[u] \/ told'[u] = {"prepared"}
    BY <2>2, <2>3
  <2>5. WorkerInv' /\ (\A u \in Tokens : TokenInv(u)') /\ SendInv' /\ HeardInv'
    BY <1>1, <1>5, <2>1, <2>2, <2>4, StaysGrows, RestsWell
  <2>6. SnapInv' /\ JobInv'
    BY <1>1, <2>2, RefsRest, NothingPending
  <2>7. ProcessInv'
    BY <1>1, <2>2 DEF ProcessInv
  <2> QED BY <1>1, <2>1, <2>2, <2>5, <2>6, <2>7 DEF SemanticTypeOK
<1>7. CASE worker.answer = "preparing" /\ ~entries[t].late
  <2>1. Requests("status", t) /\ Moves("prepares") /\ UNCHANGED <<entries, told>>
    BY <1>3, <1>7 DEF HearsPrepared
  <2> QED BY <1>1, <1>3, <1>4, <1>5, <2>1, AsksWell
<1>8. CASE worker.answer # "ready" /\ ~(worker.answer = "preparing" /\ ~entries[t].late)
  <2>1. Fails("not-delivered")
    BY <1>3, <1>8 DEF HearsPrepared
  <2> QED BY <1>1, <1>2, <1>5, <2>1, FailsAlone
<1> QED BY <1>6, <1>7, <1>8

\* The worker polls an operation that was sent, and tells the broker what came of it (send).
LEMMA HearsSentStep == ASSUME SemanticInv, HearsSent PROVE SemanticInv'
<1> USE DEF SemanticInv
<1>1. /\ UNCHANGED <<app, helper, parent, plugin, story>> /\ worker.step = "sends" /\ worker.answer # Null
      /\ story \in Story /\ entries \in [Tokens -> Entry] /\ wire \in Seq(Message) /\ worker \in Worker
  BY DEF HearsSent, SemanticTypeOK
<1>2. worker.op = "send"
  BY <1>1 DEF WorkerInv
<1>3. PICK t \in Tokens : t = worker.tok
  BY <1>1, <1>2 DEF WorkerInv
<1>4. entries[t].state = "consumed" /\ entries[t] \in Entry /\ TokenInv(t)
  BY <1>1, <1>2, <1>3 DEF WorkerInv
<1>5. \A i \in DOMAIN wire : ~wire[i].heard
  BY <1>1, NothingPending
<1> DEFINE a == worker.answer
<1>6. CASE a = "sent" /\ ~entries[t].late
  <2>1. Requests("status", t) /\ Moves("sends") /\ UNCHANGED <<entries, told>>
    BY <1>3, <1>6 DEF HearsSent
  <2>2. ~Click(t)
    BY <1>1, <1>3, <1>6 DEF SendInv
  <2> QED BY <1>1, <1>3, <1>5, <2>1, <2>2, AsksWell
<1>7. CASE ~(a = "sent" /\ ~entries[t].late) /\ Judged(a) = "delivered"
  <2>1. /\ entries' = [entries EXCEPT ![t] = [entries[t] EXCEPT !.result = "delivered"]]
        /\ Answers(t, "delivered") /\ UNCHANGED wire
    BY <1>1, <1>3, <1>7 DEF HearsSent
  <2>2. story.effects[t] = 1
    BY <1>1, <1>3, <1>7 DEF Judged, SendInv
  <2>3. LET e == [entries[t] EXCEPT !.result = "delivered"] IN
        e \in Entry /\ e.state = "consumed" /\ e.ref = entries[t].ref /\ e.result = "delivered"
    BY <1>4 DEF Entry
  <2>4. /\ entries' \in [Tokens -> Entry] /\ \A u \in Tokens : u # t => entries'[u] = entries[u]
        /\ entries'[t].state = "consumed" /\ entries'[t].ref = entries[t].ref /\ entries'[t].result = "delivered"
    BY <1>1, <2>1, <2>3
  <2>5. /\ worker' \in Worker /\ worker'.step = "idle"
        /\ told' \in [Tokens -> SUBSET {"prepared", "failed", "cancelled", "delivered", "not-delivered", "unknown"}]
        /\ told'[t] = told[t] \cup {"delivered"} /\ \A u \in Tokens : u # t => told'[u] = told[u]
    BY <2>1, StepsTyped
  <2>6. ~Refused(t)
    BY <1>1, <1>3, <1>4 DEF TokenInv
  <2>7. told'[t] \cap {"not-delivered", "cancelled", "failed"} = {}
    BY <2>5, <2>6 DEF Refused
  <2>8. \A u \in Tokens :
          /\ \/ entries'[u] = entries[u]
             \/ /\ entries[u].state # "none" /\ entries'[u].state = "consumed" /\ entries'[u].ref = entries[u].ref
                /\ entries'[u].result = "delivered" /\ story.effects[u] = 1
          /\ \/ told'[u] = told[u]
             \/ told'[u] \cap {"not-delivered", "cancelled", "failed"} = {} /\ story.effects[u] = 1
    BY <1>4, <2>2, <2>4, <2>5, <2>7
  <2>9. WorkerInv' /\ (\A u \in Tokens : TokenInv(u)') /\ SendInv' /\ HeardInv'
    BY <1>1, <1>5, <2>1, <2>5, <2>8, StaysGrows, RestsWell
  <2>10. SnapInv' /\ JobInv'
    BY <1>1, <2>5, RefsRest, NothingPending
  <2>11. ProcessInv'
    BY <1>1, <2>5 DEF ProcessInv
  <2> QED BY <1>1, <2>1, <2>4, <2>5, <2>9, <2>10, <2>11 DEF SemanticTypeOK
<1>8. CASE ~(a = "sent" /\ ~entries[t].late) /\ Judged(a) # "delivered"
  <2>1. PICK b \in {"not-delivered", "unknown"} : b = Judged(a)
    BY <1>8 DEF Judged
  <2>2. Fails(b)
    BY <1>3, <1>8, <2>1 DEF HearsSent
  <2>3. b = "not-delivered" => a = "not-delivered"
    BY <2>1 DEF Judged
  <2>4. b = "not-delivered" => Never(worker.tok)
    BY <1>1, <2>3 DEF SendInv
  <2> QED BY <1>1, <1>5, <2>2, <2>4, FailsAlone
<1> QED BY <1>6, <1>7, <1>8

\* The one request that may have an effect goes out: for a token of which nothing was sent, proved to be what was shown.
LEMMA DispatchesStep == ASSUME SemanticInv, Dispatches PROVE SemanticInv'
<1> USE DEF SemanticInv
<1>1. /\ UNCHANGED <<app, helper, parent, plugin, story>> /\ worker.step = "dispatch"
      /\ story \in Story /\ entries \in [Tokens -> Entry] /\ wire \in Seq(Message)
  BY DEF Dispatches, SemanticTypeOK
<1>2. worker.op = "send"
  BY <1>1 DEF WorkerInv
<1>3. PICK t \in Tokens : t = worker.tok
  BY <1>1, <1>2 DEF WorkerInv
<1>4. /\ entries[t].state = "consumed" /\ entries[t].result = "unknown" /\ entries[t].ref = worker.ref
      /\ Quiet(t) /\ TokenInv(t) /\ story.proved[t] = story.shown[worker.ref]
  BY <1>1, <1>2, <1>3 DEF WorkerInv, SendInv
<1>5. \A i \in DOMAIN wire : ~wire[i].heard
  BY <1>1, NothingPending
<1>6. CASE ~app.open \/ (Click(t) /\ (entries[t].place # app.place \/ entries[t].late))
  <2>1. PICK a \in {"not-delivered", "unknown"} : Fails(a)
    BY <1>3, <1>6 DEF Dispatches
  <2> QED BY <1>1, <1>3, <1>4, <1>5, <2>1, FailsAlone DEF Never
<1>7. CASE ~(~app.open \/ (Click(t) /\ (entries[t].place # app.place \/ entries[t].late)))
  <2>1. PICK cmd \in {"click", "send"} : cmd = IF Click(t) THEN "click" ELSE "send"
    OBVIOUS
  <2>2. Requests(cmd, t) /\ Moves("sends") /\ UNCHANGED <<entries, told>>
    BY <1>3, <1>7, <2>1 DEF Dispatches
  <2>3. /\ worker' \in Worker /\ worker'.step = "sends" /\ worker'.answer = Null /\ worker'.op = worker.op
        /\ worker'.tok = worker.tok /\ worker'.ref = worker.ref
    BY <2>2, StepsTyped
  <2>4. /\ wire' \in Seq(Message) /\ Len(wire') = Len(wire) + 1 /\ Len(wire) \in Nat
        /\ DOMAIN wire = 1 .. Len(wire) /\ DOMAIN wire' = 1 .. Len(wire')
        /\ \A i \in 1 .. Len(wire) : wire'[i] = wire[i]
        /\ wire'[Len(wire')].cmd = cmd /\ wire'[Len(wire')].tok = t
    BY <2>2, RequestsSays
  <2>5. /\ \A i \in DOMAIN wire : i \in DOMAIN wire' /\ wire'[i] = wire[i]
        /\ \A i \in DOMAIN wire' : i \in DOMAIN wire \/ (i = Len(wire') /\ wire'[i].cmd = cmd /\ wire'[i].tok = t)
    BY <2>4
  <2>6. \A u \in Tokens : Click(u)' <=> Click(u)
    BY <1>1 DEF Click
  <2>7. HeardInv'
    BY <1>3, <1>5, <2>2, <2>3, RequestWaits
  <2>8. WorkerInv'
    BY <1>1, <1>2, <2>2, <2>3 DEF WorkerInv
  <2>9. TokenInv(t)'
    <3>1. EffectInv(t) /\ ~Asked(t) /\ story.effects[t] = 0 /\ plugin[t].mail = Null /\ plugin[t].stage # "sent"
      BY <1>4 DEF TokenInv, Quiet
    <3>2. \A i \in DOMAIN wire : wire[i].tok = t => wire[i].cmd \notin {"send", "click"}
      BY <3>1 DEF Asked
    <3>3. \A i, j \in DOMAIN wire' :
            wire'[i].tok = t /\ wire'[j].tok = t /\ {wire'[i].cmd, wire'[j].cmd} \subseteq {"send", "click"} => i = j
      BY <2>5, <3>2
    <3>4. \A i \in DOMAIN wire' : wire'[i].tok = t => (wire'[i].cmd = "click" <=> Click(t))
      BY <2>1, <2>5, <3>1 DEF EffectInv
    <3>5. EffectInv(t)'
      BY <1>1, <2>6, <3>1, <3>3, <3>4, SemanticAssumption DEF EffectInv
    <3>6. ~Refused(t)'
      BY <1>1, <1>3, <1>4, <2>2 DEF TokenInv, Refused
    <3>7. "delivered" \notin told'[t]
      BY <1>4, <2>2, <3>1 DEF TokenInv
    <3>8. entries'[t].ref \in Refs /\ story'.shown[entries'[t].ref] # Null
      BY <1>1, <1>4, <2>2 DEF TokenInv
    <3> QED BY <1>1, <1>4, <2>2, <3>5, <3>6, <3>7, <3>8 DEF TokenInv
  <2>10. ASSUME NEW u \in Tokens, u # t PROVE TokenInv(u)'
    <3>1. TokenInv(u) /\ EffectInv(u)
      BY DEF TokenInv
    <3>2. \A i \in DOMAIN wire' : wire'[i].tok = u => i \in DOMAIN wire
      BY <2>5, <2>10
    <3>3. Asked(u)' <=> Asked(u)
      BY <2>5, <3>2 DEF Asked
    <3>4. \A i, j \in DOMAIN wire' :
            wire'[i].tok = u /\ wire'[j].tok = u /\ {wire'[i].cmd, wire'[j].cmd} \subseteq {"send", "click"} => i = j
      BY <2>5, <3>1, <3>2 DEF EffectInv
    <3>5. \A i \in DOMAIN wire' : wire'[i].tok = u => (wire'[i].cmd = "click" <=> Click(u))
      BY <2>5, <3>1, <3>2 DEF EffectInv
    <3>6. EffectInv(u)'
      BY <1>1, <2>6, <3>1, <3>3, <3>4, <3>5 DEF EffectInv
    <3>7. (Quiet(u)' <=> Quiet(u)) /\ (Never(u)' <=> Never(u)) /\ (Refused(u)' <=> Refused(u))
      BY <1>1, <2>2, <2>6, <3>3 DEF Quiet, Never, Refused
    <3> QED BY <1>1, <1>3, <2>2, <2>3, <2>10, <3>1, <3>6, <3>7 DEF TokenInv
  <2>11. SendInv'
    <3>1. Null \notin {"not-delivered", "delivered", "ok", "sent"}
      BY SemanticAssumption DEF Replies
    <3> QED BY <1>1, <1>3, <1>4, <2>3, <3>1 DEF SendInv
  <2>12. SnapInv' /\ JobInv'
    BY <1>1, <2>3, RefsRest, NothingPending
  <2>13. ProcessInv'
    BY <1>1 DEF ProcessInv
  <2> QED BY <1>1, <2>2, <2>3, <2>4, <2>7, <2>8, <2>9, <2>10, <2>11, <2>12, <2>13 DEF SemanticTypeOK
<1> QED BY <1>6, <1>7

----------------------------------------------------------------------------
(* The invariant and what it says                                           *)

\* A worker, a helper and a plugin that have done nothing satisfy the invariant.
LEMMA SemanticStarts == ASSUME SemanticInit PROVE SemanticInv
<1>1. PICK c \in SemanticCases :
        story = [acts |-> c.acts, losses |-> c.losses, expiries |-> c.expiries, deaths |-> c.deaths,
                 stuck |-> c.stuck, observes |-> c.observes, sends |-> c.sends, pauses |-> c.pauses,
                 kind |-> c.kind, published |-> [r \in Refs |-> FALSE], shown |-> [r \in Refs |-> Null],
                 running |-> {}, retired |-> FALSE, effects |-> [t \in Tokens |-> 0],
                 proved |-> [t \in Tokens |-> Null]]
  BY DEF SemanticInit
<1>2. /\ app = [inc |-> 0, owner |-> 0, open |-> TRUE, place |-> 0, title |-> 0, news |-> 0]
      /\ helper = Gone
      /\ parent = [sock |-> FALSE, closed |-> FALSE, child |-> Null, next |-> 1]
      /\ entries = [t \in Tokens |-> NoEntry]
      /\ worker = [op |-> "observe", tok |-> Null, ref |-> Null, step |-> "idle", round |-> 1,
                   title |-> 0, inc |-> 0, owner |-> 0, answer |-> Null]
      /\ plugin = [t \in Tokens |-> [stage |-> "none", delivery |-> "not-delivered", owner |-> 0, mail |-> Null]]
      /\ wire = <<>> /\ told = [t \in Tokens |-> {}]
  BY DEF SemanticInit
<1>3. story \in Story
  BY <1>1, SemanticAssumption DEF Story
<1>4. app \in App /\ parent \in Parent /\ worker \in Worker
  BY <1>2 DEF App, Parent, Worker, Ops
<1>5. helper \in Helper /\ helper.job = Null /\ \A r \in Refs : helper.snaps[r] = Null
  BY <1>2 DEF Gone, NoSnaps, Helper
<1>6. NoEntry \in Entry
  BY DEF NoEntry, Entry
<1>7. /\ entries \in [Tokens -> Entry] /\ plugin \in [Tokens -> Operation]
      /\ told \in [Tokens -> SUBSET {"prepared", "failed", "cancelled", "delivered", "not-delivered", "unknown"}]
  BY <1>2, <1>6 DEF Operation
<1>8. wire \in Seq(Message) /\ DOMAIN wire = {}
  BY <1>2
<1>9. SemanticTypeOK
  BY <1>3, <1>4, <1>5, <1>7, <1>8 DEF SemanticTypeOK
<1>10. ASSUME NEW t \in Tokens PROVE TokenInv(t)
  <2>1. /\ story.effects[t] = 0 /\ plugin[t].stage = "none" /\ plugin[t].mail = Null
        /\ entries[t].state = "none" /\ entries[t].result = "unknown" /\ told[t] = {}
    BY <1>1, <1>2 DEF NoEntry
  <2>2. ~Asked(t) /\ Quiet(t)
    BY <1>8, <2>1 DEF Asked, Quiet
  <2>3. EffectInv(t)
    BY <1>8, <2>1, <2>2, SemanticAssumption DEF EffectInv
  <2> QED BY <2>1, <2>2, <2>3 DEF TokenInv, Refused
<1>11. WorkerInv /\ SendInv /\ HeardInv
  BY <1>2, <1>8 DEF WorkerInv, SendInv, HeardInv
<1>12. SnapInv /\ JobInv
  BY <1>1, <1>2, <1>5 DEF SnapInv, JobInv
<1>13. ProcessInv
  BY <1>1 DEF ProcessInv
<1> QED BY <1>9, <1>10, <1>11, <1>12, <1>13 DEF SemanticInv

\* The invariant is about these variables alone.
LEMMA SemanticStutters == ASSUME SemanticInv, UNCHANGED semanticVars PROVE SemanticInv'
<1> USE DEF SemanticInv
<1>1. UNCHANGED <<app, helper, parent, entries, worker, plugin, wire, told, story>>
  BY DEF semanticVars
<1>2. SemanticTypeOK'
  BY <1>1 DEF SemanticTypeOK
<1> QED BY <1>1, <1>2, AwayStands, RefsStand

\* Every step of the application, the helper, the plugin and the worker keeps the invariant.
LEMMA EverySemanticStep == ASSUME SemanticInv, [SemanticNext]_semanticVars PROVE SemanticInv'
<1>1. CASE AppActs \/ HelperLooks \/ HelperEnds \/ HelperDies \/ PluginServes
  BY <1>1, AppActsStep, HelperLooksStep, HelperEndsStep, HelperDiesStep, PluginServesStep
<1>2. CASE Observe \/ Pause \/ Unapproved \/ ExchangeExpires
  BY <1>2, ObserveStep, PauseStep, UnapprovedStep, ExchangeExpiresStep
<1>3. CASE WorkerSteps
  BY <1>3, TargetsStep, HearsTreeStep, LosesTreeStep, AfterStep, PlacesStep, HearsPreparedStep, DispatchesStep,
     HearsSentStep, RetireStep DEF WorkerSteps
<1>4. CASE \E r \in Refs : SnapshotExpires(r)
  BY <1>4, SnapshotExpiresStep
<1>5. CASE \E t \in Tokens : \/ PluginPrepares(t) \/ PluginExpires(t) \/ AppPerforms(t) \/ PluginHears(t)
                             \/ Send(t) \/ Cancel(t) \/ TimePasses(t)
                             \/ \E r \in Refs : Prepare(t, r)
  BY <1>5, PluginPreparesStep, PluginExpiresStep, AppPerformsStep, PluginHearsStep, SendStep, CancelStep,
     TimePassesStep, PrepareStep
<1>6. CASE UNCHANGED semanticVars
  BY <1>6, SemanticStutters
<1> QED BY <1>1, <1>2, <1>3, <1>4, <1>5, <1>6 DEF SemanticNext

\* The invariant holds whatever is lost, expires or dies, for any tokens, references and limits.
THEOREM SemanticInvariant == SemanticSpec => []SemanticInv
<1>1. SemanticInit => SemanticInv
  BY SemanticStarts
<1>2. SemanticInv /\ [SemanticNext]_semanticVars => SemanticInv'
  BY EverySemanticStep
<1> QED BY <1>1, <1>2, PTL DEF SemanticSpec

\* A token takes effect at most once; never after the broker was told that it did not, or that it is cancelled;
\* and always before the broker is told that it did (SendSound).
THEOREM SendIsSound == SemanticSpec => []SendSound
<1>1. SemanticInv => SendSound
  <2> SUFFICES ASSUME SemanticInv, NEW t \in Tokens
               PROVE  /\ story.effects[t] <= 1
                      /\ told[t] \cap {"not-delivered", "cancelled", "failed"} # {} =>
                            story.effects[t] = 0 /\ plugin[t].mail # "out"
                      /\ "delivered" \in told[t] => story.effects[t] = 1
    BY DEF SendSound
  <2>1. TokenInv(t) /\ EffectInv(t)
    BY DEF SemanticInv, TokenInv
  <2>2. Never(t) => story.effects[t] = 0 /\ plugin[t].mail = Null
    BY DEF Never, Quiet
  <2>3. Null # "out"
    BY SemanticAssumption
  <2> QED BY <2>1, <2>2, <2>3 DEF TokenInv, EffectInv, Refused
<1> QED BY <1>1, SemanticInvariant, PTL

\* Nothing takes effect but on the widget that the agent was shown, as it was proved after its token was
\* consumed (ShownIsMeant).
THEOREM WhatIsShownIsMeant == SemanticSpec => []ShownIsMeant
<1>1. SemanticInv => ShownIsMeant
  <2> SUFFICES ASSUME SemanticInv, NEW t \in Tokens, story.effects[t] > 0
               PROVE  story.proved[t] = story.shown[entries[t].ref]
    BY DEF ShownIsMeant
  <2>1. ~Quiet(t)
    BY DEF Quiet
  <2> QED BY <2>1 DEF SemanticInv, TokenInv
<1> QED BY <1>1, SemanticInvariant, PTL

\* At most one helper runs, the parent owns it, and none is left after a pause that retired it (HelperAlone).
THEOREM HelperStaysAlone == SemanticSpec => []HelperAlone
<1>1. SemanticInv => HelperAlone
  <2> SUFFICES ASSUME SemanticInv PROVE HelperAlone
    OBVIOUS
  <2>1. SemanticTypeOK /\ story.running \subseteq {parent.child} /\ (story.retired => story.running = {})
    BY DEF SemanticInv, ProcessInv
  <2>2. story.running = {} \/ story.running = {parent.child}
    BY <2>1
  <2>3. Cardinality(story.running) <= 1
    <3>1. Cardinality({parent.child}) = 1 /\ Cardinality({}) = 0
      BY FS_EmptySet, FS_Singleton
    <3> QED BY <2>2, <3>1
  <2> QED BY <2>1, <2>2, <2>3 DEF HelperAlone
<1> QED BY <1>1, SemanticInvariant, PTL
=============================================================================
