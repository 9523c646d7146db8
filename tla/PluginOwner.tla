----------------------------- MODULE PluginOwner -----------------------------
(***************************************************************************)
(* The owner's commands on the compositor plugin (native/plugin_owner.py,    *)
(* plugin_bundle.py, prepare.py, refresh.py, started by native-prepare.ts):  *)
(* `native-plugin load | unload | resume' on a preparation, and              *)
(* `native-refresh', which records a build, prepares it for the compositor   *)
(* that runs now, loads it and moves `current'.  Every command is a process  *)
(* of its own, that the owner, the autostart entry and the broker may start  *)
(* side by side and that is killed after twenty seconds.                     *)
(*                                                                         *)
(* The compositor, and the plugin in it, are external to src/src.  It serves *)
(* one request after the other, also those whose asker has given up.         *)
(***************************************************************************)
EXTENDS Integers, Sequences, FiniteSets

CONSTANTS Procs,        \* the processes of the owner
          Builds,       \* plugin builds, each with its manifest
          Abi,          \* the compositor interface a build is for
          None,
          MaxPreps,     \* bound: preparations
          MaxEpochs,    \* bound: compositor instances
          MaxOps,       \* bound: journaled operations
          Kept,         \* KEPT in refresh.py: preparations that remain
          Cases         \* what a behaviour may do: see Init

VARIABLES host,         \* the compositor that runs
          preps,        \* the preparations under the owner's directory
          disk,         \* current, plugin-build.json and the durable copy
          shared,       \* the journal of each compositor instance
          private,      \* the journal of each preparation
          lock,         \* who holds the lock of an instance
          ops,          \* what the journals say of an operation
          procs,        \* what a process is doing
          left          \* what the behaviour may still do; history: overlap and cut of refreshes

vars == <<host, preps, disk, shared, private, lock, ops, procs, left>>

Preps  == 1 .. MaxPreps
Epochs == 1 .. MaxEpochs
Ids    == 1 .. MaxOps
Verbs  == {"load", "unload", "resume"}

ASSUME OwnerAssumption ==
    /\ Kept \in Nat \ {0} /\ MaxPreps \in Nat /\ MaxEpochs \in Nat \ {0} /\ MaxOps \in Nat
    /\ Abi \in [Builds -> Nat] /\ "torn" \notin Builds
    /\ None \notin Procs \cup Builds \cup Nat \cup Verbs \cup {"refresh", "success", "error", "torn"}
    /\ Cases \subseteq [abi : Nat, verbs : Nat, refreshes : Nat, losses : Nat, kills : Nat,
                        restarts : Nat, leases : Nat, abis : SUBSET Nat, builds : SUBSET Builds]

----------------------------------------------------------------------------
(* The compositor *)

\* What a command does, and what is kept of it: who asked, and whether nothing
\* depended on the plugin when it went.
Ran(h, c) == [id |-> c.id, cmd |-> c.cmd, prep |-> c.prep,
              quiet |-> h.paused /\ ~h.lease]
Works(h, c) == CASE c.cmd = "load"   -> h.loaded = None
                 [] c.cmd = "unload" -> h.loaded = c.prep
                 [] OTHER            -> h.loaded # None
Applied(h, c) ==
    IF ~Works(h, c) THEN h
    ELSE [h EXCEPT !.ran = @ \cup {Ran(h, c)},
                   !.loaded = CASE c.cmd = "load" -> c.prep [] c.cmd = "unload" -> None [] OTHER -> @,
                   !.paused = c.cmd = "pause"]

\* A request is served after all that came before it, whether or not its asker waits.
LateServed ==
    /\ host.late # <<>>
    /\ host' = Applied([host EXCEPT !.late = Tail(@)], Head(host.late))
    /\ UNCHANGED <<preps, disk, shared, private, lock, ops, procs, left>>

\* A session of the broker claims an application, unless admission is paused.
LeaseComes ==
    /\ left.leases > 0 /\ host.loaded # None /\ ~host.paused /\ ~host.lease
    /\ host' = [host EXCEPT !.lease = TRUE]
    /\ left' = [left EXCEPT !.leases = @ - 1]
    /\ UNCHANGED <<preps, disk, shared, private, lock, ops, procs>>
LeaseGoes ==
    /\ host.lease
    /\ host' = [host EXCEPT !.lease = FALSE]
    /\ UNCHANGED <<preps, disk, shared, private, lock, ops, procs, left>>

\* Another instance, perhaps of another version.
Restart ==
    /\ host.epoch < MaxEpochs /\ left.restarts > 0
    /\ \E abi \in {host.abi} \cup left.abis :
        host' = [epoch |-> host.epoch + 1, abi |-> abi, loaded |-> None, paused |-> FALSE,
                 lease |-> FALSE, late |-> <<>>, ran |-> host.ran]
    /\ left' = [left EXCEPT !.restarts = @ - 1]
    /\ UNCHANGED <<preps, disk, shared, private, lock, ops, procs>>

----------------------------------------------------------------------------
(* A process of the owner *)

NoProc == [op |-> None, step |-> "idle", prep |-> None, id |-> None, build |-> None,
           supplied |-> FALSE, sent |-> FALSE, paused |-> FALSE]

Goes(p, step) == procs' = [procs EXCEPT ![p].step = step]
Rests(p) == procs' = [procs EXCEPT ![p] = NoProc]

Usable(r) == preps[r].state = "published" /\ preps[r].epoch = host.epoch

\* How one exchange of NativeTransport may end: served, once nothing waits before it, or
\* given up while it waits.  The transport refuses a compositor that is not the one of the
\* plan.
Answer(h, c) ==
    CASE c.cmd = "status" -> IF h.loaded = None THEN "absent"
                             ELSE IF h.loaded = c.prep THEN "loaded" ELSE "other"
      [] c.cmd = "readiness" -> IF h.loaded = None THEN "lost" ELSE IF ~h.paused THEN "running"
                                ELSE IF h.lease THEN "busy" ELSE "ready"
      [] OTHER -> IF Works(h, c) THEN "ok" ELSE "refused"
Commands == {"load", "unload", "pause", "resume"}

Given(h, reply, losses) == [host |-> h, reply |-> reply, losses |-> losses]
Exchange(c) ==
    IF ~Usable(c.prep) THEN {Given(host, "lost", 0)}
    ELSE {Given(IF c.cmd \in Commands THEN [host EXCEPT !.late = Append(@, c)] ELSE host, "lost", 1)}
         \cup IF host.late # <<>> THEN {}
              ELSE {Given(IF c.cmd \in Commands THEN Applied(host, c) ELSE host, Answer(host, c), 0)}

----------------------------------------------------------------------------
(* operate: one journaled operation *)

NoJournal == [begun |-> {}, done |-> {}]
\* The lock of an instance, which the death of its holder gives back.
Free(e) == lock[e] = None
\* OwnerJournal.require_finished.
Finished(j) == j.begun = j.done

Operate(p, verb, r) ==
    /\ procs[p].step = "idle" /\ left.verbs > 0 /\ preps[r].state = "published"
    /\ procs' = [procs EXCEPT ![p] = [NoProc EXCEPT !.op = verb, !.step = "open", !.prep = r]]
    /\ left' = [left EXCEPT !.verbs = @ - 1]
    /\ UNCHANGED <<host, preps, disk, shared, private, lock, ops>>

Verb(p) == IF procs[p].op = "refresh" THEN "load" ELSE procs[p].op

\* PreparedPlugin, then OwnerJournal: the lock of the instance, both journals.
Opens(p) ==
    LET r == procs[p].prep  e == preps[r].epoch IN
    /\ procs[p].step = "open"
    /\ IF Usable(r) /\ Free(e) /\ Finished(shared[e]) /\ Finished(private[r])
       THEN \E id \in Ids :
            /\ ops[id].verb = None /\ \A i \in 1 .. id - 1 : ops[i].verb # None
            /\ ops' = [ops EXCEPT ![id].verb = Verb(p)]
            /\ lock' = [lock EXCEPT ![e] = p]
            /\ procs' = [procs EXCEPT ![p].step = "begin", ![p].id = id]
       ELSE Rests(p) /\ UNCHANGED <<ops, lock>>
    /\ UNCHANGED <<host, preps, disk, shared, private, left>>

\* The global intent precedes the private one.
BeginsShared(p) ==
    /\ procs[p].step = "begin"
    /\ shared' = [shared EXCEPT ![preps[procs[p].prep].epoch].begun = @ \cup {procs[p].id}]
    /\ Goes(p, "intent")
    /\ UNCHANGED <<host, preps, disk, private, lock, ops, left>>
BeginsPrivate(p) ==
    /\ procs[p].step = "intent"
    /\ private' = [private EXCEPT ![procs[p].prep].begun = @ \cup {procs[p].id}]
    /\ Goes(p, "status")
    /\ UNCHANGED <<host, preps, disk, shared, lock, ops, left>>

Asking == Commands \cup {"status", "after", "readiness", "quiet", "resumed"}
\* A process in one of these steps holds the lock of the instance of its preparation.
Inside == Asking \cup {"begin", "intent", "success", "error", "finish"}

\* Where an answer leads.
Leads(verb, step, a) ==
    CASE step = "status" /\ a = "absent" -> IF verb = "load" THEN "load" ELSE IF verb = "unload" THEN "success" ELSE "error"
      [] step = "status" /\ a = "loaded" -> IF verb = "load" THEN "success" ELSE "readiness"
      [] step = "readiness" /\ verb = "resume" /\ a \in {"ready", "busy"} -> "resume"
      [] step = "readiness" /\ verb = "resume" /\ a = "running" -> "success"
      [] step = "readiness" /\ verb = "unload" /\ a \in {"ready", "busy"} -> "quiet"
      [] step = "readiness" /\ verb = "unload" /\ a = "running" -> "pause"
      [] step = "pause"   /\ a = "ok" -> "quiet"
      [] step = "quiet"   /\ a = "ready" -> "unload"
      [] step \in {"load", "unload"} /\ a = "ok" -> "after"
      [] step = "resume"  /\ a = "ok" -> "resumed"
      [] step = "resumed" /\ a = "running" -> "success"
      [] step = "after" /\ a = (IF verb = "load" THEN "loaded" ELSE "absent") -> "success"
      [] OTHER -> "error"

\* Mutant: a command counts as sent once it was answered.
SendsAnswered(pr, a) == [pr EXCEPT !.sent = @ \/ (pr.step \in {"load", "unload", "resume"} /\ a = "ok"),
                                   !.paused = @ \/ (pr.step = "pause" /\ a = "ok")]
Sends(pr, a) == [pr EXCEPT !.sent = @ \/ pr.step \in {"load", "unload", "resume"},
                           !.paused = @ \/ pr.step = "pause"]

\* What a step asks the compositor.
Asks(step) == CASE step \in {"status", "after"} -> "status"
                [] step \in {"readiness", "quiet", "resumed"} -> "readiness"
                [] OTHER -> step

\* A command is preceded by bundle.verify, which sends nothing to another host.
Told(p, a) ==
    LET pr == procs[p]
        sent == IF pr.step \in Commands /\ Usable(pr.prep) THEN Sends(pr, a) ELSE pr
    IN [sent EXCEPT !.step = Leads(Verb(p), pr.step, a)]
Steps(p) ==
    /\ procs[p].step \in Asking
    /\ \E x \in Exchange([cmd |-> Asks(procs[p].step), id |-> procs[p].id, prep |-> procs[p].prep]) :
        /\ x.losses <= left.losses
        /\ host' = x.host /\ left' = [left EXCEPT !.losses = @ - x.losses]
        /\ procs' = [procs EXCEPT ![p] = Told(p, x.reply)]
    /\ UNCHANGED <<preps, disk, shared, private, lock, ops>>

\* The private completion precedes the global one.  A preparation that was
\* removed has no journal to complete: the intent stays for the owner to review.
FinishesPrivate(p) ==
    LET pr == procs[p] IN
    /\ pr.step \in {"success", "error"}
    /\ IF preps[pr.prep].state = "published"
       THEN /\ private' = [private EXCEPT ![pr.prep].done = @ \cup {pr.id}]
            /\ ops' = [ops EXCEPT ![pr.id] = [@ EXCEPT !.outcome = pr.step, !.sent = pr.sent, !.paused = pr.paused]]
            /\ Goes(p, "finish") /\ UNCHANGED lock
       ELSE /\ lock' = [lock EXCEPT ![preps[pr.prep].epoch] = None]
            /\ Rests(p) /\ UNCHANGED <<private, ops>>
    /\ UNCHANGED <<host, preps, disk, shared, left>>

\* A refresh goes on when its plugin was loaded.
Ends(p) == procs[p].op = "refresh" /\ ops[procs[p].id].outcome = "success"

FinishesShared(p) ==
    LET pr == procs[p]  e == preps[pr.prep].epoch IN
    /\ pr.step = "finish"
    /\ shared' = [shared EXCEPT ![e].done = @ \cup {pr.id}]
    /\ lock' = [lock EXCEPT ![e] = None]
    /\ IF Ends(p) THEN Goes(p, "record") ELSE Rests(p)
    /\ UNCHANGED <<host, preps, disk, private, ops, left>>

----------------------------------------------------------------------------
(* refresh *)

\* A build is supplied with its manifest, or the recorded one is renewed.
Refresh(p, b) ==
    /\ procs[p].step = "idle" /\ left.refreshes > 0
    /\ b # None \/ disk.pin # None
    /\ procs' = [procs EXCEPT ![p] = [NoProc EXCEPT !.op = "refresh", !.step = "check",
                                                    !.build = b, !.supplied = b # None]]
    /\ left' = [left EXCEPT !.refreshes = @ - 1,
                            !.overlap = @ \/ \E q \in Procs : procs[q].op = "refresh"]
    /\ UNCHANGED <<host, preps, disk, shared, private, lock, ops>>

\* inspect_host asks the compositor.  is_fresh: the plan is of this instance and the
\* plugin of its preparation is loaded.  Then build_manifest: whose interface must be that of the instance.
Fresh == disk.current # None /\ Usable(disk.current) /\ host.loaded = disk.current
Checks(p) ==
    LET pr == procs[p]  b == IF pr.supplied THEN pr.build ELSE disk.pin IN
    /\ pr.step = "check" /\ host.late = <<>>
    /\ IF (pr.supplied \/ ~Fresh) /\ b \in Builds /\ Abi[b] = host.abi
       THEN procs' = [procs EXCEPT ![p].step = "copy", ![p].build = b]
       ELSE Rests(p)
    /\ UNCHANGED <<host, preps, disk, shared, private, lock, ops, left>>

\* durable_copy.  The manifest that is recorded names the copy itself.
Copies(p) ==
    LET pr == procs[p] IN
    /\ pr.step = "copy"
    /\ IF disk.copy = pr.build \/ pr.supplied
       THEN disk' = [disk EXCEPT !.copy = pr.build] /\ Goes(p, "stage")
       ELSE Rests(p) /\ UNCHANGED disk
    /\ UNCHANGED <<host, preps, shared, private, lock, ops, left>>

\* prepare: the instance that runs now, and the binary with the digest of the
\* manifest; what fails leaves its directory.
Stages(p) ==
    LET pr == procs[p] IN
    /\ pr.step = "stage"
    /\ \E r \in Preps :
        /\ preps[r].state = "none" /\ \A q \in 1 .. r - 1 : preps[q].state # "none"
        /\ LET fits == Abi[pr.build] = host.abi /\ disk.copy = pr.build IN
           /\ preps' = [preps EXCEPT ![r] = [state |-> "partial", build |-> pr.build, epoch |-> host.epoch]]
           /\ IF fits THEN procs' = [procs EXCEPT ![p].step = "publish", ![p].prep = r] ELSE Rests(p)
    /\ UNCHANGED <<host, disk, shared, private, lock, ops, left>>
\* Its end: verify_host, and preparation.json appears.
Prepared(p) ==
    LET pr == procs[p] IN
    /\ pr.step = "publish"
    /\ IF preps[pr.prep].state = "partial" /\ preps[pr.prep].epoch = host.epoch
       THEN preps' = [preps EXCEPT ![pr.prep].state = "published"] /\ Goes(p, "open")
       ELSE Rests(p) /\ UNCHANGED preps
    /\ UNCHANGED <<host, disk, shared, private, lock, ops, left>>

\* plugin-build.json, then the link that every new worker follows.
\* A mutant: a record that exists is kept.
RecordsOnce(p) ==
    /\ procs[p].step = "record"
    /\ disk' = [disk EXCEPT !.pin = IF @ = None THEN procs[p].build ELSE @]
    /\ Goes(p, "link")
    /\ UNCHANGED <<host, preps, shared, private, lock, ops, left>>
Records(p) ==
    /\ procs[p].step = "record"
    /\ disk' = [disk EXCEPT !.pin = procs[p].build]
    /\ Goes(p, "link")
    /\ UNCHANGED <<host, preps, shared, private, lock, ops, left>>
Links(p) ==
    /\ procs[p].step = "link"
    /\ disk' = [disk EXCEPT !.current = procs[p].prep]
    /\ left' = [left EXCEPT !.cut = FALSE]
    /\ Goes(p, "prune")
    /\ UNCHANGED <<host, preps, shared, private, lock, ops>>

\* prune: of the others the newest remain.
Pruned(keep) == {r \in Preps \ {keep} : /\ preps[r].state \in {"partial", "published"}
                     /\ Cardinality({q \in Preps \ {keep} : q > r /\ preps[q].state \in {"partial", "published"}}) >= Kept - 1}
Prunes(p) ==
    /\ procs[p].step = "prune"
    /\ preps' = [r \in Preps |-> IF r \in Pruned(procs[p].prep) THEN [preps[r] EXCEPT !.state = "removed"] ELSE preps[r]]
    /\ Rests(p)
    /\ UNCHANGED <<host, disk, shared, private, lock, ops, left>>

\* runOwnerCommand kills it, or it crashes.  A file that is written in place
\* may be cut short; cut: the record was left so, or without its link.
Killed(p) ==
    /\ procs[p].step # "idle" /\ left.kills > 0
    /\ lock' = [e \in Epochs |-> IF lock[e] = p THEN None ELSE lock[e]]
    /\ disk' \in {disk} \cup IF procs[p].step = "record" THEN {[disk EXCEPT !.pin = "torn"]} ELSE {}
    /\ Rests(p)
    /\ left' = [left EXCEPT !.kills = @ - 1, !.cut = @ \/ procs[p].step = "link" \/ disk' # disk]
    /\ UNCHANGED <<host, preps, shared, private, ops>>

----------------------------------------------------------------------------
Init == \E c \in Cases :
    /\ host = [epoch |-> 1, abi |-> c.abi, loaded |-> None, paused |-> FALSE, lease |-> FALSE,
               late |-> <<>>, ran |-> {}]
    /\ preps = [r \in Preps |-> [state |-> "none", build |-> None, epoch |-> 1]]
    /\ disk = [current |-> None, pin |-> None, copy |-> None]
    /\ shared = [e \in Epochs |-> NoJournal]
    /\ private = [r \in Preps |-> NoJournal]
    /\ lock = [e \in Epochs |-> None]
    /\ ops = [id \in Ids |-> [verb |-> None, outcome |-> None, sent |-> FALSE, paused |-> FALSE]]
    /\ procs = [p \in Procs |-> NoProc]
    /\ left = [verbs |-> c.verbs, refreshes |-> c.refreshes, losses |-> c.losses, kills |-> c.kills,
               restarts |-> c.restarts, leases |-> c.leases, abis |-> c.abis, builds |-> c.builds, overlap |-> FALSE, cut |-> FALSE]

Next ==
    \/ LateServed \/ LeaseComes \/ LeaseGoes \/ Restart
    \/ \E p \in Procs :
        \/ Opens(p) \/ BeginsShared(p) \/ BeginsPrivate(p) \/ Steps(p)
        \/ FinishesPrivate(p) \/ FinishesShared(p) \/ Checks(p) \/ Copies(p) \/ Stages(p)
        \/ Prepared(p) \/ Records(p) \/ Links(p) \/ Prunes(p) \/ Killed(p)
        \/ \E b \in left.builds \cup {None} : Refresh(p, b)
        \/ \E v \in Verbs, r \in Preps : Operate(p, v, r)

Spec == Init /\ [][Next]_vars

----------------------------------------------------------------------------
Command == [cmd : Commands, id : Ids, prep : Preps]
Host == [epoch : Epochs, abi : Nat, loaded : Preps \cup {None}, paused : BOOLEAN, lease : BOOLEAN,
         late : Seq(Command), ran : SUBSET [id : Ids, cmd : Commands, prep : Preps, quiet : BOOLEAN]]
Prep == [state : {"none", "partial", "published", "removed"}, build : Builds \cup {None}, epoch : Epochs]
Journal == [begun : SUBSET Ids, done : SUBSET Ids]
Op == [verb : Verbs \cup {None}, outcome : {"success", "error", None}, sent : BOOLEAN, paused : BOOLEAN]
Proc == [op : Verbs \cup {"refresh", None},
         step : Inside \cup {"idle", "open", "check", "copy", "stage", "publish", "record", "link", "prune"},
         prep : Preps \cup {None}, id : Ids \cup {None}, build : Builds \cup {None},
         supplied : BOOLEAN, sent : BOOLEAN, paused : BOOLEAN]

Left == [verbs : Nat, refreshes : Nat, losses : Nat, kills : Nat, restarts : Nat, leases : Nat,
         abis : SUBSET Nat, builds : SUBSET Builds, overlap : BOOLEAN, cut : BOOLEAN]

TypeOK ==
    /\ host \in Host /\ preps \in [Preps -> Prep]
    /\ disk \in [current : Preps \cup {None}, pin : Builds \cup {None, "torn"}, copy : Builds \cup {None}]
    /\ shared \in [Epochs -> Journal] /\ private \in [Preps -> Journal]
    /\ lock \in [Epochs -> Procs \cup {None}] /\ ops \in [Ids -> Op] /\ procs \in [Procs -> Proc]
    /\ left \in Left

\* The journals account for every command, whoever was killed or gave up: it was
\* announced in both, the outcome that says that nothing was sent is true, one
\* that claims success left nothing to come, and of each instance one operation
\* at most is open.
CommandsRecorded ==
    /\ TypeOK
    /\ \A c \in host.ran \cup {host.late[i] : i \in 1 .. Len(host.late)} :
        LET e == preps[c.prep].epoch  o == ops[c.id] IN
        /\ c.id \in shared[e].begun \cap private[c.prep].begun
        /\ o.outcome # None => IF c.cmd = "pause" THEN o.paused ELSE o.sent
    /\ \A i \in 1 .. Len(host.late) : ops[host.late[i].id].outcome # "success"
    /\ \A e \in Epochs : Cardinality(shared[e].begun \ shared[e].done) <= 1
    /\ \A e \in Epochs, r \in Preps : preps[r].epoch = e => (shared[e].done \cap private[r].begun) \subseteq private[r].done

\* The plugin leaves the compositor only while admission is paused and nothing
\* depends on it, although that was measured by an earlier request.
UnloadQuiet == \A c \in host.ran : c.cmd = "unload" => c.quiet

\* What every new worker binds is a preparation that its instance has loaded, and a whole
\* one unless two refreshes overlapped: they do not exclude each other.  What is loaded fits
\* its instance.
CurrentSound ==
    /\ disk.current # None =>
        /\ preps[disk.current].state = "published" \/ left.overlap
        /\ \E c \in host.ran : c.cmd = "load" /\ c.prep = disk.current
    /\ host.loaded # None => /\ preps[host.loaded].epoch = host.epoch
                             /\ Abi[preps[host.loaded].build] = host.abi

\* plugin-build.json is of the build that new workers bind, although it is written in place and
\* the link follows it later: another one, or none that can be read, is left only by a refresh
\* killed in between, until a refresh goes through again, and by two that overlap.  Whoever
\* was killed, what it names has been loaded by a compositor (refresh.py:143-147).
RecordSound ==
    /\ disk.current # None /\ ~left.overlap /\ ~left.cut /\ (\A p \in Procs : procs[p].step # "link") =>
          disk.pin = preps[disk.current].build
    /\ disk.pin \in Builds => \E c \in host.ran : c.cmd = "load" /\ preps[c.prep].build = disk.pin

\* What is loaded, bound, recorded and unloaded fits the instance and the sessions that rest
\* on it, although each is decided by an earlier look (plugin_owner.py, refresh.py).
PluginSound == UnloadQuiet /\ CurrentSound /\ RecordSound
=============================================================================
