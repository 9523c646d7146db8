----------------------------- MODULE ReaderScope -----------------------------
(***************************************************************************)
(* The reader's scope (native/reader_scope.py): one cgroup leaf for one       *)
(* reader, owned through a journal that only one instance may hold at a time *)
(* (flock).  Every effect is preceded by a record that has reached the disk, *)
(* so that whoever opens the journal after a crash knows what may be left    *)
(* behind.                                                                   *)
(*                                                                         *)
(* An instance runs one method at a time; between two system calls its       *)
(* process may die, the machine restart, the reader exit, another thread or  *)
(* library reap it, and another process of the owner change the directories. *)
(* Whoever starts the reader and places it in the leaf is external.          *)
(*                                                                         *)
(* Left out of the records: v, which is 2 from spawn_intent on, the sequence *)
(* number, which is the position, the boot (bootOf) and the limits.          *)
(***************************************************************************)
EXTENDS Naturals, Sequences

CONSTANTS Procs,        \* processes of the owner; a birth, never only a pid
          Codes,        \* exit statuses of the reader
          Killed,       \* its status after cgroup.kill
          None,
          MaxOpens,     \* bound: instances made
          MaxOutside    \* bound: changes of the directories by others

ASSUME ScopeAssumption ==
    /\ None \notin Procs /\ None \notin Codes \cup {Killed}
    /\ Codes \subseteq Nat /\ Killed \in Nat /\ MaxOpens \in Nat /\ MaxOutside \in Nat

VARIABLES
    life,       \* each process: "unborn", "up" or "dead"
    boot,       \* 0, and 1 after a restart of the machine
    file,       \* the journal: "missing", "whole" or "torn" (an incomplete last line)
    bootOf,     \* the boot its records carry
    journal,    \* its complete records
    inst,       \* the instance that holds the lock
    dir,        \* what is at the leaf's name: "none", "ours" or "theirs"
    foreign,    \* something else is in the resource root
    maker,      \* history: the process that made the leaf
    kid,        \* the reader and its process's view of it
    receipts,   \* history: statuses that wait_root returned
    killed,     \* history: what was killed, by whom, and whether its maker was dead
    left        \* bounds

journalVars == <<file, bootOf, journal>>
worldVars   == <<dir, foreign, maker>>
vars == <<life, boot, journalVars, inst, worldVars, kid, receipts, killed, left>>

Phases == {"idle", "intent", "pinned", "prepared", "spawn_intent", "spawn_bound",
           "admitting", "admitted", "killing", "recovery", "retired"}
Leaves  == {"none", "ours", "theirs"}
Records == [phase : Phases, owner : Procs, leaf : BOOLEAN, identity : Leaves,
            process : BOOLEAN, pending : BOOLEAN, recovered : BOOLEAN]

\* _initial_record.
Idle(p) == [phase |-> "idle", owner |-> p, leaf |-> FALSE, identity |-> "none",
            process |-> FALSE, pending |-> FALSE, recovered |-> FALSE]

Waits   == {"locking", "watching", "observed", "consumed"}
Methods == {"none", "mkdir", "pinning", "limiting"} \cup Waits

\* An instance as __init__ leaves it; proc = None is no instance.
Fresh(p, record) == [proc |-> p, rec |-> record, started |-> FALSE, recovered |-> FALSE,
                     poisoned |-> FALSE, fd |-> "none", child |-> FALSE,
                     waited |-> FALSE, in |-> "none"]
NoInstance == Fresh(None, None)

Last(s) == s[Len(s)]

TypeOK ==
    /\ life \in [Procs -> {"unborn", "up", "dead"}] /\ boot \in {0, 1}
    /\ file \in {"missing", "whole", "torn"} /\ bootOf \in {0, 1} /\ journal \in Seq(Records)
    /\ inst \in [proc : Procs \cup {None}, rec : Records \cup {None}, started : BOOLEAN,
                 recovered : BOOLEAN, poisoned : BOOLEAN, fd : Leaves, child : BOOLEAN,
                 waited : BOOLEAN, in : Methods]
    /\ dir \in Leaves /\ foreign \in BOOLEAN /\ maker \in Procs \cup {None}
    /\ kid \in [state : {"none", "running", "zombie", "reaped"}, parent : Procs \cup {None},
                inside : BOOLEAN, code : Codes \cup {Killed, None},
                by : {"none", "wait", "poll", "other"}, told : BOOLEAN,
                returncode : Codes \cup {0, Killed, None}, locked : BOOLEAN]
    /\ receipts \in Seq(Codes \cup {0, Killed})
    /\ killed \subseteq [leaf : Leaves, by : Procs, orphan : BOOLEAN]
    /\ left \in [opens : 0..MaxOpens, outside : 0..MaxOutside]

Init ==
    /\ life = [p \in Procs |-> "unborn"] /\ boot = 0
    /\ file = "missing" /\ bootOf = 0 /\ journal = <<>>
    /\ inst = NoInstance
    /\ dir = "none" /\ foreign \in BOOLEAN /\ maker = None
    /\ kid = [state |-> "none", parent |-> None, inside |-> FALSE, code |-> None,
              by |-> "none", told |-> FALSE, returncode |-> None, locked |-> FALSE]
    /\ receipts = <<>> /\ killed = {}
    /\ left = [opens |-> MaxOpens, outside |-> MaxOutside]

-----------------------------------------------------------------------------
(* What a journal must look like to be opened (_load, _validate_transition). *)

Allowed == [intent       |-> {"idle", "retired"},
            pinned       |-> {"intent"},
            prepared     |-> {"pinned"},
            spawn_intent |-> {"prepared"},
            spawn_bound  |-> {"spawn_intent"},
            admitting    |-> {"prepared", "spawn_bound"},
            admitted     |-> {"admitting"},
            killing      |-> {"pinned", "prepared", "spawn_intent", "spawn_bound",
                              "admitting", "admitted"},
            recovery     |-> {"pinned", "prepared", "spawn_bound", "admitting", "admitted",
                              "killing", "recovery"}]

MayChange == [intent       |-> {"leaf", "identity", "process", "owner", "recovered"},
              pinned       |-> {"identity"},
              prepared     |-> {},
              spawn_intent |-> {"pending"},
              spawn_bound  |-> {"process", "pending"},
              admitting    |-> {"process"},
              admitted     |-> {},
              killing      |-> {},
              recovery     |-> {"owner", "recovered"}]

Changed(a, b) == {f \in DOMAIN b \ {"phase"} : a[f] # b[f]}

Follows(a, b) ==
    /\ b.phase \in DOMAIN Allowed /\ a.phase \in Allowed[b.phase]
    /\ Changed(a, b) \subseteq MayChange[b.phase]
    /\ b.leaf /\ (b.phase = "intent" <=> b.identity = "none")
    /\ b.phase = "intent" => ~b.process /\ ~b.recovered
    /\ b.phase = "spawn_intent" => b.pending /\ ~b.process
    /\ b.phase = "spawn_bound" => ~b.pending /\ b.process
    /\ b.phase \in {"admitting", "admitted"} => b.process
    /\ b.phase = "recovery" => b.recovered /\ ~b.pending
    /\ ~(b.pending /\ b.process)

Accepted(j) ==
    /\ j # <<>> /\ j[1] = Idle(j[1].owner)
    /\ \A i \in 2..Len(j) : Follows(j[i - 1], j[i])

-----------------------------------------------------------------------------
(* Building blocks.                                                          *)

\* _root_no_work: nothing runs in the resource root, and it has no child.
RootEmpty == ~foreign /\ dir = "none"

\* _proc_identity: the recorded birth is still there; its pid alone says nothing.
Lives(p) == life[p] = "up"

\* _dup_wait_pidfd: the pidfd still names the child, which nobody has reaped.
Unreaped == kid.state # "reaped"

\* _guard, before every method: the journal is still what this instance wrote last.
Ready == /\ inst.proc # None /\ ~inst.poisoned /\ inst.in = "none"
         /\ file = "whole" /\ journal # <<>> /\ Last(journal) = inst.rec

\* _guard with the leaf: the pinned directory is the recorded one, and still at its name.
Pinned == inst.fd # "none" /\ inst.fd = inst.rec.identity /\ dir = inst.fd

\* _append: the record reaches the disk and the instance goes on as ok; a journal that is
\* full or not valid any more refuses it; or anything between nothing and all of it is
\* written and the instance is poisoned.
Appends(record, ok, failed) ==
    \/ /\ journal' = Append(journal, record)
       /\ inst' = [ok EXCEPT !.rec = record]
       /\ UNCHANGED file
    \/ /\ inst' = [failed EXCEPT !.in = "none"]
       /\ UNCHANGED <<journal, file>>
    \/ /\ inst' = [failed EXCEPT !.poisoned = TRUE, !.in = "none"]
       /\ \/ UNCHANGED <<journal, file>>
          \/ journal' = Append(journal, record) /\ UNCHANGED file
          \/ file' = "torn" /\ UNCHANGED journal

Appended(phase) == [inst.rec EXCEPT !.phase = phase]

\* status: whether the instance reports debt.
HasDebt == inst.started \/ inst.recovered \/ inst.rec.phase # "idle"

-----------------------------------------------------------------------------
(* Opening and closing the journal (__init__, close).                        *)

\* initialize: the root must be empty, the file must not exist.  The first record may
\* fail half way, and another opener may hold the lock for a moment: then the file stays,
\* and refuses everybody.
Initialize(p) ==
    /\ life[p] = "up" /\ left.opens > 0 /\ file = "missing"
    /\ RootEmpty
    /\ left' = [left EXCEPT !.opens = @ - 1]
    /\ bootOf' = boot
    /\ \/ /\ file' = "whole" /\ journal' = <<Idle(p)>>
          /\ inst' = Fresh(p, Idle(p))
       \/ /\ file' \in {"whole", "torn"} /\ journal' \in {<<>>, <<Idle(p)>>}
          /\ UNCHANGED inst
    /\ UNCHANGED <<life, boot, worldVars, kid, receipts, killed>>

\* Without initialize: nobody holds the lock, the history is complete and accepted, and
\* it is of this boot.  Every other journal is refused as debt.
Open(p) ==
    /\ life[p] = "up" /\ left.opens > 0 /\ inst.proc = None
    /\ file = "whole" /\ Accepted(journal) /\ bootOf = boot
    /\ left' = [left EXCEPT !.opens = @ - 1]
    /\ inst' = Fresh(p, Last(journal))
    /\ UNCHANGED <<life, boot, journalVars, worldVars, kid, receipts, killed>>

\* Only the descriptors go, and with them the lock.
Close ==
    /\ inst.proc # None /\ inst.in = "none"
    /\ inst' = NoInstance
    /\ UNCHANGED <<life, boot, journalVars, worldVars, kid, receipts, killed, left>>

\* Truncate and write the first record again, on the same inode.  A failure truncates
\* once more, which may fail as well.
Checkpoint ==
    /\ Ready /\ ~inst.started /\ ~inst.recovered /\ inst.rec.phase = "idle"
    /\ RootEmpty
    /\ LET idle == Idle(inst.proc) IN
       \/ journal' = <<idle>> /\ inst' = [inst EXCEPT !.rec = idle] /\ UNCHANGED file
       \/ /\ inst' = [inst EXCEPT !.poisoned = TRUE]
          /\ file' \in {"whole", "torn"} /\ journal' \in {<<>>, <<idle>>}
    /\ UNCHANGED <<life, boot, bootOf, worldVars, kid, receipts, killed, left>>

-----------------------------------------------------------------------------
(* Making the leaf (prepare).                                                *)

\* Mutant: the directory is made before its record.
PrepareMakesFirst ==
    /\ Ready /\ ~inst.started /\ inst.rec.phase = "idle" /\ dir = "none" /\ maker = None
    /\ dir' = "ours" /\ maker' = inst.proc
    /\ LET begun == [inst EXCEPT !.started = TRUE]
           intent == [Appended("intent") EXCEPT !.leaf = TRUE, !.owner = inst.proc]
       IN Appends(intent, [begun EXCEPT !.in = "pinning", !.fd = "ours"], begun)
    /\ UNCHANGED <<life, boot, bootOf, foreign, kid, receipts, killed, left>>

Prepare ==
    /\ Ready /\ ~inst.started /\ inst.rec.phase = "idle"
    /\ LET begun == [inst EXCEPT !.started = TRUE]
           intent == [Appended("intent") EXCEPT !.leaf = TRUE, !.owner = inst.proc]
       IN Appends(intent, [begun EXCEPT !.in = "mkdir"], begun)
    /\ UNCHANGED <<life, boot, bootOf, worldVars, kid, receipts, killed, left>>

\* mkdir, open and the checks of a fresh name that nobody else knows yet.
LeafMade ==
    /\ inst.in = "mkdir"
    /\ \/ /\ dir' = "ours" /\ maker' = inst.proc
          /\ inst' = [inst EXCEPT !.in = "pinning", !.fd = "ours"]
       \/ /\ UNCHANGED <<dir, maker>> \/ (dir' = "ours" /\ maker' = inst.proc)
          /\ inst' = [inst EXCEPT !.in = "none"]
    /\ UNCHANGED <<life, boot, journalVars, foreign, kid, receipts, killed, left>>

LeafPinned ==
    /\ inst.in = "pinning"
    /\ Appends([Appended("pinned") EXCEPT !.identity = inst.fd],
               [inst EXCEPT !.in = "limiting"], inst)
    /\ UNCHANGED <<life, boot, bootOf, worldVars, kid, receipts, killed, left>>

\* The limits are written and read back, or one is not kept.
LeafLimited ==
    /\ inst.in = "limiting"
    /\ \/ Pinned /\ Appends(Appended("prepared"), [inst EXCEPT !.in = "none"], inst)
       \/ inst' = [inst EXCEPT !.in = "none"] /\ UNCHANGED <<journal, file>>
    /\ UNCHANGED <<life, boot, bootOf, worldVars, kid, receipts, killed, left>>

-----------------------------------------------------------------------------
(* The reader in the leaf (reserve_spawn, bind_child, kill).                 *)

ReserveSpawn ==
    /\ Ready /\ Pinned /\ inst.rec.phase = "prepared" /\ ~inst.child
    /\ Appends([Appended("spawn_intent") EXCEPT !.pending = TRUE], inst, inst)
    /\ UNCHANGED <<life, boot, bootOf, worldVars, kid, receipts, killed, left>>

\* External: after the reservation a process is started, in the leaf or outside it;
\* Popen may fail although the child is there.
Spawned ==
    /\ inst.started /\ inst.rec.pending /\ kid.state = "none"
    /\ \E told, inside \in BOOLEAN :
          kid' = [kid EXCEPT !.state = "running", !.parent = inst.proc,
                             !.inside = inside /\ dir = "ours", !.told = told]
    /\ UNCHANGED <<life, boot, journalVars, inst, worldVars, receipts, killed, left>>

\* A child that nobody has reaped, running or not, of this process.
BindChild ==
    /\ Ready /\ Pinned /\ inst.rec.phase = "spawn_intent" /\ ~inst.child
    /\ kid.told /\ kid.parent = inst.proc /\ kid.returncode = None
    /\ kid.state \in {"running", "zombie"}
    /\ LET bound == [inst EXCEPT !.child = TRUE] IN
       Appends([Appended("spawn_bound") EXCEPT !.process = TRUE, !.pending = FALSE], bound, bound)
    /\ UNCHANGED <<life, boot, bootOf, worldVars, kid, receipts, killed, left>>

\* The process that is the parent reaps; an orphan is reaped by the system.
Exited(k, code) ==
    IF life[k.parent] = "up" THEN [k EXCEPT !.state = "zombie", !.code = code]
    ELSE [k EXCEPT !.state = "reaped", !.code = code, !.by = "other"]

\* cgroup.kill, through the pinned directory.
Kills ==
    /\ killed' = killed \cup {[leaf |-> inst.fd, by |-> inst.proc,
                               orphan |-> maker # None /\ life[maker] = "dead"]}
    /\ kid' = IF kid.state = "running" /\ kid.inside /\ inst.fd = "ours"
              THEN Exited(kid, Killed) ELSE kid

\* kill: its record first, once; the effect is a step of its own, and may be repeated.
Kill ==
    /\ Ready /\ Pinned /\ inst.rec.phase \notin {"idle", "intent", "retired"}
    /\ \/ /\ inst.rec.phase \in {"killing", "recovery"}
          /\ Kills /\ UNCHANGED <<journal, file, inst>>
       \/ /\ inst.rec.phase \notin {"killing", "recovery"}
          /\ Appends(Appended("killing"), inst, inst)
          /\ UNCHANGED <<kid, killed>>
    /\ UNCHANGED <<life, boot, bootOf, worldVars, receipts, left>>

-----------------------------------------------------------------------------
(* Taking over what a dead owner left (recover).                             *)

\* Mutant: the recorded owner is not looked for.
RecoverAnyway ==
    /\ Ready /\ ~inst.started /\ inst.fd = "none" /\ inst.rec.phase \notin {"idle", "retired"}
    /\ ~inst.rec.pending
    /\ inst.rec.identity # "none"
    /\ LET begun == [inst EXCEPT !.started = TRUE]
           taken == [begun EXCEPT !.fd = dir]
       IN \/ /\ dir = inst.rec.identity
             /\ Appends([Appended("recovery") EXCEPT !.owner = inst.proc, !.recovered = TRUE],
                        [taken EXCEPT !.recovered = TRUE], taken)
          \/ /\ dir # inst.rec.identity
             /\ inst' = begun /\ UNCHANGED <<journal, file>>
    /\ UNCHANGED <<life, boot, bootOf, worldVars, kid, receipts, killed, left>>

\* Never a spawn that was reserved and not bound, never while the recorded owner lives,
\* never another directory under the same name; a failed attempt uses the instance up.
Recover ==
    /\ Ready /\ ~inst.started /\ inst.fd = "none" /\ inst.rec.phase \notin {"idle", "retired"}
    /\ ~inst.rec.pending
    /\ ~Lives(inst.rec.owner)
    /\ inst.rec.identity # "none"
    /\ LET begun == [inst EXCEPT !.started = TRUE]
           taken == [begun EXCEPT !.fd = dir]
       IN \/ /\ dir = inst.rec.identity
             /\ Appends([Appended("recovery") EXCEPT !.owner = inst.proc, !.recovered = TRUE],
                        [taken EXCEPT !.recovered = TRUE], taken)
          \/ /\ dir # inst.rec.identity
             /\ inst' = begun /\ UNCHANGED <<journal, file>>
    /\ UNCHANGED <<life, boot, bootOf, worldVars, kid, receipts, killed, left>>

-----------------------------------------------------------------------------
(* Waiting for the reader (wait_root), against Popen's own poll and others.  *)

waitUnchanged == <<life, boot, journalVars, worldVars, killed, left>>

\* Poisoned before anything is acquired: it never runs twice.
WaitBegins ==
    /\ Ready /\ Pinned /\ ~inst.recovered /\ inst.child /\ inst.rec.process /\ ~inst.waited
    /\ inst' = [inst EXCEPT !.waited = TRUE, !.in = "locking"]
    /\ UNCHANGED <<waitUnchanged, kid, receipts>>

\* Popen's lock, then a pidfd of its own: neither may show a reaped child.
WaitLocks ==
    /\ inst.in = "locking" /\ ~kid.locked
    /\ kid.returncode = None /\ Unreaped
    /\ kid' = [kid EXCEPT !.locked = TRUE]
    /\ inst' = [inst EXCEPT !.in = "watching"]
    /\ UNCHANGED <<waitUnchanged, receipts>>

\* WNOWAIT: the zombie is still there while its birth and parent are compared.
WaitObserves ==
    /\ inst.in = "watching" /\ kid.state = "zombie"
    /\ inst' = [inst EXCEPT !.in = "observed"]
    /\ UNCHANGED <<waitUnchanged, kid, receipts>>

\* The consuming wait: ECHILD is never an outcome.
WaitConsumes ==
    /\ inst.in = "observed" /\ kid.state = "zombie"
    /\ kid' = [kid EXCEPT !.state = "reaped", !.by = "wait", !.returncode = kid.code]
    /\ inst' = [inst EXCEPT !.in = "consumed"]
    /\ UNCHANGED <<waitUnchanged, receipts>>

WaitReturns ==
    /\ inst.in = "consumed"
    /\ receipts' = Append(receipts, kid.returncode)
    /\ kid' = [kid EXCEPT !.locked = FALSE]
    /\ inst' = [inst EXCEPT !.in = "none"]
    /\ UNCHANGED waitUnchanged

\* The deadline, a cancel, or any check that does not hold: no receipt, ever.
WaitFails ==
    /\ inst.in \in Waits
    /\ kid' = IF inst.in = "locking" THEN kid ELSE [kid EXCEPT !.locked = FALSE]
    /\ inst' = [inst EXCEPT !.in = "none"]
    /\ UNCHANGED <<waitUnchanged, receipts>>

\* External: Popen.poll in another thread; ECHILD becomes the status 0.
Polled ==
    /\ kid.told /\ life[kid.parent] = "up" /\ ~kid.locked /\ kid.returncode = None
    /\ \/ /\ kid.state = "zombie"
          /\ kid' = [kid EXCEPT !.state = "reaped", !.by = "poll", !.returncode = kid.code]
       \/ /\ kid.state = "reaped"
          /\ kid' = [kid EXCEPT !.returncode = 0]
    /\ UNCHANGED <<waitUnchanged, inst, receipts>>

\* External: code of the same process that waits for any child.
ReapedElsewhere ==
    /\ kid.state = "zombie" /\ life[kid.parent] = "up"
    /\ kid' = [kid EXCEPT !.state = "reaped", !.by = "other"]
    /\ UNCHANGED <<waitUnchanged, inst, receipts>>

-----------------------------------------------------------------------------
(* The world (external).                                                     *)

ReaderExits ==
    /\ kid.state = "running"
    /\ \E code \in Codes : kid' = Exited(kid, code)
    /\ UNCHANGED <<waitUnchanged, inst, receipts>>

Born(p) ==
    /\ life[p] = "unborn"
    /\ life' = [life EXCEPT ![p] = "up"]
    /\ UNCHANGED <<boot, journalVars, inst, worldVars, kid, receipts, killed, left>>

\* A process dies: the lock goes, a zombie of its own is reaped.
Dies(p) ==
    /\ life[p] = "up"
    /\ life' = [life EXCEPT ![p] = "dead"]
    /\ inst' = IF inst.proc = p THEN NoInstance ELSE inst
    /\ kid' = IF kid.state = "zombie" /\ kid.parent = p
              THEN [kid EXCEPT !.state = "reaped", !.by = "other"] ELSE kid
    /\ UNCHANGED <<boot, journalVars, worldVars, receipts, killed, left>>

\* The machine restarts: no process and no cgroup is left, the journal is.
Restarts ==
    /\ boot = 0 /\ boot' = 1
    /\ life' = [p \in Procs |-> IF life[p] = "up" THEN "dead" ELSE life[p]]
    /\ inst' = NoInstance /\ dir' = "none" /\ foreign' = FALSE
    /\ kid' = IF kid.state \in {"running", "zombie"}
              THEN [kid EXCEPT !.state = "reaped", !.by = "other"] ELSE kid
    /\ UNCHANGED <<journalVars, maker, receipts, killed, left>>

\* The recorded leaf, once empty, is removed or replaced; other things come and go.
Disturbed ==
    /\ left.outside > 0 /\ left' = [left EXCEPT !.outside = @ - 1]
    /\ \/ /\ dir = "ours" /\ inst.in \notin {"pinning", "limiting"}
          /\ ~(kid.state = "running" /\ kid.inside)
          /\ dir' \in {"none", "theirs"} /\ UNCHANGED foreign
       \/ foreign' = ~foreign /\ UNCHANGED dir
    /\ UNCHANGED <<life, boot, journalVars, inst, maker, kid, receipts, killed>>

-----------------------------------------------------------------------------
WaitStep == WaitLocks \/ WaitObserves \/ WaitConsumes \/ WaitReturns \/ WaitFails

Next ==
    \/ \E p \in Procs : Initialize(p) \/ Open(p) \/ Born(p) \/ Dies(p)
    \/ Close \/ Checkpoint \/ Prepare \/ LeafMade \/ LeafPinned \/ LeafLimited
    \/ ReserveSpawn \/ Spawned \/ BindChild \/ Kill \/ Recover
    \/ WaitBegins \/ WaitStep \/ Polled \/ ReapedElsewhere
    \/ ReaderExits \/ Restarts \/ Disturbed

Spec == Init /\ [][Next]_vars

-----------------------------------------------------------------------------
(* What the scope promises.                                                  *)

\* "Closing this object never clears unresolved debt": whoever holds the journal and
\* reports no debt is right, no leaf and no reader were ever made under it; and a reader
\* that exists is charged in a journal that is whole, through every crash of a write.
DebtKept ==
    /\ inst.proc # None /\ ~HasDebt => maker = None /\ kid.state = "none"
    /\ kid.state # "none" /\ file = "whole" => Last(journal).pending \/ Last(journal).process

\* "Kill only the originally pinned owned leaf", and recover "only after its recorded
\* owner birth is dead": no kill hits a directory of somebody else, nor the leaf of a
\* process that is still there.
KillsOwn == \A k \in killed : k.leaf = "ours" /\ (k.by = maker \/ k.orphan)

\* "Observe AND consume exact wait status": a receipt is the reader's own status, consumed
\* by this wait and by nobody else, and there is at most one, whoever polls or reaps.
ReceiptTrue ==
    /\ Len(receipts) <= 1
    /\ receipts # <<>> => /\ kid.by = "wait" /\ receipts[1] = kid.code
                          /\ kid.returncode = kid.code

\* What is killed or received is the owner's own reader, whatever else happens.
OwnOnly == KillsOwn /\ ReceiptTrue

\* Whatever the methods append, in whatever order and across owners, the next one to open
\* the journal accepts: only an interrupted write turns a journal into unreadable debt.
HistoryAccepted == file = "whole" /\ journal # <<>> => Accepted(journal)

\* The journal is a truth that the next owner can read: debt is never cleared while its
\* cause may be there, and never made by anything but an interrupted write.
JournalTrue == TypeOK /\ DebtKept /\ HistoryAccepted
=============================================================================
