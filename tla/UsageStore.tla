----------------------------- MODULE UsageStore -----------------------------
(***************************************************************************)
(* The private usage store of one root directory: ReadUsageStore in         *)
(* src/src/native/read_usage_store.py and the service process around it     *)
(* (src/src/native/read_usage_store_service.py).                            *)
(*                                                                          *)
(* A service locks the root, seals it and then commits one record at a      *)
(* time behind a ".pending" marker.  Processes may race for the root, fail  *)
(* at any step, and the machine may lose power, which keeps or drops each   *)
(* change since the last fsync of the directory.  A file operation and the  *)
(* fsync after it are one step: losing power between the two is the same    *)
(* as losing it before or after both.                                       *)
(***************************************************************************)
EXTENDS Naturals, FiniteSets

CONSTANTS
    Conversations,  \* the protected conversations, one record each
    Services,       \* processes that open the root, at once or one after another
    Own,            \* the service that holds the broker's socket
    None

VARIABLES
    disk,     \* the root directory as processes see it
    past,     \* the directories a power loss may leave
    at,       \* at[s]: how far a service is
    made,     \* the services that created the lock file themselves
    holder,   \* who holds the flock
    job,      \* the commit under way in Own, or None
    seals,    \* history: how many services sealed the root
    acked     \* history: acked[c]: the last record the service acknowledged

storeVars == <<disk, past, at, made, holder, job, seals, acked>>

-----------------------------------------------------------------------------
Record == [epoch : Nat, on : BOOLEAN]
Absent == [epoch |-> 0, on |-> FALSE]
Root   == [lock : BOOLEAN, session : BOOLEAN, json : [Conversations -> Record],
           pending : SUBSET Conversations, writing : SUBSET Conversations]
Fresh  == [lock |-> FALSE, session |-> FALSE, json |-> [c \in Conversations |-> Absent],
           pending |-> {}, writing |-> {}]
Steps  == {"marked", "written", "renamed", "done"}
Job    == [conv : Conversations, record : Record, step : Steps]
Stages == {"off", "scanned", "opened", "locked", "ready", "failed"}

ASSUME StoreAssumption == Own \in Services /\ None \notin Conversations \cup Services \cup Job

StoreTypeOK ==
    /\ disk \in Root /\ past \in SUBSET Root /\ disk \in past
    /\ at \in [Services -> Stages] /\ made \in SUBSET Services
    /\ holder \in Services \cup {None}
    /\ job \in Job \cup {None}
    /\ seals \in Nat
    /\ acked \in [Conversations -> Record]

StoreInit ==
    /\ disk = Fresh /\ past = {Fresh}
    /\ at = [s \in Services |-> "off"] /\ made = {} /\ holder = None
    /\ job = None /\ seals = 0
    /\ acked = [c \in Conversations |-> Absent]

-----------------------------------------------------------------------------
(* Directory operations: unsynced, or followed by an fsync of the directory. *)

\* An unsynced change may or may not survive, whatever became of the others.
Change(F(_)) == disk' = F(disk) /\ past' = past \cup {F(d) : d \in past}
Synced(d)    == disk' = d /\ past' = {d}

Fail(s) ==
    /\ at' = [at EXCEPT ![s] = "failed"]
    /\ holder' = IF holder = s THEN None ELSE holder
    /\ job' = IF s = Own THEN None ELSE job

-----------------------------------------------------------------------------
(* Opening the root: __init__ and _seal_session.                             *)

\* The names in the root are checked before the first change.
Scan(s) ==
    /\ at[s] = "off"
    /\ at' = [at EXCEPT ![s] = IF disk.session THEN "failed" ELSE "scanned"]
    /\ UNCHANGED <<disk, past, made, holder, job, seals, acked>>

\* O_CREAT | O_EXCL tells the creator of the lock file from whoever finds it.
OpenLock(s) ==
    /\ at[s] = "scanned"
    /\ at' = [at EXCEPT ![s] = "opened"]
    /\ made' = IF disk.lock THEN made \ {s} ELSE made \cup {s}
    /\ LET Create(d) == [d EXCEPT !.lock = TRUE] IN Change(Create)
    /\ UNCHANGED <<holder, job, seals, acked>>

\* Mutant: the names are not checked again behind the lock.
LockUnguarded(s) ==
    /\ at[s] = "opened"
    /\ \/ /\ holder # None
          /\ Fail(s) /\ UNCHANGED <<disk, past>>
       \/ /\ holder = None /\ Synced(disk)
          /\ holder' = s /\ at' = [at EXCEPT ![s] = "locked"] /\ UNCHANGED job
    /\ UNCHANGED <<made, seals, acked>>

\* flock, fsync and _guard, which checks the names once more.
Lock(s) ==
    /\ at[s] = "opened"
    /\ \/ /\ holder # None
          /\ Fail(s) /\ UNCHANGED <<disk, past>>
       \/ /\ holder = None /\ Synced(disk)
          /\ IF disk.session THEN Fail(s)
             ELSE holder' = s /\ at' = [at EXCEPT ![s] = "locked"] /\ UNCHANGED job
    /\ UNCHANGED <<made, seals, acked>>

\* Only the creator of the lock file seals, and only an otherwise empty root.
MaySeal(s) ==
    s \in made /\ disk = [Fresh EXCEPT !.lock = TRUE]

\* The permanent session marker: after it no service opens this root again.
Seal(s) ==
    /\ at[s] = "locked"
    /\ IF MaySeal(s)
       THEN /\ Synced([disk EXCEPT !.session = TRUE])
            /\ at' = [at EXCEPT ![s] = "ready"] /\ seals' = seals + 1
            /\ UNCHANGED <<holder, job>>
       ELSE Fail(s) /\ UNCHANGED <<disk, past, seals>>
    /\ UNCHANGED <<made, acked>>

-----------------------------------------------------------------------------
(* One commit of Own.                                                        *)

\* A marker or a leftover of an earlier commit, and a record that is not newer
\* than the one on disk, refuse the commit, and with it the service.
Admits(f) ==
    /\ f.conv \notin disk.pending \cup disk.writing
    /\ disk.json[f.conv].epoch < f.record.epoch

\* The marker is durable before anything of the record is.
Take(f) ==
    /\ at[Own] = "ready" /\ job = None
    /\ IF Admits(f)
       THEN /\ job' = [conv |-> f.conv, record |-> f.record, step |-> "marked"]
            /\ Synced([disk EXCEPT !.pending = @ \cup {f.conv}])
            /\ UNCHANGED <<at, holder>>
       ELSE Fail(Own) /\ UNCHANGED <<disk, past>>
    /\ UNCHANGED <<made, seals, acked>>

Advance(from, to) ==
    /\ job # None /\ job.step = from
    /\ job' = [job EXCEPT !.step = to]
    /\ UNCHANGED <<at, made, holder, seals, acked>>

\* The record is written beside the old one and synced as a file.
WriteRecord ==
    /\ Advance("marked", "written")
    /\ LET Create(d) == [d EXCEPT !.writing = @ \cup {job.conv}] IN Change(Create)

Rename ==
    /\ Advance("written", "renamed")
    /\ LET Replace(d) == [d EXCEPT !.writing = @ \ {job.conv}, !.json[job.conv] = job.record]
       IN  Change(Replace)

\* The directory is synced, the record read back, and the marker removed last.
Unmark ==
    /\ Advance("renamed", "done")
    /\ Synced([disk EXCEPT !.pending = @ \ {job.conv}])

\* Mutant: the acknowledgement is sent as soon as the record has its name.
AcknowledgeRenamed ==
    /\ at[Own] = "ready" /\ job # None /\ job.step \in {"renamed", "done"}
    /\ acked' = [acked EXCEPT ![job.conv] = job.record]
    /\ job' = None
    /\ UNCHANGED <<disk, past, at, made, holder, seals>>

\* commit has returned: the acknowledgement is sent.
Acknowledge ==
    /\ at[Own] = "ready" /\ job # None /\ job.step = "done"
    /\ acked' = [acked EXCEPT ![job.conv] = job.record]
    /\ job' = None
    /\ UNCHANGED <<disk, past, at, made, holder, seals>>

-----------------------------------------------------------------------------
\* A deadline, a failed check or file operation, a cancel, a kill.
ServiceFails(s) ==
    /\ at[s] \in {"scanned", "opened", "locked", "ready"}
    /\ Fail(s)
    /\ UNCHANGED <<disk, past, made, seals, acked>>

\* The machine stops: every process ends, unsynced changes may be gone, and other
\* services may open the root after the next boot.
PowerFails ==
    /\ \E d \in past : Synced(d)
    /\ at' = [s \in Services |-> IF s = Own THEN "failed" ELSE "off"]
    /\ holder' = None /\ job' = None /\ made' = {}
    /\ UNCHANGED <<seals, acked>>

StoreStep ==
    \/ \E s \in Services : Scan(s) \/ OpenLock(s) \/ Lock(s) \/ Seal(s)
    \/ WriteRecord \/ Rename \/ Unmark

-----------------------------------------------------------------------------
(* What a reader of the root may conclude (read_evidence).                   *)

Clean(d, c) == c \notin d.pending \cup d.writing

\* The record that no power loss can take away.
Durable(c) == CHOOSE r \in {d.json[c] : d \in past} : \A d \in past : r.epoch <= d.json[c].epoch
=============================================================================
