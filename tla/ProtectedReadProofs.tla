------------------------- MODULE ProtectedReadProofs -------------------------
(***************************************************************************)
(* Proofs about protected reads.  First, the owner's switch, with its       *)
(* transport and its store on disk, is a UsageSwitch, and the store keeps   *)
(* what it acknowledged (ReadUsage), for any conversations, services and    *)
(* limits.  Second, enrollments, the accounts of what is read and the       *)
(* approvals of what is delivered (ReadViews and ReadDelivery), for any     *)
(* channels, bindings, requests, prices and budgets.                        *)
(***************************************************************************)
EXTENDS ReadUsage, ReadDelivery, FiniteSetTheorems, TLAPS

\* Every root that a power loss may leave has the records of the directory as the
\* processes see it, but for one record, which is an older one there.
Agree == \A d \in past : d.json = disk.json
Close(P, k) ==
    /\ \A d \in P, c \in Conversations : d.json[c] # k.json[c] => d.json[c].epoch < k.json[c].epoch
    /\ \A d, e \in P, c, x \in Conversations :
          d.json[c] # k.json[c] /\ e.json[x] # k.json[x] => c = x /\ d.json[c] = e.json[x]
JsonInv == Close(past, disk)

\* A record is of the owner: its newest request, or an older one.
MeantBy(a, r) == r.epoch <= a.epoch /\ (r.epoch = a.epoch => r = a)
Meant(c, r) == MeantBy(asked[c], r)
MeantInv ==
    /\ \A d \in past, c \in Conversations : Meant(c, d.json[c])
    /\ \A i \in DOMAIN wire : Meant(wire[i].conv, wire[i].record)
    /\ \A c \in Conversations : \A i \in DOMAIN requests[c] : Meant(c, requests[c][i].record)
    /\ \A c \in Conversations : asked[c].epoch <= MaxEpoch
    /\ ~poisoned => \A c \in Conversations : asked[c].epoch = epoch[c] /\ epoch[c] <= counter

\* Whoever works in the root holds its lock, and the broker's service leaves nothing
\* behind once it has answered.
RootInv ==
    /\ \A s \in Services : at[s] \in {"locked", "ready"} => holder = s
    /\ at[Own] = "ready" =>
          /\ \A c \in disk.pending : job # None /\ job.conv = c /\ job.step # "done"
          /\ \A c \in disk.writing : job # None /\ job.conv = c /\ job.step = "written"

\* The commit under way is of the frame in flight.
JobInv == job # None =>
    /\ at[Own] = "ready" /\ wire # <<>> /\ stage = "serving"
    /\ wire[1].conv = job.conv /\ wire[1].record = job.record
    /\ job.step # "done" => \A d \in past : job.conv \in d.pending
    /\ job.step # "renamed" => Agree
    /\ IF job.step \in {"marked", "written"} THEN disk.json[job.conv].epoch < job.record.epoch
       ELSE disk.json[job.conv] = job.record

\* One frame for each conversation, that of its oldest request.  What has not reached
\* the service is newer than what is on disk.
WireInv ==
    /\ \A i, j \in DOMAIN wire : i # j => wire[i].conv # wire[j].conv
    /\ \A i \in DOMAIN wire : i > 1 \/ stage = "out" =>
          disk.json[wire[i].conv].epoch < wire[i].record.epoch
    /\ ~poisoned => \A i \in DOMAIN wire : LET q == requests[wire[i].conv] IN
          q # <<>> /\ q[1].run = "storing" /\ q[1].record = wire[i].record

QueueInv == \A c \in Conversations :
    /\ \A i, j \in DOMAIN requests[c] : i < j =>
          requests[c][i].record.epoch < requests[c][j].record.epoch /\ requests[c][j].run = "waiting"
    /\ ~poisoned => \A i \in DOMAIN requests[c] : requests[c][i].run = "waiting" =>
          disk.json[c].epoch < requests[c][i].record.epoch

\* Recorded in every root that a power loss may leave.
Kept(c, e) == \A d \in past : e <= d.json[c].epoch
KeptInv ==
    /\ \A c \in Conversations : Kept(c, acked[c].epoch) /\ Kept(c, answered[c].epoch)
    /\ \A c \in Conversations : \A i \in DOMAIN requests[c] :
          requests[c][i].run = "ok" => Kept(c, requests[c][i].record.epoch)
    /\ wire # <<>> /\ stage \in {"back", "acked"} => Kept(wire[1].conv, wire[1].record.epoch)

UsageInv ==
    TypeOK /\ JsonInv /\ MeantInv /\ RootInv /\ JobInv /\ WireInv /\ QueueInv /\ KeptInv

----------------------------------------------------------------------------
(* The record that no power loss can take away, for any set of roots.       *)

Least(P, c) == CHOOSE r \in {d.json[c] : d \in P} : \A d \in P : r.epoch <= d.json[c].epoch

\* The records of a root.
LEMMA RootRecords ==
    ASSUME NEW d \in Root
    PROVE  /\ d.json \in [Conversations -> Record]
           /\ \A c \in Conversations : d.json[c] \in Record /\ d.json[c].epoch \in Nat
BY DEF Root, Record

\* A root whose record is as old as any has the record that is chosen.
LEMMA LeastUnique ==
    ASSUME NEW P \in SUBSET Root, NEW k \in P, Close(P, k), NEW c \in Conversations, NEW d \in P,
           \A e \in P : d.json[c].epoch <= e.json[c].epoch
    PROVE  Least(P, c) = d.json[c]
<1>1. \A e \in P : e.json[c].epoch \in Nat
  BY RootRecords
<1>2. ASSUME NEW e \in P, e.json[c].epoch = d.json[c].epoch PROVE e.json[c] = d.json[c]
  BY <1>1, <1>2 DEF Close
<1> DEFINE V == {e.json[c] : e \in P}
           R(r) == \A e \in P : r.epoch <= e.json[c].epoch
<1>3. d.json[c] \in V /\ R(d.json[c])
  OBVIOUS
<1>4. ASSUME NEW r \in V, R(r) PROVE r = d.json[c]
  <2>1. PICK e \in P : r = e.json[c]
    BY <1>4
  <2>2. e.json[c].epoch <= d.json[c].epoch /\ d.json[c].epoch <= e.json[c].epoch
    BY <1>4, <2>1
  <2> QED BY <1>1, <1>2, <2>1, <2>2
<1>5. Least(P, c) = CHOOSE r \in V : R(r)
  BY DEF Least
<1> HIDE DEF V, R
<1>6. (CHOOSE r \in V : R(r)) \in V /\ R(CHOOSE r \in V : R(r))
  BY <1>3
<1> QED BY <1>4, <1>5, <1>6

\* There is one.
LEMMA LeastIs ==
    ASSUME NEW P \in SUBSET Root, NEW k \in P, Close(P, k), NEW c \in Conversations
    PROVE  \E d \in P : Least(P, c) = d.json[c] /\ \A e \in P : d.json[c].epoch <= e.json[c].epoch
<1>1. \A e \in P : e.json[c].epoch \in Nat
  BY RootRecords
<1>2. CASE \A e \in P : e.json[c] = k.json[c]
  <2>1. \A e \in P : k.json[c].epoch <= e.json[c].epoch
    BY <1>1, <1>2
  <2> QED BY <2>1, LeastUnique
<1>3. CASE \E d \in P : d.json[c] # k.json[c]
  <2>1. PICK d \in P : d.json[c] # k.json[c]
    BY <1>3
  <2>2. ASSUME NEW e \in P PROVE d.json[c].epoch <= e.json[c].epoch
    <3>1. CASE e.json[c] = k.json[c]
      BY <1>1, <2>1, <3>1 DEF Close
    <3>2. CASE e.json[c] # k.json[c]
      <4>1. d.json[c] = e.json[c]
        BY <2>1, <3>2 DEF Close
      <4> QED BY <1>1, <4>1
    <3> QED BY <3>1, <3>2
  <2> QED BY <2>2, LeastUnique
<1> QED BY <1>2, <1>3

\* A root that has another record than the chosen one has a newer one, and it has it
\* for this conversation only.
LEMMA LeastBelow ==
    ASSUME NEW P \in SUBSET Root, NEW k \in P, Close(P, k), NEW c \in Conversations, NEW d \in P,
           Least(P, c) # d.json[c]
    PROVE  /\ Least(P, c).epoch < d.json[c].epoch
           /\ \A x \in Conversations : x # c => Least(P, x) = d.json[x]
<1>1. PICK e \in P : Least(P, c) = e.json[c] /\ \A o \in P : e.json[c].epoch <= o.json[c].epoch
  BY LeastIs
<1>2. \A o \in P, x \in Conversations : o.json[x].epoch \in Nat
  BY RootRecords
<1>3. e.json[c] # k.json[c] /\ d.json[c] = k.json[c]
  BY <1>1, <1>2 DEF Close
<1>4. \A o \in P, x \in Conversations : x # c => o.json[x] = k.json[x]
  BY <1>3 DEF Close
<1>5. ASSUME NEW x \in Conversations, x # c PROVE Least(P, x) = d.json[x]
  <2>1. \A o \in P : o.json[x] = d.json[x]
    BY <1>4, <1>5
  <2>2. \E o \in P : Least(P, x) = o.json[x]
    BY LeastIs
  <2> QED BY <2>1, <2>2
<1> QED BY <1>1, <1>2, <1>3, <1>5 DEF Close

\* Two sets of roots with the same records.
LEMMA LeastSame ==
    ASSUME NEW P \in SUBSET Root, NEW k \in P, Close(P, k), NEW Q \in SUBSET Root, NEW l \in Q, Close(Q, l),
           \A d \in P : \E e \in Q : e.json = d.json, \A e \in Q : \E d \in P : e.json = d.json,
           NEW c \in Conversations
    PROVE  Least(Q, c) = Least(P, c)
<1>1. PICK d \in P : Least(P, c) = d.json[c] /\ \A o \in P : d.json[c].epoch <= o.json[c].epoch
  BY LeastIs
<1>2. PICK e \in Q : e.json = d.json
  OBVIOUS
<1>3. \A o \in Q : e.json[c].epoch <= o.json[c].epoch
  BY <1>1, <1>2
<1>4. Least(Q, c) = e.json[c]
  BY <1>3, LeastUnique
<1> QED BY <1>1, <1>2, <1>4

----------------------------------------------------------------------------
(* What a step does to the roots: it leaves one of them, or the records of    *)
(* all of them, or one record gets its name.                                 *)

Resynced   == \E d \in past : past' = {disk'} /\ disk'.json = d.json
Relabelled == /\ disk'.json = disk.json
              /\ \A d \in past : \E e \in past' : e.json = d.json
              /\ \A e \in past' : \E d \in past : e.json = d.json
Replaced(c, r) ==
    /\ Agree /\ disk.json[c].epoch < r.epoch
    /\ disk'.json = [disk.json EXCEPT ![c] = r]
    /\ past \subseteq past' /\ \A e \in past' : e \in past \/ e.json = disk'.json

\* No record is lost that every root had, and at most one becomes durable.
Grows == \A e \in past' : \E d \in past : \A c \in Conversations : d.json[c].epoch <= e.json[c].epoch
Written(c) == /\ Durable(c)' \in Record /\ Durable(c).epoch < Durable(c)'.epoch
              /\ \E d \in past' : Durable(c)' = d.json[c]
              /\ \A x \in Conversations \ {c} : Durable(x)' = Durable(x)
Recorded == (\A c \in Conversations : Durable(c)' = Durable(c)) \/ \E c \in Conversations : Written(c)

\* The chosen record is the least one.
LEMMA DurableLeast == ASSUME NEW c PROVE Durable(c) = Least(past, c) /\ Durable(c)' = Least(past', c)
BY DEF Durable, Least

\* One root is left.
LEMMA ResyncedKeeps ==
    ASSUME StoreTypeOK, StoreTypeOK', JsonInv, Resynced
    PROVE  JsonInv' /\ Grows /\ Recorded
<1>1. past \in SUBSET Root /\ disk \in past /\ past' \in SUBSET Root /\ disk' \in past'
  BY DEF StoreTypeOK
<1>2. PICK d \in past : past' = {disk'} /\ disk'.json = d.json
  BY DEF Resynced
<1>3. JsonInv'
  BY <1>2 DEF JsonInv, Close
<1>4. \A x \in Conversations : d.json[x] \in Record /\ d.json[x].epoch \in Nat
  BY <1>1, RootRecords
<1>5. Grows
  BY <1>2, <1>4 DEF Grows
<1>6. ASSUME NEW x \in Conversations PROVE Least(past', x) = d.json[x]
  <2>1. \A e \in past' : disk'.json[x].epoch <= e.json[x].epoch
    BY <1>2, <1>4
  <2> QED BY <1>1, <1>2, <1>3, <2>1, LeastUnique DEF JsonInv
<1>7. CASE \A c \in Conversations : Least(past, c) = d.json[c]
  BY <1>3, <1>5, <1>6, <1>7, DurableLeast DEF Recorded
<1>8. CASE \E c \in Conversations : Least(past, c) # d.json[c]
  <2>1. PICK c \in Conversations : Least(past, c) # d.json[c]
    BY <1>8
  <2>2. /\ Least(past, c).epoch < d.json[c].epoch
        /\ \A x \in Conversations : x # c => Least(past, x) = d.json[x]
    BY <1>1, <2>1, LeastBelow DEF JsonInv
  <2>3. Durable(c)' = d.json[c] /\ Durable(c) = Least(past, c)
    BY <1>6, DurableLeast
  <2>4. \A x \in Conversations \ {c} : Durable(x)' = Durable(x)
    BY <1>6, <2>2, DurableLeast
  <2>5. Written(c)
    BY <1>1, <1>2, <1>4, <2>2, <2>3, <2>4 DEF Written
  <2> QED BY <1>3, <1>5, <2>5 DEF Recorded
<1> QED BY <1>3, <1>5, <1>7, <1>8

\* The records stay.
LEMMA RelabelledKeeps ==
    ASSUME StoreTypeOK, StoreTypeOK', JsonInv, Relabelled
    PROVE  JsonInv' /\ Grows /\ Recorded
<1>1. past \in SUBSET Root /\ disk \in past /\ past' \in SUBSET Root /\ disk' \in past'
  BY DEF StoreTypeOK
<1>2. Close(past', disk')
  <2>1. \A e \in past', c \in Conversations : e.json[c] # disk'.json[c] => e.json[c].epoch < disk'.json[c].epoch
    BY DEF JsonInv, Close, Relabelled
  <2>2. ASSUME NEW d \in past', NEW e \in past', NEW c \in Conversations, NEW x \in Conversations,
               d.json[c] # disk'.json[c], e.json[x] # disk'.json[x]
        PROVE  c = x /\ d.json[c] = e.json[x]
    <3>1. PICK a \in past : a.json = d.json
      BY DEF Relabelled
    <3>2. PICK b \in past : b.json = e.json
      BY DEF Relabelled
    <3> QED BY <2>2, <3>1, <3>2 DEF JsonInv, Close, Relabelled
  <2> QED BY <2>1, <2>2 DEF Close
<1>3. Grows
  <2>1. ASSUME NEW e \in past' PROVE \E d \in past : \A c \in Conversations : d.json[c].epoch <= e.json[c].epoch
    <3>1. PICK d \in past : d.json = e.json
      BY DEF Relabelled
    <3>2. \A c \in Conversations : d.json[c].epoch \in Nat
      BY <1>1, RootRecords
    <3> QED BY <3>1, <3>2
  <2> QED BY <2>1 DEF Grows
<1>4. ASSUME NEW c \in Conversations PROVE Least(past', c) = Least(past, c)
  <2>1. /\ \A d \in past : \E e \in past' : e.json = d.json
        /\ \A e \in past' : \E d \in past : e.json = d.json
        /\ Close(past, disk)
    BY DEF Relabelled, JsonInv
  <2> QED BY <1>1, <1>2, <2>1, LeastSame
<1> QED BY <1>2, <1>3, <1>4, DurableLeast DEF JsonInv, Recorded

\* A record gets its name: all roots still have the one before.
LEMMA ReplacedKeeps ==
    ASSUME StoreTypeOK, StoreTypeOK', JsonInv, NEW c \in Conversations, NEW r \in Record, Replaced(c, r)
    PROVE  JsonInv' /\ Grows /\ \A x \in Conversations : Durable(x)' = Durable(x)
<1>1. past \in SUBSET Root /\ disk \in past /\ past' \in SUBSET Root /\ disk' \in past'
  BY DEF StoreTypeOK
<1>2. disk.json \in [Conversations -> Record] /\ r.epoch \in Nat
      /\ \A x \in Conversations : disk.json[x].epoch \in Nat
  BY <1>1, RootRecords DEF Record
<1>3. disk'.json[c] = r /\ \A x \in Conversations \ {c} : disk'.json[x] = disk.json[x]
  BY <1>2 DEF Replaced
<1>4. \A e \in past' : e.json = disk.json \/ e.json = disk'.json
  BY DEF Replaced, Agree
<1>5. disk.json[c].epoch < disk'.json[c].epoch
  BY <1>3 DEF Replaced
<1>6. Close(past', disk')
  BY <1>3, <1>4, <1>5 DEF Close
<1>7. \A e \in past', x \in Conversations : disk.json[x].epoch <= e.json[x].epoch
  BY <1>2, <1>3, <1>4, <1>5
<1>8. Grows
  BY <1>1, <1>7 DEF Grows
<1>9. ASSUME NEW x \in Conversations PROVE Least(past', x) = disk.json[x] /\ Least(past, x) = disk.json[x]
  <2>1. disk \in past' /\ \A e \in past : disk.json[x].epoch <= e.json[x].epoch
    BY <1>1, <1>2 DEF Replaced, Agree
  <2>2. Least(past', x) = disk.json[x]
    BY <1>1, <1>6, <1>7, <2>1, LeastUnique
  <2>3. Least(past, x) = disk.json[x]
    BY <1>1, <2>1, LeastUnique DEF JsonInv
  <2> QED BY <2>2, <2>3
<1> QED BY <1>6, <1>8, <1>9, DurableLeast DEF JsonInv

----------------------------------------------------------------------------
(* The steps of the services.                                               *)

\* A record gets its name.
Renamed(d, c, r) == [d EXCEPT !.writing = @ \ {c}, !.json[c] = r]
LEMMA RootRenamed ==
    ASSUME NEW d \in Root, NEW c \in Conversations, NEW r \in Record
    PROVE  /\ Renamed(d, c, r) \in Root /\ Renamed(d, c, r).json = [d.json EXCEPT ![c] = r]
           /\ Renamed(d, c, r).pending = d.pending /\ Renamed(d, c, r).writing = d.writing \ {c}
<1>1. d.json \in [Conversations -> Record] /\ d.writing \in SUBSET Conversations
  BY DEF Root
<1>2. [d.json EXCEPT ![c] = r] \in [Conversations -> Record]
  BY <1>1
<1> QED BY <1>1, <1>2 DEF Root, Renamed

\* What every step of a service has to keep.
ServiceKeeps == StoreTypeOK' /\ RootInv' /\ JobInv' /\ (Resynced \/ Relabelled) /\ disk'.json = disk.json

\* Nothing is done to the roots.
LEMMA Still == ASSUME UNCHANGED <<disk, past>> PROVE Relabelled
BY DEF Relabelled

\* A service ends: a commit of the broker's ends with it.
LEMMA FailKeeps ==
    ASSUME UsageInv, NEW s \in Services, Fail(s), UNCHANGED <<disk, past, made, seals, acked, wire, stage>>
    PROVE  ServiceKeeps
<1>1. StoreTypeOK /\ RootInv /\ JobInv
  BY DEF UsageInv, TypeOK
<1>2. StoreTypeOK'
  BY <1>1, StoreAssumption DEF StoreTypeOK, Fail, Stages
<1>3. at'[s] = "failed" /\ \A o \in Services \ {s} : at'[o] = at[o]
  BY <1>1 DEF StoreTypeOK, Fail
<1>4. RootInv'
  <2>1. \A o \in Services : at'[o] \in {"locked", "ready"} => o # s /\ holder = o
    BY <1>1, <1>3 DEF RootInv
  <2>2. at'[Own] = "ready" => at[Own] = "ready" /\ job' = job
    BY <1>3, StoreAssumption DEF Fail
  <2> QED BY <1>1, <2>1, <2>2 DEF RootInv, Fail
<1>5. JobInv'
  <2>1. job' # None => job' = job /\ at'[Own] = at[Own]
    BY <1>3, StoreAssumption DEF Fail
  <2> QED BY <1>1, <2>1 DEF JobInv, Agree
<1> QED BY <1>2, <1>4, <1>5, Still DEF ServiceKeeps

\* Opening the root.
LEMMA ScanKeeps ==
    ASSUME UsageInv, NEW s \in Services, Scan(s), UNCHANGED <<wire, stage>>
    PROVE  ServiceKeeps
<1>1. StoreTypeOK /\ RootInv /\ JobInv
  BY DEF UsageInv, TypeOK
<1>2. at'[s] \in {"failed", "scanned"} /\ (\A o \in Services \ {s} : at'[o] = at[o]) /\ at[s] = "off"
  BY <1>1 DEF StoreTypeOK, Scan
<1>3. StoreTypeOK'
  BY <1>1 DEF StoreTypeOK, Scan, Stages
<1>4. RootInv' /\ JobInv'
  BY <1>1, <1>2, StoreAssumption DEF RootInv, JobInv, Agree, Scan
<1> QED BY <1>3, <1>4, Still DEF ServiceKeeps, Scan

LEMMA OpenLockKeeps ==
    ASSUME UsageInv, NEW s \in Services, OpenLock(s), UNCHANGED <<wire, stage>>
    PROVE  ServiceKeeps
<1>1. StoreTypeOK /\ RootInv /\ JobInv
  BY DEF UsageInv, TypeOK
<1>2. at'[s] = "opened" /\ (\A o \in Services \ {s} : at'[o] = at[o]) /\ at[s] = "scanned"
  BY <1>1 DEF StoreTypeOK, OpenLock
<1> DEFINE L(d) == [d EXCEPT !.lock = TRUE]
<1>3. disk' = L(disk) /\ past' = past \cup {L(d) : d \in past}
  BY DEF OpenLock, Change
<1>4. ASSUME NEW d \in Root
      PROVE  L(d) \in Root /\ L(d).json = d.json /\ L(d).pending = d.pending /\ L(d).writing = d.writing
  BY DEF Root
<1>5. past \in SUBSET Root /\ disk \in past
  BY <1>1 DEF StoreTypeOK
<1> HIDE DEF L
<1>6. /\ disk'.json = disk.json /\ disk'.pending = disk.pending /\ disk'.writing = disk.writing
      /\ disk' \in past' /\ past' \in SUBSET Root /\ disk' \in Root
  BY <1>3, <1>4, <1>5
<1>7. \A e \in past' : \E d \in past : e.json = d.json /\ e.pending = d.pending
  BY <1>3, <1>4, <1>5
<1>8. StoreTypeOK'
  BY <1>1, <1>6 DEF StoreTypeOK, OpenLock, Stages
<1>9. RootInv'
  BY <1>1, <1>2, <1>6, StoreAssumption DEF RootInv, OpenLock
<1>10. JobInv'
  BY <1>1, <1>2, <1>6, <1>7, StoreAssumption DEF JobInv, Agree, OpenLock
<1>11. Relabelled
  BY <1>3, <1>6, <1>7 DEF Relabelled
<1> QED BY <1>6, <1>8, <1>9, <1>10, <1>11 DEF ServiceKeeps

LEMMA LockKeeps ==
    ASSUME UsageInv, NEW s \in Services, Lock(s), UNCHANGED <<wire, stage>>
    PROVE  ServiceKeeps
<1>1. StoreTypeOK /\ RootInv /\ JobInv
  BY DEF UsageInv, TypeOK
<1>2. CASE Fail(s) /\ UNCHANGED <<disk, past>>
  BY <1>2, FailKeeps DEF Lock
<1>3. CASE holder = None /\ Synced(disk)
  <2>1. disk' = disk /\ past' = {disk} /\ disk \in Root /\ past \in SUBSET Root /\ disk \in past
    BY <1>1, <1>3 DEF Synced, StoreTypeOK
  <2>2. at[Own] # "ready" /\ job = None
    BY <1>1, <1>3, StoreAssumption DEF RootInv, JobInv
  <2>3. /\ job' = None /\ holder' \in {None, s} /\ at[s] = "opened"
        /\ at'[s] = "failed" \/ (at'[s] = "locked" /\ holder' = s)
        /\ at' \in [Services -> Stages] /\ \A o \in Services \ {s} : at'[o] = at[o]
    BY <1>1, <1>3, <2>2 DEF Lock, Fail, StoreTypeOK, Stages
  <2>4. StoreTypeOK'
    BY <1>1, <2>1, <2>3 DEF StoreTypeOK, Lock
  <2>5. RootInv'
    <3>1. \A o \in Services \ {s} : at[o] \notin {"locked", "ready"}
      BY <1>1, <1>3, StoreAssumption DEF RootInv
    <3> QED BY <2>2, <2>3, <3>1, StoreAssumption DEF RootInv
  <2>6. JobInv'
    BY <2>3 DEF JobInv
  <2>7. Resynced
    BY <2>1 DEF Resynced
  <2> QED BY <2>1, <2>4, <2>5, <2>6, <2>7 DEF ServiceKeeps
<1> QED BY <1>2, <1>3 DEF Lock

LEMMA SealKeeps ==
    ASSUME UsageInv, NEW s \in Services, Seal(s), UNCHANGED <<wire, stage>>
    PROVE  ServiceKeeps
<1>1. StoreTypeOK /\ RootInv /\ JobInv
  BY DEF UsageInv, TypeOK
<1>2. CASE ~MaySeal(s)
  BY <1>2, FailKeeps DEF Seal
<1>3. CASE MaySeal(s)
  <2>1. disk \in Root /\ past \in SUBSET Root /\ disk \in past
    BY <1>1 DEF StoreTypeOK
  <2>2. disk.pending = {} /\ disk.writing = {}
    BY <1>3 DEF MaySeal, Fresh
  <2>3. disk' = [disk EXCEPT !.session = TRUE] /\ past' = {disk'}
    BY <1>3 DEF Seal, Synced
  <2>4. disk' \in Root /\ disk'.json = disk.json /\ disk'.pending = {} /\ disk'.writing = {}
    BY <2>1, <2>2, <2>3 DEF Root
  <2>5. holder = s /\ at[s] = "locked" /\ at'[s] = "ready" /\ holder' = holder /\ job' = job
        /\ \A o \in Services \ {s} : at'[o] = at[o]
    BY <1>1, <1>3 DEF Seal, RootInv, StoreTypeOK
  <2>6. job = None
    BY <1>1, <2>5, StoreAssumption DEF RootInv, JobInv
  <2>7. StoreTypeOK'
    BY <1>1, <1>3, <2>3, <2>4 DEF StoreTypeOK, Seal, Stages
  <2>8. RootInv' /\ JobInv'
    BY <1>1, <2>4, <2>5, <2>6 DEF RootInv, JobInv
  <2>9. Resynced
    BY <2>1, <2>3, <2>4 DEF Resynced
  <2> QED BY <2>4, <2>7, <2>8, <2>9 DEF ServiceKeeps
<1> QED BY <1>2, <1>3

----------------------------------------------------------------------------
(* The steps of one commit.                                                 *)

\* What is known of the commit under way.
LEMMA JobFacts ==
    ASSUME UsageInv, job # None
    PROVE  /\ StoreTypeOK /\ RootInv /\ JobInv
           /\ job.conv \in Conversations /\ job.record \in Record /\ job.step \in Steps
           /\ past \in SUBSET Root /\ disk \in past /\ disk \in Root
           /\ \A t \in Steps : /\ [job EXCEPT !.step = t] \in Job /\ [job EXCEPT !.step = t] # None
                               /\ [job EXCEPT !.step = t].conv = job.conv
                               /\ [job EXCEPT !.step = t].record = job.record
                               /\ [job EXCEPT !.step = t].step = t
<1>1. StoreTypeOK /\ RootInv /\ JobInv
  BY DEF UsageInv, TypeOK
<1>2. job \in Job
  BY <1>1 DEF StoreTypeOK
<1>3. \A t \in Steps : [job EXCEPT !.step = t] \in Job
  BY <1>2 DEF Job
<1> QED BY <1>1, <1>2, <1>3, StoreAssumption DEF Job, StoreTypeOK

LEMMA WriteRecordKeeps == ASSUME UsageInv, WriteRecord, UNCHANGED <<wire, stage>> PROVE ServiceKeeps
<1>1. job # None /\ job.step = "marked" /\ job' = [job EXCEPT !.step = "written"]
      /\ UNCHANGED <<at, made, holder, seals, acked>>
  BY DEF WriteRecord, Advance
<1>2. /\ StoreTypeOK /\ RootInv /\ JobInv /\ job.conv \in Conversations
      /\ past \in SUBSET Root /\ disk \in past /\ disk \in Root
  BY <1>1, JobFacts
<1>3. job' \in Job /\ job' # None /\ job'.conv = job.conv /\ job'.record = job.record /\ job'.step = "written"
  BY <1>1, JobFacts DEF Steps
<1> DEFINE L(d) == [d EXCEPT !.writing = @ \cup {job.conv}]
<1>4. disk' = L(disk) /\ past' = past \cup {L(d) : d \in past}
  BY DEF WriteRecord, Change
<1>5. ASSUME NEW d \in Root
      PROVE  /\ L(d) \in Root /\ L(d).json = d.json /\ L(d).pending = d.pending
             /\ L(d).writing = d.writing \cup {job.conv}
  <2>1. d.writing \cup {job.conv} \in SUBSET Conversations
    BY <1>2 DEF Root
  <2> QED BY <2>1 DEF Root
<1> HIDE DEF L
<1>6. /\ disk'.json = disk.json /\ disk'.pending = disk.pending /\ disk'.writing = disk.writing \cup {job.conv}
      /\ disk' \in past' /\ past' \in SUBSET Root /\ disk' \in Root
  BY <1>2, <1>4, <1>5
<1>7. \A e \in past' : \E d \in past : e.json = d.json /\ e.pending = d.pending
  BY <1>2, <1>4, <1>5
<1>8. StoreTypeOK'
  BY <1>1, <1>2, <1>3, <1>6 DEF StoreTypeOK
<1>9. RootInv'
  BY <1>1, <1>2, <1>3, <1>6 DEF RootInv
<1>10. JobInv'
  BY <1>1, <1>2, <1>3, <1>6, <1>7 DEF JobInv, Agree
<1>11. Relabelled
  BY <1>4, <1>6, <1>7 DEF Relabelled
<1> QED BY <1>6, <1>8, <1>9, <1>10, <1>11 DEF ServiceKeeps

LEMMA RenameKeeps ==
    ASSUME UsageInv, Rename, UNCHANGED <<wire, stage>>
    PROVE  /\ StoreTypeOK' /\ RootInv' /\ JobInv'
           /\ job.conv \in Conversations /\ job.record \in Record /\ Replaced(job.conv, job.record)
           /\ wire # <<>> /\ stage = "serving" /\ wire[1].conv = job.conv /\ wire[1].record = job.record
<1>1. job # None /\ job.step = "written" /\ job' = [job EXCEPT !.step = "renamed"]
      /\ UNCHANGED <<at, made, holder, seals, acked>>
  BY DEF Rename, Advance
<1>2. /\ StoreTypeOK /\ RootInv /\ JobInv /\ job.conv \in Conversations /\ job.record \in Record
      /\ past \in SUBSET Root /\ disk \in past /\ disk \in Root
  BY <1>1, JobFacts
<1>3. job' \in Job /\ job' # None /\ job'.conv = job.conv /\ job'.record = job.record /\ job'.step = "renamed"
  BY <1>1, JobFacts DEF Steps
<1> DEFINE L(d) == Renamed(d, job.conv, job.record)
<1>4. disk' = L(disk) /\ past' = past \cup {L(d) : d \in past}
  BY DEF Rename, Change, Renamed
<1>5. ASSUME NEW d \in Root
      PROVE  /\ L(d) \in Root /\ L(d).json = [d.json EXCEPT ![job.conv] = job.record] /\ L(d).pending = d.pending
             /\ L(d).writing = d.writing \ {job.conv}
  BY <1>2, RootRenamed
<1> HIDE DEF L
<1>6. /\ disk'.json = [disk.json EXCEPT ![job.conv] = job.record] /\ disk'.pending = disk.pending
      /\ disk'.writing = disk.writing \ {job.conv}
      /\ disk' \in past' /\ past' \in SUBSET Root /\ disk' \in Root
  BY <1>2, <1>4, <1>5
<1>7. \A e \in past' : \E d \in past : e.pending = d.pending
  <2>1. \A d \in past : L(d).pending = d.pending
    BY <1>2, <1>5
  <2> QED BY <1>4, <2>1
<1>8. Agree /\ disk.json[job.conv].epoch < job.record.epoch
  BY <1>1, <1>2 DEF JobInv
<1>9. \A e \in past' : e \in past \/ e.json = disk'.json
  BY <1>2, <1>4, <1>5, <1>6, <1>8 DEF Agree
<1>10. Replaced(job.conv, job.record)
  BY <1>4, <1>6, <1>8, <1>9 DEF Replaced
<1>11. StoreTypeOK'
  BY <1>1, <1>2, <1>3, <1>6 DEF StoreTypeOK
<1>12. RootInv'
  BY <1>1, <1>2, <1>3, <1>6 DEF RootInv
<1>13. JobInv'
  <2>1. disk'.json[job.conv] = job.record
    BY <1>2, <1>6 DEF Root
  <2> QED BY <1>1, <1>2, <1>3, <1>7, <2>1 DEF JobInv
<1> QED BY <1>1, <1>2, <1>10, <1>11, <1>12, <1>13 DEF JobInv

LEMMA UnmarkKeeps == ASSUME UsageInv, Unmark, UNCHANGED <<wire, stage>> PROVE ServiceKeeps
<1>1. job # None /\ job.step = "renamed" /\ job' = [job EXCEPT !.step = "done"]
      /\ UNCHANGED <<at, made, holder, seals, acked>>
  BY DEF Unmark, Advance
<1>2. /\ StoreTypeOK /\ RootInv /\ JobInv /\ job.conv \in Conversations
      /\ past \in SUBSET Root /\ disk \in past /\ disk \in Root
  BY <1>1, JobFacts
<1>3. job' \in Job /\ job' # None /\ job'.conv = job.conv /\ job'.record = job.record /\ job'.step = "done"
  BY <1>1, JobFacts DEF Steps
<1>4. disk' = [disk EXCEPT !.pending = @ \ {job.conv}] /\ past' = {disk'}
  BY DEF Unmark, Synced
<1>5. /\ disk' \in Root /\ disk'.json = disk.json /\ disk'.pending = disk.pending \ {job.conv}
      /\ disk'.writing = disk.writing
  <2>1. disk.pending \ {job.conv} \in SUBSET Conversations
    BY <1>2 DEF Root
  <2> QED BY <1>2, <1>4, <2>1 DEF Root
<1>6. StoreTypeOK'
  BY <1>1, <1>2, <1>3, <1>4, <1>5 DEF StoreTypeOK
<1>7. RootInv'
  BY <1>1, <1>2, <1>3, <1>5 DEF RootInv
<1>8. JobInv'
  BY <1>1, <1>2, <1>3, <1>4, <1>5 DEF JobInv, Agree
<1>9. Resynced
  BY <1>2, <1>4, <1>5 DEF Resynced
<1> QED BY <1>5, <1>6, <1>7, <1>8, <1>9 DEF ServiceKeeps

\* A frame is taken, and a service that finds something in its way ends.
LEMMA TakeKeeps ==
    ASSUME UsageInv, wire # <<>>, Take(Head(wire)), stage' = "serving", UNCHANGED wire
    PROVE  ServiceKeeps
<1>1. StoreTypeOK /\ RootInv /\ JobInv /\ job = None /\ at[Own] = "ready"
  BY DEF UsageInv, TypeOK, Take
<1>2. wire[1] \in Frame /\ Head(wire) = wire[1]
  BY DEF UsageInv, TypeOK
<1> DEFINE f == wire[1]
<1>3. f.conv \in Conversations /\ f.record \in Record
  BY <1>2 DEF Frame
<1>4. CASE ~Admits(f)
  <2>1. Fail(Own) /\ UNCHANGED <<disk, past, made, seals, acked>>
    BY <1>2, <1>4 DEF Take
  <2>2. at'[Own] = "failed" /\ (\A o \in Services \ {Own} : at'[o] = at[o]) /\ job' = None
    BY <1>1, <2>1, StoreAssumption DEF StoreTypeOK, Fail
  <2>3. StoreTypeOK'
    BY <1>1, <2>1, StoreAssumption DEF StoreTypeOK, Fail, Stages
  <2>4. RootInv'
    <3>1. holder = Own
      BY <1>1, StoreAssumption DEF RootInv
    <3>2. \A o \in Services : at'[o] \notin {"locked", "ready"}
      BY <1>1, <2>2, <3>1 DEF RootInv
    <3> QED BY <2>2, <3>2 DEF RootInv
  <2>5. JobInv'
    BY <2>2 DEF JobInv
  <2> QED BY <2>1, <2>3, <2>4, <2>5, Still DEF ServiceKeeps
<1>5. CASE Admits(f)
  <2>1. disk \in Root /\ past \in SUBSET Root /\ disk \in past
    BY <1>1 DEF StoreTypeOK
  <2>2. /\ job' = [conv |-> f.conv, record |-> f.record, step |-> "marked"]
        /\ disk' = [disk EXCEPT !.pending = @ \cup {f.conv}] /\ past' = {disk'}
        /\ UNCHANGED <<at, holder, made, seals, acked>>
    BY <1>2, <1>5 DEF Take, Synced
  <2>3. job' \in Job /\ job' # None /\ job'.conv = f.conv /\ job'.record = f.record /\ job'.step = "marked"
    BY <1>3, <2>2, StoreAssumption DEF Job, Steps
  <2>4. /\ disk' \in Root /\ disk'.json = disk.json /\ disk'.pending = disk.pending \cup {f.conv}
        /\ disk'.writing = disk.writing
    <3>1. disk.pending \cup {f.conv} \in SUBSET Conversations
      BY <1>3, <2>1 DEF Root
    <3> QED BY <2>1, <2>2, <3>1 DEF Root
  <2>5. StoreTypeOK'
    BY <1>1, <2>2, <2>3, <2>4 DEF StoreTypeOK
  <2>6. RootInv'
    BY <1>1, <2>2, <2>3, <2>4 DEF RootInv
  <2>7. JobInv'
    BY <1>1, <1>5, <2>2, <2>3, <2>4 DEF JobInv, Agree, Admits
  <2>8. Resynced
    BY <2>1, <2>2, <2>4 DEF Resynced
  <2> QED BY <2>4, <2>5, <2>6, <2>7, <2>8 DEF ServiceKeeps
<1> QED BY <1>4, <1>5

\* commit has returned: its record is in every root.
LEMMA AcknowledgeKeeps ==
    ASSUME UsageInv, Acknowledge
    PROVE  /\ StoreTypeOK' /\ RootInv' /\ JobInv' /\ UNCHANGED <<disk, past>>
           /\ wire # <<>> /\ Kept(wire[1].conv, wire[1].record.epoch)
           /\ \A c \in Conversations : Kept(c, acked'[c].epoch)
<1>1. job # None /\ job.step = "done" /\ job' = None /\ acked' = [acked EXCEPT ![job.conv] = job.record]
      /\ UNCHANGED <<disk, past, at, made, holder, seals>>
  BY DEF Acknowledge
<1>2. /\ StoreTypeOK /\ RootInv /\ JobInv /\ job.conv \in Conversations /\ job.record \in Record
      /\ past \in SUBSET Root /\ disk \in past /\ disk \in Root
  BY <1>1, JobFacts
<1>3. \A d \in past : d.json[job.conv] = job.record
  BY <1>1, <1>2 DEF JobInv, Agree
<1>4. Kept(job.conv, job.record.epoch)
  BY <1>2, <1>3 DEF Kept, Record
<1>5. StoreTypeOK'
  BY <1>1, <1>2 DEF StoreTypeOK
<1>6. RootInv' /\ JobInv'
  BY <1>1, <1>2 DEF RootInv, JobInv
<1>7. \A c \in Conversations : Kept(c, acked'[c].epoch)
  <2>1. \A c \in Conversations : Kept(c, acked[c].epoch)
    BY DEF UsageInv, KeptInv
  <2>2. acked'[job.conv] = job.record /\ \A c \in Conversations \ {job.conv} : acked'[c] = acked[c]
    BY <1>1, <1>2 DEF StoreTypeOK
  <2> QED BY <1>4, <2>1, <2>2
<1> QED BY <1>1, <1>2, <1>4, <1>5, <1>6, <1>7 DEF JobInv

\* The machine stops.
LEMMA PowerKeeps ==
    ASSUME UsageInv, PowerFails
    PROVE  StoreTypeOK' /\ RootInv' /\ JobInv' /\ Resynced /\ UNCHANGED acked
<1>1. StoreTypeOK
  BY DEF UsageInv, TypeOK
<1>2. disk' \in past /\ past' = {disk'} /\ job' = None /\ holder' = None /\ UNCHANGED <<seals, acked>>
  BY DEF PowerFails, Synced
<1>3. at' \in [Services -> {"off", "failed"}]
  BY DEF PowerFails
<1>4. StoreTypeOK'
  BY <1>1, <1>2, <1>3 DEF StoreTypeOK, PowerFails, Stages
<1>5. RootInv'
  BY <1>3, StoreAssumption DEF RootInv
<1>6. JobInv'
  BY <1>2 DEF JobInv
<1>7. Resynced
  BY <1>2 DEF Resynced
<1> QED BY <1>2, <1>4, <1>5, <1>6, <1>7

----------------------------------------------------------------------------
(* What a step of the chain is to the switch.                               *)

Lost == IF poisoned THEN Conversations ELSE uncertain
SwitchStep == [Switch!Next]_(Switch!vars)

\* Nothing but the record moves, or conversations are lost.
LEMMA RecordMaps ==
    ASSUME UsageInv, UsageInv', Recorded, UNCHANGED asked,
           Lost \subseteq Lost', Lost' \subseteq Conversations, Usable' = Usable \ Lost'
    PROVE  SwitchStep
<1> DEFINE R == [c \in Conversations |-> Durable(c)]
<1>1. CASE \A c \in Conversations : Durable(c)' = Durable(c)
  <2>1. R' = R
    BY <1>1
  <2> HIDE DEF R
  <2>2. Switch!Lose
    BY <2>1 DEF Switch!Lose, Lost, R
  <2> QED BY <2>2 DEF SwitchStep, Switch!Next
<1>2. CASE \E c \in Conversations : Written(c)
  <2>1. PICK c \in Conversations : Written(c)
    BY <1>2
  <2>2. Durable(c)'.epoch <= asked[c].epoch
    BY <2>1 DEF UsageInv, MeantInv, Meant, MeantBy, Written
  <2>3. R'[c] = Durable(c)' /\ R[c] = Durable(c)
    OBVIOUS
  <2>4. R' = [R EXCEPT ![c] = R'[c]]
    <3>1. \A x \in Conversations : R'[x] = [R EXCEPT ![c] = R'[c]][x]
      BY <2>1, <2>3 DEF Written
    <3> QED BY <3>1
  <2>5. R'[c] \in Record /\ R[c].epoch < R'[c].epoch /\ R'[c].epoch <= asked[c].epoch
    BY <2>1, <2>2, <2>3 DEF Written
  <2> HIDE DEF R
  <2>6. Switch!Write(c)
    BY <2>4, <2>5 DEF Switch!Write, Switch!Request, Record, Lost, R
  <2> QED BY <2>6 DEF SwitchStep, Switch!Next
<1> QED BY <1>1, <1>2 DEF Recorded

\* The record stays where the roots do.
LEMMA StaysRecorded == ASSUME UNCHANGED past PROVE \A c : Durable(c)' = Durable(c)
BY DEF Durable

\* A request.
LEMMA AskMaps ==
    ASSUME UsageInv, NEW c \in Conversations, UNCHANGED past, NEW r \in Record, asked[c].epoch < r.epoch,
           asked' = [asked EXCEPT ![c] = r],
           Lost \subseteq Lost', Lost' \subseteq Conversations, Usable' = Usable \ ({c} \cup Lost')
    PROVE  SwitchStep
<1> DEFINE R == [x \in Conversations |-> Durable(x)]
<1>1. R' = R
  BY StaysRecorded
<1>2. asked'[c] = r
  BY DEF UsageInv, TypeOK
<1> HIDE DEF R
<1>3. Switch!Ask(c)
  BY <1>1, <1>2 DEF Switch!Ask, Switch!Request, Record, Lost, R
<1> QED BY <1>3 DEF SwitchStep, Switch!Next

\* A conversation may be read.
LEMMA AllowMaps ==
    ASSUME NEW c \in Conversations, UNCHANGED <<past, asked>>, c \notin Lost, Lost' = Lost,
           asked[c].on, Durable(c) = asked[c], Usable' = Usable \cup {c}
    PROVE  SwitchStep
<1> DEFINE R == [x \in Conversations |-> Durable(x)]
<1>1. R' = R /\ R[c] = asked[c]
  BY StaysRecorded
<1> HIDE DEF R
<1>2. Switch!Allow(c)
  BY <1>1 DEF Switch!Allow, Lost, R
<1> QED BY <1>2 DEF SwitchStep, Switch!Next

----------------------------------------------------------------------------
(* The store's steps in the chain.                                          *)

\* What every root has it still has after a step that loses no record.
LEMMA KeptGrows ==
    ASSUME StoreTypeOK, StoreTypeOK', Grows, NEW c \in Conversations, NEW e \in Nat, Kept(c, e)
    PROVE  \A d \in past' : e <= d.json[c].epoch
<1>1. \A d \in past \cup past' : d.json[c].epoch \in Nat
  BY RootRecords DEF StoreTypeOK
<1>2. ASSUME NEW d \in past' PROVE e <= d.json[c].epoch
  <2>1. PICK o \in past : o.json[c].epoch <= d.json[c].epoch
    BY DEF Grows
  <2>2. e <= o.json[c].epoch
    BY DEF Kept
  <2> QED BY <1>1, <2>1, <2>2
<1> QED BY <1>2

\* A step of the roots with nothing else: the chain's own part of the invariant.
LEMMA ChainKept ==
    ASSUME UsageInv, StoreTypeOK', Grows, UNCHANGED <<coordinatorVars, wire, historyVars, acked>>,
           stage' \in {"back", "acked"} => stage' = stage
    PROVE  KeptInv'
<1>1. TypeOK /\ KeptInv
  BY DEF UsageInv
<1>2. \A c \in Conversations : acked[c].epoch \in Nat /\ answered[c].epoch \in Nat
  BY <1>1 DEF TypeOK, StoreTypeOK, Record
<1>3. ASSUME NEW c \in Conversations PROVE Kept(c, acked[c].epoch)' /\ Kept(c, answered[c].epoch)'
  <2>1. Kept(c, acked[c].epoch) /\ Kept(c, answered[c].epoch)
    BY <1>1 DEF KeptInv
  <2>2. StoreTypeOK
    BY <1>1 DEF TypeOK
  <2>3. /\ \A d \in past' : acked[c].epoch <= d.json[c].epoch
        /\ \A d \in past' : answered[c].epoch <= d.json[c].epoch
    BY <1>2, <2>1, <2>2, KeptGrows
  <2> QED BY <2>3 DEF Kept, historyVars
<1>4. ASSUME NEW c \in Conversations, NEW i \in DOMAIN requests[c], requests[c][i].run = "ok"
      PROVE  Kept(c, requests[c][i].record.epoch)'
  <2>1. requests[c][i] \in Pending
    BY <1>1 DEF TypeOK
  <2>2. requests[c][i].record.epoch \in Nat
    BY <2>1 DEF Pending, Record
  <2>3. Kept(c, requests[c][i].record.epoch) /\ StoreTypeOK
    BY <1>1, <1>4 DEF KeptInv, TypeOK
  <2>4. \A d \in past' : requests[c][i].record.epoch <= d.json[c].epoch
    BY <2>2, <2>3, KeptGrows
  <2> QED BY <2>4 DEF Kept, coordinatorVars
<1>5. ASSUME wire # <<>>, stage \in {"back", "acked"} PROVE Kept(wire[1].conv, wire[1].record.epoch)'
  <2>1. wire[1] \in Frame
    BY <1>1, <1>5 DEF TypeOK
  <2>2. wire[1].conv \in Conversations /\ wire[1].record.epoch \in Nat
    BY <2>1 DEF Frame, Record
  <2>3. Kept(wire[1].conv, wire[1].record.epoch) /\ StoreTypeOK
    BY <1>1, <1>5 DEF KeptInv, TypeOK
  <2>4. \A d \in past' : wire[1].record.epoch <= d.json[wire[1].conv].epoch
    BY <2>2, <2>3, KeptGrows
  <2> QED BY <2>4 DEF Kept
<1> QED BY <1>3, <1>4, <1>5 DEF KeptInv, coordinatorVars, historyVars

\* A step of a service is a step of the chain.
LEMMA ServiceStep ==
    ASSUME UsageInv, ServiceKeeps, UNCHANGED <<coordinatorVars, expired, wire, written, historyVars, acked>>,
           stage' \in {stage, "serving"}
    PROVE  UsageInv' /\ SwitchStep
<1>1. TypeOK /\ StoreTypeOK /\ JsonInv /\ MeantInv /\ WireInv /\ QueueInv
  BY DEF UsageInv, TypeOK
<1>2. StoreTypeOK' /\ RootInv' /\ JobInv' /\ disk'.json = disk.json
  BY DEF ServiceKeeps
<1>3. JsonInv' /\ Grows /\ Recorded
  BY <1>1, <1>2, ResyncedKeeps, RelabelledKeeps DEF ServiceKeeps
<1>4. TypeOK'
  BY <1>1, <1>2 DEF TypeOK, coordinatorVars, historyVars
<1>5. MeantInv'
  <2>1. \A e \in past' : \E d \in past : e.json = d.json
    BY DEF ServiceKeeps, Resynced, Relabelled
  <2> QED BY <1>1, <2>1 DEF MeantInv, Meant, MeantBy, coordinatorVars, historyVars
<1>6. WireInv' /\ QueueInv'
  BY <1>1, <1>2 DEF WireInv, QueueInv, coordinatorVars
<1>7. KeptInv'
  BY <1>2, <1>3, ChainKept
<1>8. UsageInv'
  BY <1>2, <1>3, <1>4, <1>5, <1>6, <1>7 DEF UsageInv
<1>9. Lost' = Lost /\ Lost \subseteq Conversations /\ Usable' = Usable /\ Usable \cap Lost = {} /\ asked' = asked
  BY <1>1 DEF Lost, Usable, TypeOK, coordinatorVars, historyVars
<1> QED BY <1>3, <1>8, <1>9, RecordMaps

\* A record gets its name in every root to come.
LEMMA RenameStep ==
    ASSUME UsageInv, Rename, UNCHANGED <<coordinatorVars, expired, wireVars, historyVars>>
    PROVE  UsageInv' /\ SwitchStep
<1> DEFINE c == job.conv
           r == job.record
<1>1. TypeOK /\ StoreTypeOK /\ JsonInv /\ MeantInv /\ WireInv /\ QueueInv
  BY DEF UsageInv, TypeOK
<1>2. /\ StoreTypeOK' /\ RootInv' /\ JobInv'
      /\ c \in Conversations /\ r \in Record /\ Replaced(c, r)
      /\ wire # <<>> /\ stage = "serving" /\ wire[1].conv = c /\ wire[1].record = r
  BY RenameKeeps DEF wireVars
<1>3. acked' = acked /\ wire' = wire /\ stage' = stage /\ written' = written
  BY DEF Rename, Advance, wireVars
<1> HIDE DEF c, r
<1>4. JsonInv' /\ Grows /\ \A x \in Conversations : Durable(x)' = Durable(x)
  BY <1>1, <1>2, ReplacedKeeps
<1>5. TypeOK'
  BY <1>1, <1>2, <1>3 DEF TypeOK, coordinatorVars, historyVars
<1>6. disk'.json[c] = r /\ \A x \in Conversations \ {c} : disk'.json[x] = disk.json[x]
  <2>1. disk.json \in [Conversations -> Record]
    BY <1>1, RootRecords DEF StoreTypeOK
  <2> QED BY <1>2, <2>1 DEF Replaced
<1>7. wire[1] \in Frame /\ 1 \in DOMAIN wire
  BY <1>1, <1>2 DEF TypeOK
<1>8. MeantInv'
  <2>1. \A e \in past', x \in Conversations : Meant(x, e.json[x])
    <3>1. ASSUME NEW e \in past', NEW x \in Conversations PROVE Meant(x, e.json[x])
      <4>1. CASE e \in past
        BY <1>1, <4>1 DEF MeantInv
      <4>2. CASE e.json = disk'.json
        <5>1. Meant(c, r) /\ disk \in past
          BY <1>1, <1>2, <1>7 DEF MeantInv, StoreTypeOK
        <5> QED BY <1>1, <1>6, <4>2, <5>1 DEF MeantInv
      <4> QED BY <1>2, <4>1, <4>2 DEF Replaced
    <3> QED BY <3>1
  <2> QED BY <1>1, <1>3, <2>1 DEF MeantInv, Meant, MeantBy, coordinatorVars, historyVars
<1>9. WireInv'
  <2>1. \A i \in DOMAIN wire : i > 1 => wire[i].conv # c
    BY <1>1, <1>2, <1>7 DEF WireInv
  <2>2. \A i \in DOMAIN wire : wire[i].conv \in Conversations
    <3>1. \A i \in DOMAIN wire : wire[i] \in Frame
      BY <1>1 DEF TypeOK
    <3> QED BY <3>1 DEF Frame
  <2> QED BY <1>1, <1>2, <1>3, <1>6, <2>1, <2>2 DEF WireInv, coordinatorVars
<1>10. QueueInv'
  <2>1. ASSUME ~poisoned, NEW x \in Conversations, NEW i \in DOMAIN requests[x], requests[x][i].run = "waiting"
        PROVE  disk'.json[x].epoch < requests[x][i].record.epoch
    <3>1. CASE x # c
      BY <1>1, <1>6, <2>1, <3>1 DEF QueueInv
    <3>2. CASE x = c
      <4>1. requests[c] # <<>> /\ requests[c][1].run = "storing" /\ requests[c][1].record = r
        BY <1>1, <1>2, <1>7, <2>1 DEF WireInv
      <4>2. requests[c] \in Seq(Pending)
        BY <1>1, <1>2 DEF TypeOK
      <4>3. 1 \in DOMAIN requests[c] /\ i # 1 /\ i \in Nat /\ i > 1
        BY <2>1, <3>2, <4>1, <4>2
      <4>4. r.epoch < requests[c][i].record.epoch
        BY <1>1, <1>2, <2>1, <3>2, <4>1, <4>3 DEF QueueInv
      <4> QED BY <1>6, <3>2, <4>4
    <3> QED BY <3>1, <3>2
  <2> QED BY <1>1, <2>1 DEF QueueInv, coordinatorVars
<1>11. KeptInv'
  BY <1>2, <1>3, <1>4, ChainKept
<1>12. UsageInv'
  BY <1>2, <1>4, <1>5, <1>8, <1>9, <1>10, <1>11 DEF UsageInv
<1>13. Lost' = Lost /\ Lost \subseteq Conversations /\ Usable' = Usable /\ Usable \cap Lost = {} /\ asked' = asked
  BY <1>1 DEF Lost, Usable, TypeOK, coordinatorVars, historyVars
<1> QED BY <1>4, <1>12, <1>13, RecordMaps DEF Recorded

LEMMA StoreRunsStep == ASSUME UsageInv, StoreRuns \/ StoreFails PROVE UsageInv' /\ SwitchStep
<1>1. UNCHANGED <<coordinatorVars, expired, wire, stage, written, historyVars>>
  BY DEF StoreRuns, StoreFails, wireVars
<1>2. CASE Rename /\ StoreRuns
  BY <1>2, RenameStep DEF StoreRuns
<1>3. CASE ServiceKeeps /\ UNCHANGED acked
  BY <1>1, <1>3, ServiceStep
<1>4. ASSUME NEW s \in Services, Scan(s) \/ OpenLock(s) \/ Lock(s) \/ Seal(s) PROVE ServiceKeeps /\ UNCHANGED acked
  <2>1. UNCHANGED acked
    BY <1>4 DEF Scan, OpenLock, Lock, Seal
  <2> QED BY <1>1, <1>4, <2>1, ScanKeeps, OpenLockKeeps, LockKeeps, SealKeeps
<1>5. ASSUME WriteRecord \/ Unmark PROVE ServiceKeeps /\ UNCHANGED acked
  BY <1>1, <1>5, WriteRecordKeeps, UnmarkKeeps DEF WriteRecord, Unmark, Advance
<1>6. ASSUME NEW s \in Services, ServiceFails(s) PROVE ServiceKeeps /\ UNCHANGED acked
  BY <1>1, <1>6, FailKeeps DEF ServiceFails
<1> QED BY <1>2, <1>3, <1>4, <1>5, <1>6 DEF StoreRuns, StoreStep, StoreFails

LEMMA ServiceTakesStep == ASSUME UsageInv, ServiceTakes PROVE UsageInv' /\ SwitchStep
<1>1. wire # <<>> /\ Take(Head(wire)) /\ stage' = "serving"
      /\ UNCHANGED <<coordinatorVars, expired, wire, written, historyVars>>
  BY DEF ServiceTakes
<1>2. ServiceKeeps
  BY <1>1, TakeKeeps
<1>3. UNCHANGED acked
  BY <1>1 DEF Take
<1> QED BY <1>1, <1>2, <1>3, ServiceStep

LEMMA ServiceAnswersStep == ASSUME UsageInv, ServiceAnswers PROVE UsageInv' /\ SwitchStep
<1>1. Acknowledge /\ stage' = "back" /\ UNCHANGED <<coordinatorVars, expired, wire, written, historyVars>>
  BY DEF ServiceAnswers
<1>2. /\ StoreTypeOK' /\ RootInv' /\ JobInv' /\ UNCHANGED <<disk, past>>
      /\ wire # <<>> /\ Kept(wire[1].conv, wire[1].record.epoch)
      /\ \A c \in Conversations : Kept(c, acked'[c].epoch)
  BY <1>1, AcknowledgeKeeps
<1>3. TypeOK /\ JsonInv /\ MeantInv /\ WireInv /\ QueueInv /\ KeptInv
  BY DEF UsageInv
<1>4. TypeOK'
  BY <1>1, <1>2, <1>3 DEF TypeOK, coordinatorVars, historyVars
<1>5. JsonInv' /\ MeantInv' /\ WireInv' /\ QueueInv'
  BY <1>1, <1>2, <1>3 DEF JsonInv, MeantInv, Meant, MeantBy, WireInv, QueueInv, coordinatorVars, historyVars
<1>6. KeptInv'
  BY <1>1, <1>2, <1>3 DEF KeptInv, Kept, coordinatorVars, historyVars
<1>7. UsageInv'
  BY <1>2, <1>4, <1>5, <1>6 DEF UsageInv
<1>8. Lost' = Lost /\ Lost \subseteq Conversations /\ Usable' = Usable /\ Usable \cap Lost = {} /\ asked' = asked
  BY <1>1, <1>3 DEF Lost, Usable, TypeOK, coordinatorVars, historyVars
<1>9. Recorded
  BY <1>2, StaysRecorded DEF Recorded
<1> QED BY <1>7, <1>8, <1>9, RecordMaps

LEMMA PowerLossStep == ASSUME UsageInv, PowerLoss PROVE UsageInv' /\ SwitchStep
<1>1. /\ PowerFails /\ UNCHANGED historyVars
      /\ enabled' = {} /\ uncertain' = Conversations /\ poisoned' = TRUE
      /\ requests' = [c \in Conversations |-> <<>>]
      /\ wire' = <<>> /\ stage' = "out" /\ written' = FALSE
      /\ counter' = 0 /\ epoch' = [c \in Conversations |-> 0] /\ expired' = 0
  BY DEF PowerLoss
<1>2. StoreTypeOK' /\ RootInv' /\ JobInv' /\ Resynced /\ UNCHANGED acked
  BY <1>1, PowerKeeps
<1>3. TypeOK /\ StoreTypeOK /\ JsonInv /\ MeantInv /\ KeptInv
  BY DEF UsageInv, TypeOK
<1>4. JsonInv' /\ Grows /\ Recorded
  BY <1>2, <1>3, ResyncedKeeps
<1>5. TypeOK'
  <2>1. requests' \in [Conversations -> Seq(Pending)] /\ wire' \in Seq(Frame)
    BY <1>1
  <2>2. 0 \in 0..MaxEpoch
    BY UsageAssumption
  <2> QED BY <1>1, <1>2, <1>3, <2>1, <2>2 DEF TypeOK, historyVars
<1>6. MeantInv'
  <2>1. \A e \in past' : \E d \in past : e.json = d.json
    BY <1>2 DEF Resynced
  <2> QED BY <1>1, <1>3, <2>1 DEF MeantInv, Meant, MeantBy, historyVars
<1>7. WireInv' /\ QueueInv'
  BY <1>1 DEF WireInv, QueueInv
<1>8. KeptInv'
  <2>1. ASSUME NEW c \in Conversations PROVE Kept(c, acked[c].epoch)' /\ Kept(c, answered[c].epoch)'
    <3>1. Kept(c, acked[c].epoch) /\ Kept(c, answered[c].epoch)
      BY <1>3 DEF KeptInv
    <3>2. acked[c].epoch \in Nat /\ answered[c].epoch \in Nat
      BY <1>3 DEF TypeOK, StoreTypeOK, Record
    <3>3. /\ \A d \in past' : acked[c].epoch <= d.json[c].epoch
          /\ \A d \in past' : answered[c].epoch <= d.json[c].epoch
      BY <1>2, <1>3, <1>4, <3>1, <3>2, KeptGrows
    <3> QED BY <1>1, <1>2, <3>3 DEF Kept, historyVars
  <2> QED BY <1>1, <2>1 DEF KeptInv
<1>9. UsageInv'
  BY <1>2, <1>4, <1>5, <1>6, <1>7, <1>8 DEF UsageInv
<1>10. Lost' = Conversations /\ Lost \subseteq Conversations /\ Usable' = {} /\ Usable \subseteq Conversations /\ asked' = asked
  BY <1>1, <1>3 DEF Lost, Usable, TypeOK, historyVars
<1> QED BY <1>4, <1>9, <1>10, RecordMaps

----------------------------------------------------------------------------
(* The requests of one conversation.                                        *)

Timed(q, i) == [q EXCEPT ![i].timedOut = TRUE]
Ran(q, u)   == [q EXCEPT ![1].run = u]
Runs == {"waiting", "storing", "ok", "failed"}

\* A timer and a run change nothing else of a request.
LEMMA TimedKeeps ==
    ASSUME NEW q \in Seq(Pending), NEW i \in DOMAIN q
    PROVE  /\ Timed(q, i) \in Seq(Pending) /\ DOMAIN Timed(q, i) = DOMAIN q
           /\ \A j \in DOMAIN q : Timed(q, i)[j].record = q[j].record /\ Timed(q, i)[j].run = q[j].run
<1>1. \A j \in DOMAIN q : q[j] \in Pending
  OBVIOUS
<1> DEFINE p == [q[i] EXCEPT !.timedOut = TRUE]
<1>2. p \in Pending /\ p.record = q[i].record /\ p.run = q[i].run
  BY <1>1 DEF Pending
<1> HIDE DEF p
<1>3. Timed(q, i) = [q EXCEPT ![i] = p]
  BY DEF Timed, p
<1>4. Timed(q, i) \in Seq(Pending) /\ DOMAIN Timed(q, i) = DOMAIN q
      /\ \A j \in DOMAIN q : Timed(q, i)[j] = IF j = i THEN p ELSE q[j]
  BY <1>2, <1>3
<1> QED BY <1>2, <1>4

LEMMA RanKeeps ==
    ASSUME NEW q \in Seq(Pending), q # <<>>, NEW u \in Runs
    PROVE  /\ Ran(q, u) \in Seq(Pending) /\ DOMAIN Ran(q, u) = DOMAIN q /\ 1 \in DOMAIN q
           /\ \A j \in DOMAIN q : /\ Ran(q, u)[j].record = q[j].record
                                  /\ Ran(q, u)[j].run = IF j = 1 THEN u ELSE q[j].run
<1>1. (\A j \in DOMAIN q : q[j] \in Pending) /\ 1 \in DOMAIN q
  OBVIOUS
<1> DEFINE p == [q[1] EXCEPT !.run = u]
<1>2. p \in Pending /\ p.record = q[1].record /\ p.run = u
  BY <1>1 DEF Pending, Runs
<1> HIDE DEF p
<1>3. Ran(q, u) = [q EXCEPT ![1] = p]
  BY DEF Ran, p
<1>4. Ran(q, u) \in Seq(Pending) /\ DOMAIN Ran(q, u) = DOMAIN q
      /\ \A j \in DOMAIN q : Ran(q, u)[j] = IF j = 1 THEN p ELSE q[j]
  BY <1>1, <1>2, <1>3
<1> QED BY <1>1, <1>2, <1>4

\* What the transport held is rejected.
LEMMA RejectedKeeps ==
    ASSUME NEW q \in Seq(Pending)
    PROVE  /\ Rejected(q) \in Seq(Pending) /\ DOMAIN Rejected(q) = DOMAIN q
           /\ \A j \in DOMAIN q : /\ Rejected(q)[j].record = q[j].record
                                  /\ Rejected(q)[j].run = IF q[j].run = "storing" THEN "failed" ELSE q[j].run
<1>1. DOMAIN q = 1..Len(q) /\ Len(q) \in Nat /\ \A j \in DOMAIN q : q[j] \in Pending
  OBVIOUS
<1>2. DOMAIN Rejected(q) = DOMAIN q
  BY DEF Rejected
<1>3. ASSUME NEW j \in DOMAIN q
      PROVE  /\ Rejected(q)[j] \in Pending /\ Rejected(q)[j].record = q[j].record
             /\ Rejected(q)[j].run = IF q[j].run = "storing" THEN "failed" ELSE q[j].run
  <2>1. q[j] \in Pending
    BY <1>1
  <2>2. Rejected(q)[j] = IF q[j].run = "storing" THEN [q[j] EXCEPT !.run = "failed"] ELSE q[j]
    BY DEF Rejected
  <2> QED BY <2>1, <2>2 DEF Pending
<1>4. Rejected(q) \in Seq(Pending)
  <2>1. Rejected(q) \in [1..Len(q) -> Pending]
    BY <1>1, <1>2, <1>3 DEF Rejected
  <2> QED BY <1>1, <2>1
<1> QED BY <1>2, <1>3, <1>4

\* A request at the end.
LEMMA AppendKeeps ==
    ASSUME NEW q \in Seq(Pending), NEW r \in Pending
    PROVE  /\ Append(q, r) \in Seq(Pending) /\ Len(q) \in Nat
           /\ DOMAIN Append(q, r) = DOMAIN q \cup {Len(q) + 1} /\ \A j \in DOMAIN q : j < Len(q) + 1 /\ j \in Nat
           /\ \A j \in DOMAIN q : Append(q, r)[j] = q[j]
           /\ Append(q, r)[Len(q) + 1] = r
OBVIOUS

\* The oldest request goes.
LEMMA TailKeeps ==
    ASSUME NEW q \in Seq(Pending), q # <<>>
    PROVE  /\ Tail(q) \in Seq(Pending) /\ DOMAIN q \subseteq Nat
           /\ \A j \in DOMAIN Tail(q) : j \in Nat /\ j >= 1 /\ j + 1 \in DOMAIN q /\ Tail(q)[j] = q[j + 1]
OBVIOUS

----------------------------------------------------------------------------
(* A step of the oldest request of a conversation, or of a timer.             *)

\* The new queue: the same records, and at most the oldest request goes on.
Onward(c, q) ==
    /\ requests' = [requests EXCEPT ![c] = q]
    /\ q \in Seq(Pending) /\ DOMAIN q = DOMAIN requests[c]
    /\ \A j \in DOMAIN q : q[j].record = requests[c][j].record /\ (j > 1 => q[j].run = requests[c][j].run)
    /\ q # <<>> => /\ q[1].run = "ok" => Kept(c, q[1].record.epoch)
                   /\ q[1].run = "waiting" => requests[c][1].run = "waiting"

LEMMA OnwardKeeps ==
    ASSUME UsageInv, NEW c \in Conversations, NEW q, Onward(c, q), UNCHANGED <<storeVars, poisoned, asked>>
    PROVE  /\ requests' \in [Conversations -> Seq(Pending)] /\ QueueInv'
           /\ \A x \in Conversations : \A i \in DOMAIN requests'[x] :
                 /\ Meant(x, requests'[x][i].record)
                 /\ requests'[x][i].run = "ok" => Kept(x, requests'[x][i].record.epoch)
<1>1. TypeOK /\ MeantInv /\ QueueInv /\ KeptInv
  BY DEF UsageInv
<1>2. /\ requests' \in [Conversations -> Seq(Pending)]
      /\ requests'[c] = q /\ \A x \in Conversations \ {c} : requests'[x] = requests[x]
  BY <1>1 DEF TypeOK, Onward
<1>3. DOMAIN q \subseteq Nat \ {0} /\ (DOMAIN q # {} => q # <<>> /\ 1 \in DOMAIN q) /\ DOMAIN q = DOMAIN requests[c]
  BY DEF Onward
<1>4. ASSUME NEW i \in DOMAIN q
      PROVE  /\ q[i].record = requests[c][i].record
             /\ q[i].run = "ok" => Kept(c, q[i].record.epoch)
             /\ q[i].run = "waiting" => requests[c][i].run = "waiting"
             /\ i > 1 => q[i].run = requests[c][i].run
  <2>1. CASE i = 1
    BY <1>3, <2>1 DEF Onward
  <2>2. CASE i > 1
    BY <1>1, <1>3, <2>2 DEF Onward, KeptInv
  <2> QED BY <1>3, <2>1, <2>2
<1>5. QueueInv'
  <2>1. ASSUME NEW i \in DOMAIN q, NEW j \in DOMAIN q, i < j
        PROVE  q[i].record.epoch < q[j].record.epoch /\ q[j].run = "waiting"
    <3>1. j > 1
      BY <1>3, <2>1
    <3> QED BY <1>1, <1>3, <1>4, <2>1, <3>1 DEF QueueInv
  <2>2. ~poisoned => \A i \in DOMAIN q : q[i].run = "waiting" => disk.json[c].epoch < q[i].record.epoch
    BY <1>1, <1>3, <1>4 DEF QueueInv
  <2> QED BY <1>1, <1>2, <2>1, <2>2 DEF QueueInv, storeVars
<1>6. \A i \in DOMAIN q : Meant(c, q[i].record)
  BY <1>1, <1>3, <1>4 DEF MeantInv
<1> QED BY <1>1, <1>2, <1>4, <1>5, <1>6 DEF MeantInv, KeptInv

\* The roots, the services and the commit do not move.
LEMMA StoreStill ==
    ASSUME UsageInv, UNCHANGED storeVars
    PROVE  /\ StoreTypeOK' /\ JsonInv' /\ RootInv' /\ Recorded
           /\ wire' # <<>> /\ wire'[1] = wire[1] /\ stage' = stage => JobInv'
           /\ job = None => JobInv'
           /\ \A c \in Conversations : Kept(c, acked'[c].epoch)
           /\ \A c, e : Kept(c, e)' <=> Kept(c, e)
<1>1. TypeOK /\ StoreTypeOK /\ JsonInv /\ RootInv /\ JobInv /\ KeptInv
  BY DEF UsageInv, TypeOK
<1>2. StoreTypeOK' /\ JsonInv' /\ RootInv'
  BY <1>1 DEF StoreTypeOK, JsonInv, RootInv, storeVars
<1>3. Recorded
  BY StaysRecorded DEF Recorded, storeVars
<1>4. wire' # <<>> /\ wire'[1] = wire[1] /\ stage' = stage => JobInv'
  BY <1>1 DEF JobInv, Agree, storeVars
<1>5. job = None => JobInv'
  BY DEF JobInv, storeVars
<1>6. \A c \in Conversations : Kept(c, acked'[c].epoch)
  BY <1>1 DEF KeptInv, storeVars
<1> QED BY <1>2, <1>3, <1>4, <1>5, <1>6 DEF Kept, storeVars

----------------------------------------------------------------------------
(* The steps of timers, continuations and the transport.                    *)

\* A conversation is lost, or nothing happens to the switch.
LEMMA LoseMaps ==
    ASSUME UsageInv, UsageInv', UNCHANGED <<storeVars, asked, poisoned>>, NEW c \in Conversations,
           \/ enabled' = enabled /\ uncertain' = uncertain
           \/ enabled' = enabled \ {c} /\ uncertain' = uncertain \cup {c}
    PROVE  SwitchStep
<1>1. Recorded
  BY StoreStill
<1>2. TypeOK
  BY DEF UsageInv
<1>3. Lost \subseteq Lost' /\ Lost' \subseteq Conversations /\ Usable' = Usable \ Lost' /\ asked' = asked
  BY <1>2 DEF Lost, Usable, TypeOK
<1> QED BY <1>1, <1>3, RecordMaps

LEMMA DeadlineStep == ASSUME UsageInv, DeadlinePasses PROVE UsageInv' /\ SwitchStep
<1>1. TypeOK /\ MeantInv /\ WireInv /\ QueueInv /\ KeptInv
  BY DEF UsageInv
<1>2. PICK c \in Conversations : \E i \in DOMAIN requests[c] : expired' = requests[c][i].record.epoch
  BY DEF DeadlinePasses
<1>3. UNCHANGED <<storeVars, coordinatorVars, wire, stage, written, asked, answered>>
  BY DEF DeadlinePasses, wireVars, historyVars
<1>4. expired' \in 0..MaxEpoch
  <2>0. PICK i \in DOMAIN requests[c] : expired' = requests[c][i].record.epoch
    BY <1>2
  <2>1. requests[c][i] \in Pending
    BY <1>1 DEF TypeOK
  <2>2. expired' \in Nat /\ expired' <= asked[c].epoch /\ asked[c].epoch <= MaxEpoch
    BY <1>1, <2>0, <2>1 DEF Pending, Record, MeantInv, Meant, MeantBy
  <2>3. asked[c].epoch \in Nat
    BY <1>1 DEF TypeOK, Record
  <2> QED BY <2>2, <2>3, UsageAssumption
<1>5. TypeOK'
  BY <1>1, <1>3, <1>4, StoreStill DEF TypeOK, coordinatorVars
<1>6. MeantInv' /\ WireInv' /\ QueueInv' /\ KeptInv'
  BY <1>1, <1>3 DEF MeantInv, Meant, MeantBy, WireInv, QueueInv, KeptInv, Kept, coordinatorVars, storeVars
<1>7. JobInv'
  BY <1>3 DEF UsageInv, JobInv, Agree, storeVars
<1>8. UsageInv'
  BY <1>3, <1>5, <1>6, <1>7, StoreStill DEF UsageInv
<1> QED BY <1>3, <1>8, LoseMaps DEF coordinatorVars

LEMMA TimerStep == ASSUME UsageInv, NEW c \in Conversations, TimerFires(c) PROVE UsageInv' /\ SwitchStep
<1>1. TypeOK /\ MeantInv /\ WireInv /\ QueueInv /\ KeptInv
  BY DEF UsageInv
<1>2. PICK i \in DOMAIN requests[c] : requests' = [requests EXCEPT ![c] = Timed(requests[c], i)]
  BY DEF TimerFires, Timed
<1> DEFINE q == Timed(requests[c], i)
<1>3. /\ enabled' = enabled \ {c} /\ uncertain' = uncertain \cup {c}
      /\ UNCHANGED <<storeVars, counter, epoch, poisoned, expired, wire, stage, written, asked, answered>>
  BY DEF TimerFires, wireVars, historyVars
<1>4. requests[c] \in Seq(Pending)
  BY <1>1 DEF TypeOK
<1>5. /\ q \in Seq(Pending) /\ DOMAIN q = DOMAIN requests[c]
      /\ \A j \in DOMAIN q : q[j].record = requests[c][j].record /\ q[j].run = requests[c][j].run
  BY <1>4, TimedKeeps
<1> HIDE DEF q
<1>6. Onward(c, q)
  <2>1. q # <<>> => 1 \in DOMAIN q
    BY <1>5
  <2> QED BY <1>1, <1>2, <1>5, <2>1 DEF Onward, KeptInv, q
<1>7. /\ requests' \in [Conversations -> Seq(Pending)] /\ QueueInv'
      /\ \A x \in Conversations : \A j \in DOMAIN requests'[x] :
            /\ Meant(x, requests'[x][j].record)
            /\ requests'[x][j].run = "ok" => Kept(x, requests'[x][j].record.epoch)
  BY <1>3, <1>6, OnwardKeeps
<1>8. TypeOK'
  BY <1>1, <1>3, <1>7, StoreStill DEF TypeOK
<1>9. MeantInv'
  BY <1>1, <1>3, <1>7 DEF MeantInv, Meant, MeantBy, storeVars
<1>10. WireInv'
  <2>1. \A x \in Conversations : requests'[x] = IF x = c THEN q ELSE requests[x]
    BY <1>1, <1>6 DEF TypeOK, Onward
  <2>2. \A j \in DOMAIN wire : wire[j].conv \in Conversations
    <3>1. \A j \in DOMAIN wire : wire[j] \in Frame
      BY <1>1 DEF TypeOK
    <3> QED BY <3>1 DEF Frame
  <2>3. requests[c] # <<>> => q # <<>> /\ 1 \in DOMAIN q
    BY <1>4, <1>5
  <2> QED BY <1>1, <1>3, <1>5, <2>1, <2>2, <2>3 DEF WireInv, storeVars
<1>11. KeptInv'
  BY <1>1, <1>3, <1>7 DEF KeptInv, Kept, storeVars
<1>12. JobInv'
  BY <1>3 DEF UsageInv, JobInv, Agree, storeVars
<1>13. UsageInv'
  BY <1>3, <1>7, <1>8, <1>9, <1>10, <1>11, <1>12, StoreStill DEF UsageInv
<1> QED BY <1>3, <1>13, LoseMaps

LEMMA StartStep == ASSUME UsageInv, NEW c \in Conversations, Start(c) PROVE UsageInv' /\ SwitchStep
<1>1. TypeOK /\ MeantInv /\ WireInv /\ QueueInv /\ KeptInv /\ JobInv
  BY DEF UsageInv
<1>2. requests[c] \in Seq(Pending) /\ requests[c] # <<>> /\ Head(requests[c]) = requests[c][1]
      /\ requests[c][1].run = "waiting" /\ requests[c][1] \in Pending /\ 1 \in DOMAIN requests[c]
  BY <1>1 DEF TypeOK, Start
<1> DEFINE r == requests[c][1]
           run == IF Late(r) \/ c \in uncertain \/ poisoned \/ ~(Len(wire) < Capacity) THEN "failed" ELSE "storing"
           q == Ran(requests[c], run)
           f == [conv |-> c, record |-> r.record]
<1>3. /\ requests' = [requests EXCEPT ![c] = q]
      /\ enabled' = IF run = "failed" THEN enabled \ {c} ELSE enabled
      /\ uncertain' = IF run = "failed" THEN uncertain \cup {c} ELSE uncertain
      /\ run = "failed" => UNCHANGED <<wire, stage, written>>
      /\ run # "failed" => /\ wire' = Append(wire, f)
                           /\ wire = <<>> => stage' = "out" /\ written' = FALSE
                           /\ wire # <<>> => UNCHANGED <<stage, written>>
      /\ UNCHANGED <<storeVars, counter, epoch, poisoned, expired, asked, answered>>
  BY <1>2 DEF Start, Ran, wireVars, historyVars
<1>4. run \in Runs /\ (run # "failed" => run = "storing" /\ ~poisoned)
  BY DEF Runs
<1>5. f \in Frame /\ f.conv = c /\ f.record = r.record
  BY <1>2 DEF Frame, Pending
<1> HIDE DEF run, f
<1>6. /\ q \in Seq(Pending) /\ DOMAIN q = DOMAIN requests[c]
      /\ \A j \in DOMAIN q : q[j].record = requests[c][j].record /\ q[j].run = IF j = 1 THEN run ELSE requests[c][j].run
  BY <1>2, <1>4, RanKeeps
<1> HIDE DEF q
<1>7. Onward(c, q)
  BY <1>2, <1>3, <1>4, <1>6 DEF Onward, Runs
<1>8. /\ requests' \in [Conversations -> Seq(Pending)] /\ QueueInv'
      /\ \A x \in Conversations : \A j \in DOMAIN requests'[x] :
            /\ Meant(x, requests'[x][j].record)
            /\ requests'[x][j].run = "ok" => Kept(x, requests'[x][j].record.epoch)
  BY <1>3, <1>7, OnwardKeeps
<1>9. \A x \in Conversations : requests'[x] = IF x = c THEN q ELSE requests[x]
  BY <1>1, <1>3 DEF TypeOK
<1>10. \A j \in DOMAIN wire : wire[j].conv \in Conversations
  <2>1. \A j \in DOMAIN wire : wire[j] \in Frame
    BY <1>1 DEF TypeOK
  <2> QED BY <2>1 DEF Frame
<1>11. ~poisoned => \A j \in DOMAIN wire : wire[j].conv # c
  BY <1>1, <1>2 DEF WireInv
<1>12. Meant(c, r.record) /\ (~poisoned => disk.json[c].epoch < r.record.epoch)
  BY <1>1, <1>2 DEF MeantInv, QueueInv
<1> HIDE DEF r
<1>13. CASE run = "failed"
  <2>1. wire' = wire /\ stage' = stage /\ written' = written
    BY <1>3, <1>13
  <2>2. WireInv'
    BY <1>1, <1>3, <1>9, <1>10, <1>11, <2>1 DEF WireInv, storeVars
  <2>3. TypeOK' /\ MeantInv' /\ KeptInv'
    BY <1>1, <1>3, <1>8, <1>13, <2>1, StoreStill DEF TypeOK, MeantInv, Meant, MeantBy, KeptInv, Kept, storeVars
  <2>4. JobInv'
    BY <1>1, <1>3, <2>1 DEF JobInv, Agree, storeVars
  <2> QED BY <1>3, <1>8, <1>13, <2>2, <2>3, <2>4, StoreStill, LoseMaps DEF UsageInv
<1>14. CASE run # "failed"
  <2>1. /\ wire' = Append(wire, f) /\ wire \in Seq(Frame)
        /\ wire = <<>> => stage' = "out" /\ written' = FALSE
        /\ wire # <<>> => UNCHANGED <<stage, written>>
        /\ ~poisoned /\ enabled' = enabled /\ uncertain' = uncertain
    BY <1>1, <1>3, <1>4, <1>14 DEF TypeOK
  <2>2. /\ wire' \in Seq(Frame) /\ Len(wire) \in Nat /\ DOMAIN wire' = DOMAIN wire \cup {Len(wire) + 1}
        /\ (\A j \in DOMAIN wire : wire'[j] = wire[j] /\ j # Len(wire) + 1) /\ wire'[Len(wire) + 1] = f
        /\ wire' # <<>> /\ (wire # <<>> => wire'[1] = wire[1])
    BY <1>5, <2>1
  <2>3. WireInv'
    <3>1. \A i, j \in DOMAIN wire' : i # j => wire'[i].conv # wire'[j].conv
      BY <1>1, <1>5, <1>11, <2>1, <2>2 DEF WireInv
    <3>2. \A i \in DOMAIN wire' : i > 1 \/ stage' = "out" => disk.json[wire'[i].conv].epoch < wire'[i].record.epoch
      <4>1. \A i \in DOMAIN wire : wire # <<>>
        BY <2>1
      <4> QED BY <1>1, <1>5, <1>12, <2>1, <2>2, <4>1 DEF WireInv
    <3>3. ASSUME NEW i \in DOMAIN wire'
          PROVE  LET p == requests'[wire'[i].conv] IN
                 p # <<>> /\ p[1].run = "storing" /\ p[1].record = wire'[i].record
      <4>1. CASE i \in DOMAIN wire
        BY <1>1, <1>9, <1>10, <1>11, <2>1, <2>2, <4>1 DEF WireInv
      <4>2. CASE i = Len(wire) + 1
        <5>1. wire'[i].conv = c /\ wire'[i].record = requests[c][1].record
          BY <1>5, <2>2, <4>2 DEF r
        <5>2. q # <<>> /\ q[1].run = "storing" /\ q[1].record = requests[c][1].record
          BY <1>2, <1>4, <1>6, <1>14
        <5> QED BY <1>9, <5>1, <5>2
      <4> QED BY <2>2, <4>1, <4>2
    <3> QED BY <1>3, <3>1, <3>2, <3>3 DEF WireInv, storeVars
  <2>4. TypeOK'
    BY <1>1, <1>3, <1>8, <2>1, <2>2, StoreStill DEF TypeOK
  <2>5. MeantInv'
    <3>1. \A i \in DOMAIN wire' : Meant(wire'[i].conv, wire'[i].record)
      BY <1>1, <1>5, <1>12, <2>2 DEF MeantInv
    <3> QED BY <1>1, <1>3, <1>8, <3>1 DEF MeantInv, Meant, MeantBy, storeVars
  <2>6. KeptInv'
    BY <1>1, <1>3, <1>8, <2>1, <2>2 DEF KeptInv, Kept, storeVars
  <2>7. JobInv'
    BY <1>1, <1>3, <2>1, <2>2 DEF JobInv, Agree, storeVars
  <2> QED BY <1>3, <1>8, <2>1, <2>3, <2>4, <2>5, <2>6, <2>7, StoreStill, LoseMaps DEF UsageInv
<1> QED BY <1>13, <1>14

\* The acknowledgement of a frame that the service has recorded.
LEMMA FinishStep ==
    ASSUME UsageInv, Finish, wire # <<>>, stage \in {"back", "acked"}, ~poisoned,
           UNCHANGED <<storeVars, expired, historyVars>>
    PROVE  UsageInv' /\ SwitchStep
<1>1. TypeOK /\ MeantInv /\ WireInv /\ QueueInv /\ KeptInv /\ JobInv
  BY DEF UsageInv
<1> DEFINE c == wire[1].conv
<1>2. wire \in Seq(Frame) /\ wire[1] \in Frame /\ 1 \in DOMAIN wire /\ Head(wire) = wire[1]
  BY <1>1 DEF TypeOK
<1>3. c \in Conversations /\ wire[1].record \in Record
  BY <1>2 DEF Frame
<1>4. requests[c] # <<>> /\ requests[c][1].run = "storing" /\ requests[c][1].record = wire[1].record
      /\ requests[c] \in Seq(Pending) /\ Head(requests[c]) = requests[c][1] /\ 1 \in DOMAIN requests[c]
  BY <1>1, <1>2, <1>3 DEF WireInv, TypeOK
<1> DEFINE r == requests[c][1]
           late == Late(r)
           run == IF late \/ c \in uncertain \/ (r.record.on /\ epoch[c] # r.record.epoch) THEN "failed" ELSE "ok"
           q == Ran(requests[c], run)
<1>5. /\ requests' = [requests EXCEPT ![c] = q]
      /\ enabled' = IF late THEN enabled \ {c} ELSE enabled
      /\ uncertain' = IF late THEN uncertain \cup {c} ELSE uncertain
      /\ wire' = Tail(wire) /\ stage' = "out" /\ written' = FALSE
      /\ UNCHANGED <<counter, epoch, poisoned, asked, answered>>
  BY <1>2, <1>4 DEF Finish, Ran, historyVars
<1>6. run \in Runs /\ run \in {"ok", "failed"}
  BY DEF Runs
<1> HIDE DEF run, late
<1>7. /\ q \in Seq(Pending) /\ DOMAIN q = DOMAIN requests[c]
      /\ \A j \in DOMAIN q : q[j].record = requests[c][j].record /\ q[j].run = IF j = 1 THEN run ELSE requests[c][j].run
  BY <1>4, <1>6, RanKeeps
<1> HIDE DEF q, r
<1>8. Kept(c, wire[1].record.epoch)
  BY <1>1 DEF KeptInv
<1>9. Onward(c, q)
  BY <1>4, <1>5, <1>6, <1>7, <1>8 DEF Onward, Runs
<1>10. /\ requests' \in [Conversations -> Seq(Pending)] /\ QueueInv'
       /\ \A x \in Conversations : \A j \in DOMAIN requests'[x] :
             /\ Meant(x, requests'[x][j].record)
             /\ requests'[x][j].run = "ok" => Kept(x, requests'[x][j].record.epoch)
  BY <1>3, <1>5, <1>9, OnwardKeeps
<1>11. /\ wire' \in Seq(Frame) /\ DOMAIN wire \subseteq Nat
       /\ \A j \in DOMAIN wire' : j \in Nat /\ j >= 1 /\ j + 1 \in DOMAIN wire /\ wire'[j] = wire[j + 1]
  BY <1>2, <1>5
<1>12. \A x \in Conversations : requests'[x] = IF x = c THEN q ELSE requests[x]
  BY <1>1, <1>5 DEF TypeOK
<1>13. WireInv'
  <2>1. \A i, j \in DOMAIN wire' : i # j => wire'[i].conv # wire'[j].conv
    BY <1>1, <1>11 DEF WireInv
  <2>2. \A i \in DOMAIN wire' : disk.json[wire'[i].conv].epoch < wire'[i].record.epoch
    BY <1>1, <1>11, SMTT(30) DEF WireInv
  <2>3. ASSUME NEW i \in DOMAIN wire'
        PROVE  LET p == requests'[wire'[i].conv] IN
               p # <<>> /\ p[1].run = "storing" /\ p[1].record = wire'[i].record
    <3>1. wire[i + 1].conv # c /\ wire[i + 1] \in Frame /\ wire'[i] = wire[i + 1]
      BY <1>1, <1>2, <1>11, <2>3 DEF WireInv
    <3>2. requests'[wire[i + 1].conv] = requests[wire[i + 1].conv]
      BY <1>12, <3>1 DEF Frame
    <3> QED BY <1>1, <1>11, <2>3, <3>1, <3>2 DEF WireInv
  <2> QED BY <2>1, <2>2, <2>3 DEF WireInv, storeVars
<1>14. TypeOK'
  BY <1>1, <1>3, <1>5, <1>10, <1>11, StoreStill, ZenonT(30) DEF TypeOK, historyVars
<1>15. MeantInv'
  <2>1. \A i \in DOMAIN wire' : Meant(wire'[i].conv, wire'[i].record)
    BY <1>1, <1>11 DEF MeantInv
  <2> QED BY <1>1, <1>5, <1>10, <2>1 DEF MeantInv, Meant, MeantBy, storeVars
<1>16. KeptInv'
  BY <1>1, <1>5, <1>10 DEF KeptInv, Kept, storeVars
<1>17. JobInv'
  BY <1>1 DEF JobInv, storeVars
<1>18. UsageInv'
  BY <1>10, <1>13, <1>14, <1>15, <1>16, <1>17, StoreStill DEF UsageInv
<1> HIDE DEF c
<1> QED BY <1>3, <1>5, <1>18, LoseMaps

LEMMA WireStep == ASSUME UsageInv, AckArrives \/ WriteCompletes PROVE UsageInv' /\ SwitchStep
<1>1. wire # <<>> /\ ~poisoned /\ UNCHANGED <<storeVars, expired, historyVars>>
  BY DEF AckArrives, WriteCompletes
<1>2. CASE Finish /\ stage \in {"back", "acked"}
  BY <1>1, <1>2, FinishStep
<1>3. CASE ~(Finish /\ stage \in {"back", "acked"})
  <2>1. /\ UNCHANGED <<coordinatorVars, wire>> /\ written' \in BOOLEAN
        /\ stage' = stage \/ (stage = "back" /\ stage' = "acked")
    BY <1>3 DEF AckArrives, WriteCompletes, UsageInv, TypeOK
  <2>2. TypeOK /\ MeantInv /\ WireInv /\ QueueInv /\ KeptInv /\ JobInv
    BY DEF UsageInv
  <2>3. TypeOK'
    BY <1>1, <2>1, <2>2, StoreStill DEF TypeOK, coordinatorVars, historyVars
  <2>4. MeantInv' /\ WireInv' /\ QueueInv' /\ KeptInv'
    BY <1>1, <2>1, <2>2 DEF MeantInv, Meant, MeantBy, WireInv, QueueInv, KeptInv, Kept, coordinatorVars, historyVars, storeVars
  <2>5. JobInv'
    BY <1>1, <2>1, <2>2 DEF JobInv, Agree, storeVars
  <2>6. UsageInv'
    BY <1>1, <2>3, <2>4, <2>5, StoreStill DEF UsageInv
  <2>7. wire[1].conv \in Conversations
    <3>1. wire[1] \in Frame
      BY <1>1, <2>2 DEF TypeOK
    <3> QED BY <3>1 DEF Frame
  <2> QED BY <1>1, <2>1, <2>6, <2>7, LoseMaps DEF coordinatorVars, historyVars
<1> QED BY <1>2, <1>3

\* The acknowledgement to the owner.
LEMMA SettleStep == ASSUME UsageInv, NEW c \in Conversations, Settle(c) PROVE UsageInv' /\ SwitchStep
<1>1. TypeOK /\ StoreTypeOK /\ JsonInv /\ MeantInv /\ WireInv /\ QueueInv /\ KeptInv /\ JobInv
  BY DEF UsageInv, TypeOK
<1> DEFINE r == requests[c][1]
           q == Tail(requests[c])
           lostNow == r.run = "ok" /\ ~r.timedOut /\ Late(r)
<1>2. requests[c] \in Seq(Pending) /\ requests[c] # <<>> /\ Head(requests[c]) = r
      /\ r \in Pending /\ 1 \in DOMAIN requests[c] /\ r.run \in {"ok", "failed"}
  BY <1>1 DEF TypeOK, Settle, Settled
<1>3. r.record \in Record /\ r.record.epoch \in Nat
  BY <1>2 DEF Pending, Record
<1>4. /\ requests' = [requests EXCEPT ![c] = q]
      /\ Confirms(c, r) => /\ enabled' = IF r.record.on THEN enabled \cup {c} ELSE enabled
                           /\ answered' = [answered EXCEPT ![c] = r.record] /\ uncertain' = uncertain
      /\ ~Confirms(c, r) => /\ enabled' = IF lostNow THEN enabled \ {c} ELSE enabled
                            /\ uncertain' = IF lostNow THEN uncertain \cup {c} ELSE uncertain
                            /\ answered' = answered
      /\ UNCHANGED <<storeVars, counter, epoch, poisoned, expired, wire, stage, written, asked>>
  BY <1>2 DEF Settle, wireVars
<1>5. /\ q \in Seq(Pending) /\ DOMAIN requests[c] \subseteq Nat
      /\ \A j \in DOMAIN q : j \in Nat /\ j >= 1 /\ j + 1 \in DOMAIN requests[c] /\ q[j] = requests[c][j + 1]
  BY <1>2, TailKeeps
<1>6. Meant(c, r.record) /\ (r.run = "ok" => Kept(c, r.record.epoch))
  BY <1>1, <1>2 DEF MeantInv, KeptInv
<1>7. ~poisoned => \A j \in DOMAIN wire : wire[j].conv # c
  BY <1>1, <1>2 DEF WireInv
<1> HIDE DEF q, r, lostNow
<1>8. \A x \in Conversations : requests'[x] = IF x = c THEN q ELSE requests[x]
  BY <1>1, <1>4 DEF TypeOK
<1>9. TypeOK'
  <2>1. requests' \in [Conversations -> Seq(Pending)]
    BY <1>1, <1>4, <1>5 DEF TypeOK
  <2> QED BY <1>1, <1>3, <1>4, <2>1, StoreStill DEF TypeOK
<1>10. QueueInv'
  <2>1. ASSUME NEW i \in DOMAIN q, NEW j \in DOMAIN q, i < j
        PROVE  q[i].record.epoch < q[j].record.epoch /\ q[j].run = "waiting"
    <3>1. i + 1 < j + 1 /\ i + 1 \in DOMAIN requests[c] /\ j + 1 \in DOMAIN requests[c]
      BY <1>5, <2>1
    <3> QED BY <1>1, <1>5, <3>1 DEF QueueInv
  <2>2. ~poisoned => \A i \in DOMAIN q : q[i].run = "waiting" => disk.json[c].epoch < q[i].record.epoch
    BY <1>1, <1>5 DEF QueueInv
  <2> QED BY <1>1, <1>4, <1>8, <2>1, <2>2 DEF QueueInv, storeVars
<1>11. MeantInv'
  <2>1. \A i \in DOMAIN q : Meant(c, q[i].record)
    BY <1>1, <1>5 DEF MeantInv
  <2> QED BY <1>1, <1>4, <1>8, <2>1 DEF MeantInv, Meant, MeantBy, storeVars
<1>12. WireInv'
  <2>1. \A j \in DOMAIN wire : wire[j].conv \in Conversations
    <3>1. \A j \in DOMAIN wire : wire[j] \in Frame
      BY <1>1 DEF TypeOK
    <3> QED BY <3>1 DEF Frame
  <2> QED BY <1>1, <1>4, <1>7, <1>8, <2>1 DEF WireInv, storeVars
<1>13. KeptInv'
  <2>1. \A x \in Conversations : Kept(x, answered'[x].epoch)
    <3>1. CASE Confirms(c, r)
      <4>1. \A x \in Conversations : answered'[x] = IF x = c THEN r.record ELSE answered[x]
        BY <1>1, <1>4, <3>1 DEF TypeOK
      <4> QED BY <1>1, <1>6, <3>1, <4>1 DEF KeptInv, Confirms
    <3>2. CASE ~Confirms(c, r)
      BY <1>1, <1>4, <3>2 DEF KeptInv
    <3> QED BY <3>1, <3>2
  <2>2. \A i \in DOMAIN q : q[i].run = "ok" => Kept(c, q[i].record.epoch)
    BY <1>1, <1>5 DEF KeptInv
  <2> QED BY <1>1, <1>4, <1>8, <2>1, <2>2 DEF KeptInv, Kept, storeVars
<1>14. JobInv'
  BY <1>1, <1>4 DEF JobInv, Agree, storeVars
<1>15. UsageInv'
  BY <1>4, <1>9, <1>10, <1>11, <1>12, <1>13, <1>14, StoreStill DEF UsageInv
<1>16. CASE Confirms(c, r) /\ r.record.on
  <2>1. ~poisoned /\ c \notin uncertain /\ epoch[c] = r.record.epoch /\ r.run = "ok"
    BY <1>16 DEF Confirms
  <2>2. r.record = asked[c]
    BY <1>1, <1>6, <2>1 DEF MeantInv, Meant, MeantBy
  <2>3. past \in SUBSET Root /\ disk \in past /\ Close(past, disk)
    BY <1>1 DEF StoreTypeOK, JsonInv
  <2>4. PICK d \in past : Least(past, c) = d.json[c]
    BY <2>3, LeastIs
  <2>5. r.record.epoch <= d.json[c].epoch /\ Meant(c, d.json[c]) /\ d.json[c].epoch \in Nat
    BY <1>1, <1>6, <2>1, <2>3, RootRecords DEF Kept, MeantInv
  <2>6. Durable(c) = asked[c]
    BY <1>3, <2>2, <2>4, <2>5, DurableLeast DEF Meant, MeantBy
  <2>7. c \notin Lost /\ Lost' = Lost /\ Usable' = Usable \cup {c} /\ UNCHANGED <<past, asked>> /\ asked[c].on
    BY <1>4, <1>16, <2>1, <2>2 DEF Lost, Usable, storeVars
  <2>8. SwitchStep
    BY <2>6, <2>7, AllowMaps
  <2> QED BY <1>15, <2>8
<1>17. CASE ~(Confirms(c, r) /\ r.record.on)
  BY <1>4, <1>15, <1>17, LoseMaps
<1> QED BY <1>16, <1>17

----------------------------------------------------------------------------
(* The owner's requests, and the failure of the channel.                    *)

\* A newer request makes the older ones older still.
Newer(c) == asked'[c] = asked[c] \/ asked[c].epoch < asked'[c].epoch
LEMMA MeantNewer ==
    ASSUME asked \in [Conversations -> Record], asked' \in [Conversations -> Record],
           NEW c \in Conversations, Newer(c), NEW r \in Record, Meant(c, r)
    PROVE  MeantBy(asked'[c], r)
<1>1. r.epoch \in Nat /\ asked[c].epoch \in Nat /\ asked'[c].epoch \in Nat
  BY DEF Record
<1> QED BY <1>1 DEF Meant, MeantBy, Newer

\* What a queue has to be after the step.
Proper(c, q) ==
    /\ q \in Seq(Pending)
    /\ \A i, j \in DOMAIN q : i < j => q[i].record.epoch < q[j].record.epoch /\ q[j].run = "waiting"
    /\ \A i \in DOMAIN q : MeantBy(asked'[c], q[i].record) /\ (q[i].run = "ok" => Kept(c, q[i].record.epoch))

\* The queue that there is.
LEMMA ProperQueue ==
    ASSUME UsageInv, NEW c \in Conversations, asked' \in [Conversations -> Record], Newer(c)
    PROVE  Proper(c, requests[c])
<1>1. TypeOK /\ MeantInv /\ QueueInv /\ KeptInv
  BY DEF UsageInv
<1>2. requests[c] \in Seq(Pending) /\ \A i \in DOMAIN requests[c] : requests[c][i] \in Pending
  BY <1>1 DEF TypeOK
<1>3. ASSUME NEW i \in DOMAIN requests[c] PROVE MeantBy(asked'[c], requests[c][i].record)
  <2>1. requests[c][i].record \in Record /\ Meant(c, requests[c][i].record)
    BY <1>1, <1>2 DEF Pending, MeantInv
  <2>2. asked \in [Conversations -> Record]
    BY <1>1 DEF TypeOK
  <2> QED BY <2>1, <2>2, MeantNewer
<1> QED BY <1>1, <1>2, <1>3 DEF Proper, QueueInv, KeptInv

\* The new request behind it.
LEMMA ProperNew ==
    ASSUME NEW c \in Conversations, NEW q, Proper(c, q), NEW r \in Pending, r.run = "waiting",
           r.record = asked'[c], asked'[c] \in Record,
           \A i \in DOMAIN q : q[i].record.epoch < r.record.epoch
    PROVE  Proper(c, Append(q, r))
<1> DEFINE p == Append(q, r)
<1>1. /\ q \in Seq(Pending) /\ p \in Seq(Pending) /\ Len(q) \in Nat
      /\ DOMAIN p = DOMAIN q \cup {Len(q) + 1} /\ (\A j \in DOMAIN q : j < Len(q) + 1 /\ j \in Nat)
      /\ (\A j \in DOMAIN q : p[j] = q[j]) /\ p[Len(q) + 1] = r
  BY AppendKeeps DEF Proper
<1> HIDE DEF p
<1>2. ASSUME NEW i \in DOMAIN p, NEW j \in DOMAIN p, i < j
      PROVE  p[i].record.epoch < p[j].record.epoch /\ p[j].run = "waiting"
  <2>1. i \in DOMAIN q
    BY <1>1, <1>2
  <2>2. CASE j \in DOMAIN q
    BY <1>1, <1>2, <2>1, <2>2 DEF Proper
  <2>3. CASE j = Len(q) + 1
    BY <1>1, <2>1, <2>3
  <2> QED BY <1>1, <2>2, <2>3
<1>3. ASSUME NEW i \in DOMAIN p
      PROVE  MeantBy(asked'[c], p[i].record) /\ (p[i].run = "ok" => Kept(c, p[i].record.epoch))
  <2>1. CASE i \in DOMAIN q
    BY <1>1, <2>1 DEF Proper
  <2>2. CASE i = Len(q) + 1
    BY <1>1, <2>2 DEF MeantBy, Record
  <2> QED BY <1>1, <2>1, <2>2
<1> QED BY <1>1, <1>2, <1>3 DEF Proper, p

\* The channel fails: what is on its way is rejected, but for the frame in flight.
LEMMA PoisonKeeps ==
    ASSUME UsageInv, NEW n \in 0..MaxEpoch, NEW qs, Poison(n, qs),
           UNCHANGED <<storeVars, expired, stage, written, answered>>, asked' \in [Conversations -> Record],
           \A c \in Conversations : Newer(c) /\ asked'[c].epoch <= MaxEpoch /\ Proper(c, qs[c])
    PROVE  UsageInv' /\ Lost' = Conversations /\ Usable' = {} /\ Lost \subseteq Conversations
<1>1. TypeOK /\ MeantInv /\ WireInv /\ QueueInv /\ KeptInv /\ JobInv
  BY DEF UsageInv
<1>2. /\ poisoned' = TRUE /\ counter' = FenceEpoch(n) /\ enabled' = {} /\ uncertain' = Conversations
      /\ epoch' = [c \in Conversations |-> counter']
      /\ requests' = [c \in Conversations |-> Rejected(qs[c])]
      /\ wire' = IF wire = <<>> THEN <<>> ELSE <<Head(wire)>>
  BY DEF Poison
<1>3. counter' \in 0..MaxEpoch
  BY <1>2, UsageAssumption DEF FenceEpoch
<1>4. ASSUME NEW c \in Conversations
      PROVE  /\ requests'[c] \in Seq(Pending) /\ DOMAIN requests'[c] = DOMAIN qs[c]
             /\ \A j \in DOMAIN qs[c] :
                   /\ requests'[c][j].record = qs[c][j].record
                   /\ requests'[c][j].run = IF qs[c][j].run = "storing" THEN "failed" ELSE qs[c][j].run
  <2>1. requests'[c] = Rejected(qs[c]) /\ qs[c] \in Seq(Pending)
    BY <1>2 DEF Proper
  <2> QED BY <2>1, RejectedKeeps
<1>5. requests' \in [Conversations -> Seq(Pending)]
  BY <1>2, <1>4
<1>6. /\ wire \in Seq(Frame) /\ wire' \in Seq(Frame)
      /\ DOMAIN wire' \subseteq DOMAIN wire /\ (\A i \in DOMAIN wire' : i = 1 /\ wire'[i] = wire[i])
      /\ wire' # <<>> => wire # <<>> /\ wire'[1] = wire[1]
      /\ wire # <<>> => wire' # <<>> /\ wire'[1] = wire[1]
  <2>1. wire \in Seq(Frame)
    BY <1>1 DEF TypeOK
  <2>2. CASE wire = <<>>
    BY <1>2, <2>1, <2>2
  <2>3. CASE wire # <<>>
    <3>1. Head(wire) = wire[1] /\ wire[1] \in Frame /\ 1 \in DOMAIN wire
      BY <2>1, <2>3
    <3>2. wire' = <<wire[1]>>
      BY <1>2, <2>3, <3>1
    <3> QED BY <2>1, <2>3, <3>1, <3>2
  <2> QED BY <2>2, <2>3
<1>7. TypeOK'
  BY <1>1, <1>2, <1>3, <1>5, <1>6, StoreStill DEF TypeOK
<1>8. MeantInv'
  <2>1. asked \in [Conversations -> Record]
    BY <1>1 DEF TypeOK
  <2>2. ASSUME NEW d \in past, NEW c \in Conversations PROVE MeantBy(asked'[c], d.json[c])
    <3>1. d.json[c] \in Record /\ Meant(c, d.json[c])
      BY <1>1, RootRecords DEF MeantInv, TypeOK, StoreTypeOK
    <3> QED BY <2>1, <3>1, MeantNewer
  <2>3. ASSUME NEW i \in DOMAIN wire' PROVE MeantBy(asked'[wire'[i].conv], wire'[i].record)
    <3>1. wire'[i] \in Frame /\ wire'[i] = wire[i] /\ i \in DOMAIN wire
      BY <1>6
    <3>2. wire'[i].conv \in Conversations /\ wire'[i].record \in Record /\ Meant(wire[i].conv, wire[i].record)
      BY <1>1, <3>1 DEF Frame, MeantInv
    <3> QED BY <2>1, <3>1, <3>2, MeantNewer
  <2>4. \A c \in Conversations : \A i \in DOMAIN requests'[c] : MeantBy(asked'[c], requests'[c][i].record)
    BY <1>4 DEF Proper
  <2> QED BY <1>2, <2>2, <2>3, <2>4 DEF MeantInv, Meant, storeVars
<1>9. WireInv'
  BY <1>1, <1>2, <1>6 DEF WireInv, storeVars
<1>10. QueueInv'
  <2>1. ASSUME NEW c \in Conversations, NEW i \in DOMAIN requests'[c], NEW j \in DOMAIN requests'[c], i < j
        PROVE  requests'[c][i].record.epoch < requests'[c][j].record.epoch /\ requests'[c][j].run = "waiting"
    <3>1. qs[c][i].record.epoch < qs[c][j].record.epoch /\ qs[c][j].run = "waiting"
      BY <1>4, <2>1 DEF Proper
    <3> QED BY <1>4, <3>1
  <2> QED BY <1>2, <2>1 DEF QueueInv
<1>11. KeptInv'
  <2>1. \A c \in Conversations : \A i \in DOMAIN requests'[c] :
           requests'[c][i].run = "ok" => Kept(c, requests'[c][i].record.epoch)
    BY <1>4 DEF Proper
  <2> QED BY <1>1, <1>6, <2>1 DEF KeptInv, Kept, storeVars
<1>12. JobInv'
  BY <1>1, <1>6 DEF JobInv, Agree, storeVars
<1>13. UsageInv'
  BY <1>7, <1>8, <1>9, <1>10, <1>11, <1>12, StoreStill DEF UsageInv
<1> QED BY <1>1, <1>2, <1>13 DEF Lost, Usable, TypeOK

\* ChannelFails and Exhausted.
LEMMA ChannelStep == ASSUME UsageInv, ChannelFails \/ Exhausted PROVE UsageInv' /\ SwitchStep
<1>1. TypeOK /\ MeantInv
  BY DEF UsageInv
<1>2. Poison(counter, requests) /\ UNCHANGED <<storeVars, expired, stage, written, asked, answered>>
  BY DEF ChannelFails, Exhausted, historyVars
<1>3. counter \in 0..MaxEpoch /\ asked' \in [Conversations -> Record]
  BY <1>1, <1>2 DEF TypeOK
<1>4. \A c \in Conversations : Newer(c) /\ asked'[c].epoch <= MaxEpoch
  BY <1>1, <1>2 DEF Newer, MeantInv
<1>5. \A c \in Conversations : Proper(c, requests[c])
  BY <1>3, <1>4, ProperQueue
<1>6. UsageInv' /\ Lost' = Conversations /\ Usable' = {} /\ Lost \subseteq Conversations
  BY <1>2, <1>3, <1>4, <1>5, PoisonKeeps
<1>7. Usable \ Lost' = {}
  BY <1>1, <1>6 DEF Usable, TypeOK
<1> QED BY <1>2, <1>6, <1>7, StoreStill, RecordMaps

\* on and off.
LEMMA AskStep == ASSUME UsageInv, NEW c \in Conversations, NEW on \in BOOLEAN, Ask(c, on) PROVE UsageInv' /\ SwitchStep
<1>1. TypeOK /\ StoreTypeOK /\ MeantInv /\ WireInv /\ QueueInv /\ KeptInv /\ JobInv
  BY DEF UsageInv, TypeOK
<1> DEFINE e == counter + 1
           r == New(e, on)
           kept == c \notin uncertain /\ Len(requests[c]) < MaxPending[c]
           qs == IF kept THEN [requests EXCEPT ![c] = Append(@, r)] ELSE requests
<1>2. /\ ~poisoned /\ counter < MaxEpoch /\ asked' = [asked EXCEPT ![c] = [epoch |-> e, on |-> on]]
      /\ UNCHANGED <<storeVars, expired, stage, written, answered>>
      /\ \/ /\ counter' = e /\ epoch' = [epoch EXCEPT ![c] = e]
            /\ enabled' = enabled \ {c}
            /\ uncertain' = IF kept THEN uncertain ELSE uncertain \cup {c}
            /\ requests' = qs
            /\ UNCHANGED <<poisoned, wire>>
         \/ Poison(e, qs)
  BY DEF Ask
<1>3. counter \in Nat /\ e \in 0..MaxEpoch /\ e \in Nat /\ counter < e
  BY <1>1, <1>2, UsageAssumption DEF TypeOK
<1>4. /\ r \in Pending /\ r.run = "waiting" /\ r.record = [epoch |-> e, on |-> on]
      /\ [epoch |-> e, on |-> on] \in Record /\ [epoch |-> e, on |-> on].epoch = e
  BY <1>3 DEF New, Pending, Record
<1> HIDE DEF r, e
<1>5. /\ asked \in [Conversations -> Record] /\ asked' \in [Conversations -> Record]
      /\ asked'[c] = r.record /\ asked'[c].epoch = e /\ \A x \in Conversations \ {c} : asked'[x] = asked[x]
  BY <1>1, <1>2, <1>4 DEF TypeOK
<1>6. /\ \A x \in Conversations : asked[x].epoch \in Nat /\ asked[x].epoch <= counter /\ asked[x].epoch = epoch[x]
      /\ epoch \in [Conversations -> 0..MaxEpoch]
  BY <1>1, <1>2, <1>3, <1>5 DEF MeantInv, Record, TypeOK
<1>7. asked[c].epoch < e
  BY <1>3, <1>6
<1>8. \A x \in Conversations : Newer(x) /\ asked'[x].epoch <= MaxEpoch
  BY <1>1, <1>3, <1>5, <1>7 DEF Newer, MeantInv
<1>9. \A x \in Conversations : Proper(x, requests[x])
  BY <1>5, <1>8, ProperQueue
<1>10. \A i \in DOMAIN requests[c] : requests[c][i].record.epoch < r.record.epoch
  <2>1. ASSUME NEW i \in DOMAIN requests[c] PROVE requests[c][i].record.epoch < e
    <3>1. requests[c] \in Seq(Pending)
      BY <1>1 DEF TypeOK
    <3>2. requests[c][i] \in Pending
      BY <3>1
    <3>3. requests[c][i].record.epoch \in Nat /\ requests[c][i].record.epoch <= asked[c].epoch
      BY <1>1, <3>2 DEF Pending, Record, MeantInv, Meant, MeantBy
    <3> QED BY <1>3, <1>6, <1>7, <3>3
  <2> QED BY <1>4, <2>1
<1>11. Proper(c, Append(requests[c], r))
  BY <1>4, <1>5, <1>9, <1>10, ProperNew
<1>12. \A x \in Conversations : /\ Proper(x, qs[x])
                                /\ qs[x] = requests[x] \/ (x = c /\ kept /\ qs[x] = Append(requests[c], r))
  <2>1. requests \in [Conversations -> Seq(Pending)]
    BY <1>1 DEF TypeOK
  <2>2. CASE kept
    <3> HIDE DEF kept
    <3>1. \A x \in Conversations : qs[x] = IF x = c THEN Append(requests[c], r) ELSE requests[x]
      BY <2>1, <2>2
    <3> QED BY <1>9, <1>11, <2>2, <3>1
  <2>3. CASE ~kept
    BY <1>9, <2>3
  <2> QED BY <2>2, <2>3
<1>13. CASE Poison(e, qs)
  <2> HIDE DEF qs
  <2>1. UsageInv' /\ Lost' = Conversations /\ Usable' = {} /\ Lost \subseteq Conversations
    BY <1>2, <1>3, <1>5, <1>8, <1>12, <1>13, PoisonKeeps
  <2>2. Usable \ ({c} \cup Lost') = {}
    BY <1>1, <2>1 DEF Usable, TypeOK
  <2>3. UNCHANGED past /\ asked' = [asked EXCEPT ![c] = r.record]
    BY <1>2, <1>4 DEF storeVars
  <2>4. SwitchStep
    BY <1>4, <1>7, <2>1, <2>2, <2>3, AskMaps
  <2> QED BY <2>1, <2>4
<1>14. CASE ~Poison(e, qs)
  <2>1. /\ counter' = e /\ epoch' = [epoch EXCEPT ![c] = e]
        /\ enabled' = enabled \ {c}
        /\ uncertain' = IF kept THEN uncertain ELSE uncertain \cup {c}
        /\ requests' = qs /\ poisoned' = poisoned /\ wire' = wire
    BY <1>2, <1>14
  <2>2. requests' \in [Conversations -> Seq(Pending)]
    <3>1. requests \in [Conversations -> Seq(Pending)]
      BY <1>1 DEF TypeOK
    <3> QED BY <1>4, <2>1, <3>1
  <2> HIDE DEF qs
  <2>3. TypeOK'
    BY <1>1, <1>2, <1>3, <1>5, <2>1, <2>2, StoreStill DEF TypeOK
  <2>4. \A x \in Conversations : requests[x] \in Seq(Pending) /\ disk.json[x].epoch \in Nat
    BY <1>1, RootRecords DEF TypeOK, StoreTypeOK
  <2>5. QueueInv'
    <3>1. ASSUME NEW x \in Conversations, NEW i \in DOMAIN requests'[x], requests'[x][i].run = "waiting"
          PROVE  disk.json[x].epoch < requests'[x][i].record.epoch
      <4>1. CASE requests'[x] = requests[x]
        BY <1>1, <1>2, <3>1, <4>1 DEF QueueInv
      <4>2. CASE x = c /\ requests'[x] = Append(requests[c], r)
        <5>1. CASE i \in DOMAIN requests[c]
          <6>1. requests'[x][i] = requests[c][i]
            BY <1>4, <2>4, <4>2, <5>1, AppendKeeps
          <6> QED BY <1>1, <1>2, <3>1, <4>2, <5>1, <6>1 DEF QueueInv
        <5>2. CASE i = Len(requests[c]) + 1
          <6>1. requests'[x][i].record.epoch = e
            BY <1>4, <2>4, <4>2, <5>2, AppendKeeps
          <6>2. disk.json[c].epoch <= asked[c].epoch
            BY <1>1 DEF MeantInv, Meant, MeantBy, StoreTypeOK
          <6> QED BY <1>3, <1>6, <1>7, <2>4, <4>2, <6>1, <6>2
        <5> QED BY <1>4, <2>4, <3>1, <4>2, <5>1, <5>2, AppendKeeps
      <4> QED BY <1>12, <2>1, <4>1, <4>2
    <3> QED BY <1>2, <1>12, <2>1, <3>1 DEF QueueInv, Proper, storeVars
  <2>6. MeantInv'
    <3>1. ASSUME NEW d \in past, NEW x \in Conversations PROVE MeantBy(asked'[x], d.json[x])
      <4>1. d.json[x] \in Record /\ Meant(x, d.json[x])
        BY <1>1, RootRecords DEF MeantInv, StoreTypeOK
      <4> QED BY <1>5, <1>8, <4>1, MeantNewer
    <3>2. ASSUME NEW i \in DOMAIN wire PROVE MeantBy(asked'[wire[i].conv], wire[i].record)
      <4>1. wire[i] \in Frame
        BY <1>1 DEF TypeOK
      <4>2. wire[i].conv \in Conversations /\ wire[i].record \in Record /\ Meant(wire[i].conv, wire[i].record)
        BY <1>1, <4>1 DEF Frame, MeantInv
      <4> QED BY <1>5, <1>8, <4>2, MeantNewer
    <3>3. \A x \in Conversations : \A i \in DOMAIN requests'[x] : MeantBy(asked'[x], requests'[x][i].record)
      BY <1>12, <2>1 DEF Proper
    <3>4. \A x \in Conversations : asked'[x].epoch = epoch'[x] /\ epoch'[x] <= counter'
      BY <1>3, <1>5, <1>6, <2>1
    <3> QED BY <1>2, <1>8, <2>1, <3>1, <3>2, <3>3, <3>4 DEF MeantInv, Meant, storeVars
  <2>7. WireInv'
    <3>1. ASSUME NEW i \in DOMAIN wire
          PROVE  LET q == requests'[wire[i].conv] IN
                 q # <<>> /\ q[1].run = "storing" /\ q[1].record = wire[i].record
      <4> DEFINE x == wire[i].conv
      <4>1. wire[i] \in Frame
        BY <1>1 DEF TypeOK
      <4>2. x \in Conversations
        BY <4>1 DEF Frame
      <4>3. requests[x] # <<>> /\ requests[x][1].run = "storing" /\ requests[x][1].record = wire[i].record
        BY <1>1, <1>2 DEF WireInv
      <4>4. CASE requests'[x] = requests[x]
        BY <4>3, <4>4
      <4>5. CASE x = c /\ requests'[x] = Append(requests[c], r)
        <5>1. 1 \in DOMAIN requests[c]
          BY <2>4, <4>3, <4>5
        <5>2. requests'[x][1] = requests[c][1] /\ requests'[x] # <<>>
          BY <1>4, <2>4, <4>5, <5>1, AppendKeeps
        <5> QED BY <4>3, <4>5, <5>2
      <4> QED BY <1>12, <2>1, <4>2, <4>4, <4>5
    <3> QED BY <1>1, <1>2, <2>1, <3>1 DEF WireInv, storeVars
  <2>8. KeptInv'
    BY <1>1, <1>2, <1>12, <2>1 DEF KeptInv, Kept, Proper, storeVars
  <2>9. JobInv'
    BY <1>1, <1>2, <2>1 DEF JobInv, Agree, storeVars
  <2>10. UsageInv'
    BY <1>2, <2>3, <2>5, <2>6, <2>7, <2>8, <2>9, StoreStill DEF UsageInv
  <2>11. Lost \subseteq Lost' /\ Lost' \subseteq Conversations /\ Usable' = Usable \ ({c} \cup Lost')
    BY <1>1, <2>1 DEF Lost, Usable, TypeOK
  <2>12. UNCHANGED past /\ asked' = [asked EXCEPT ![c] = r.record]
    BY <1>2, <1>4 DEF storeVars
  <2>13. SwitchStep
    BY <1>4, <1>7, <2>11, <2>12, AskMaps
  <2> QED BY <2>10, <2>13
<1> QED BY <1>13, <1>14

----------------------------------------------------------------------------
(* The whole chain.                                                         *)

\* The start, here and for the switch.
LEMMA Starts == ASSUME Init PROVE UsageInv /\ Switch!Init
<1>1. StoreInit /\ poisoned = FALSE /\ counter = 0 /\ epoch = [c \in Conversations |-> 0]
      /\ enabled = {} /\ uncertain = {} /\ requests = [c \in Conversations |-> <<>>]
      /\ expired = 0 /\ wire = <<>> /\ stage = "out" /\ written = FALSE
      /\ asked = [c \in Conversations |-> Absent] /\ answered = [c \in Conversations |-> Absent]
  BY DEF Init
<1>2. Fresh \in Root /\ Absent \in Record /\ Absent.epoch = 0 /\ \A c \in Conversations : Fresh.json[c] = Absent
  BY DEF Fresh, Root, Absent, Record
<1>3. StoreTypeOK
  BY <1>1, <1>2, StoreAssumption DEF StoreInit, StoreTypeOK, Stages
<1>4. TypeOK
  <2>1. requests \in [Conversations -> Seq(Pending)] /\ wire \in Seq(Frame) /\ 0 \in 0..MaxEpoch
    BY <1>1, UsageAssumption
  <2> QED BY <1>1, <1>2, <1>3, <2>1 DEF TypeOK
<1>5. past = {Fresh} /\ disk = Fresh /\ job = None /\ acked = [c \in Conversations |-> Absent]
      /\ \A s \in Services : at[s] = "off"
  BY <1>1 DEF StoreInit
<1>6. JsonInv
  BY <1>5 DEF JsonInv, Close
<1>7. MeantInv
  BY <1>1, <1>2, <1>5, UsageAssumption DEF MeantInv, Meant, MeantBy
<1>8. RootInv /\ JobInv
  BY <1>5, StoreAssumption DEF RootInv, JobInv
<1>9. WireInv /\ QueueInv
  BY <1>1 DEF WireInv, QueueInv
<1>10. KeptInv
  BY <1>1, <1>2, <1>5 DEF KeptInv, Kept
<1>11. UsageInv
  BY <1>4, <1>6, <1>7, <1>8, <1>9, <1>10 DEF UsageInv
<1>12. \A c \in Conversations : Durable(c) = Absent
  <2>1. ASSUME NEW c \in Conversations PROVE Least(past, c) = Absent
    <3>1. \E d \in past : Least(past, c) = d.json[c]
      BY <1>3, <1>6, LeastIs DEF StoreTypeOK, JsonInv
    <3> QED BY <1>2, <1>5, <3>1
  <2> QED BY <2>1, DurableLeast
<1>13. Usable = {} /\ ~poisoned /\ [c \in Conversations |-> Durable(c)] = [c \in Conversations |-> Absent]
  BY <1>1, <1>12 DEF Usable
<1> QED BY <1>1, <1>11, <1>13 DEF Switch!Init, Switch!Nothing, Absent

\* Every step.
LEMMA EveryStep == ASSUME UsageInv, [Next]_vars PROVE UsageInv' /\ SwitchStep
<1>1. CASE UNCHANGED vars
  <2>1. UNCHANGED <<storeVars, coordinatorVars, expired, wire, stage, written, asked, answered>>
    BY <1>1 DEF vars, wireVars, historyVars
  <2>2. TypeOK /\ MeantInv /\ WireInv /\ QueueInv /\ KeptInv /\ JobInv
    BY DEF UsageInv
  <2>3. TypeOK'
    BY <2>1, <2>2, StoreStill DEF TypeOK, coordinatorVars
  <2>4. MeantInv' /\ WireInv' /\ QueueInv' /\ KeptInv' /\ JobInv'
    BY <2>1, <2>2 DEF MeantInv, Meant, MeantBy, WireInv, QueueInv, KeptInv, Kept, JobInv, Agree, coordinatorVars, storeVars
  <2>5. UsageInv'
    BY <2>1, <2>3, <2>4, StoreStill DEF UsageInv
  <2>6. Lost' = Lost /\ Lost \subseteq Conversations /\ Usable' = Usable /\ Usable \cap Lost = {} /\ asked' = asked
    BY <2>1, <2>2 DEF Lost, Usable, TypeOK, coordinatorVars
  <2> QED BY <2>1, <2>5, <2>6, StoreStill, RecordMaps
<1>2. ASSUME NEW c \in Conversations, Ask(c, TRUE) \/ Ask(c, FALSE) PROVE UsageInv' /\ SwitchStep
  BY <1>2, AskStep
<1>3. ASSUME NEW c \in Conversations, TimerFires(c) \/ Start(c) \/ Settle(c) PROVE UsageInv' /\ SwitchStep
  BY <1>3, TimerStep, StartStep, SettleStep
<1>4. CASE Exhausted \/ DeadlinePasses \/ ChannelFails
  BY <1>4, ChannelStep, DeadlineStep
<1>5. CASE ServiceTakes \/ ServiceAnswers \/ AckArrives \/ WriteCompletes
  BY <1>5, ServiceTakesStep, ServiceAnswersStep, WireStep
<1>6. CASE StoreRuns \/ StoreFails \/ PowerLoss
  BY <1>6, StoreRunsStep, PowerLossStep
<1> QED BY <1>1, <1>2, <1>3, <1>4, <1>5, <1>6 DEF Next

\* The inductive invariant of the chain (ReadUsageCoordinator, the store transport and
\* ReadUsageStore together).
THEOREM UsageInvariant == Spec => []UsageInv
<1>1. Init => UsageInv
  BY Starts
<1>2. UsageInv /\ [Next]_vars => UsageInv'
  BY EveryStep
<1> QED BY <1>1, <1>2, PTL DEF Spec

\* The chain implements the switch: a conversation may be read only under the newest
\* request of its owner, an on that no power loss can take away, and what is in doubt
\* stays lost (the contract of ReadUsageCoordinator).
THEOREM SwitchIsKept == Spec => SwitchKept
<1>1. Init => Switch!Init
  BY Starts
<1>2. UsageInv /\ [Next]_vars => [Switch!Next]_(Switch!vars)
  BY EveryStep DEF SwitchStep
<1> QED BY <1>1, <1>2, UsageInvariant, PTL DEF Spec, SwitchKept, Switch!Spec

\* An answer to the owner means that the request is on disk, read_evidence shows nothing
\* older than what was acknowledged, and a healthy service finds nothing in the way of
\* the next frame (ReadUsageStore.commit, read_evidence).
THEOREM StoreIsSound == Spec => []StoreSound
<1>1. UsageInv => StoreSound
  <2> SUFFICES ASSUME UsageInv PROVE StoreSound
    OBVIOUS
  <2>1. TypeOK /\ StoreTypeOK /\ JsonInv /\ RootInv /\ JobInv /\ WireInv /\ KeptInv
    BY DEF UsageInv, TypeOK
  <2>2. past \in SUBSET Root /\ disk \in past /\ Close(past, disk)
    BY <2>1 DEF StoreTypeOK, JsonInv
  <2>3. AnswerDurable
    <3>1. ASSUME NEW c \in Conversations PROVE answered[c].epoch <= Durable(c).epoch
      <4>1. PICK d \in past : Least(past, c) = d.json[c]
        BY <2>2, LeastIs
      <4>2. answered[c].epoch <= d.json[c].epoch
        BY <2>1 DEF KeptInv, Kept
      <4> QED BY <4>1, <4>2, DurableLeast
    <3> QED BY <3>1 DEF AnswerDurable
  <2>4. EvidenceHonest
    <3>1. ASSUME NEW d \in past, NEW c \in Conversations, Clean(d, c)
          PROVE  d.json[c].epoch >= acked[c].epoch /\ ~(job # None /\ job.conv = c /\ job.step # "done")
      <4>1. acked[c].epoch <= d.json[c].epoch /\ acked[c].epoch \in Nat /\ d.json[c].epoch \in Nat
        BY <2>1, <2>2, RootRecords DEF KeptInv, Kept, StoreTypeOK, Record
      <4>2. ~(job # None /\ job.conv = c /\ job.step # "done")
        BY <2>1, <3>1 DEF JobInv, Clean
      <4> QED BY <4>1, <4>2
    <3> QED BY <3>1 DEF EvidenceHonest
  <2>5. NothingInTheWay
    <3> SUFFICES ASSUME wire # <<>>, stage = "out", at[Own] = "ready", job = None PROVE Admits(Head(wire))
      BY DEF NothingInTheWay
    <3>1. Head(wire) = wire[1] /\ 1 \in DOMAIN wire
      BY <2>1 DEF TypeOK
    <3>2. disk.json[wire[1].conv].epoch < wire[1].record.epoch
      BY <2>1, <3>1 DEF WireInv
    <3>3. wire[1].conv \notin disk.pending \cup disk.writing
      BY <2>1 DEF RootInv
    <3> QED BY <3>1, <3>2, <3>3 DEF Admits
  <2> QED BY <2>1, <2>3, <2>4, <2>5 DEF StoreSound, AnswersKept
<1> QED BY <1>1, UsageInvariant, PTL

\* A sealed root carries its marker wherever the power fails, and a lock file has one
\* creator.
SealedInv ==
    /\ seals > 0 => \A d \in past : d.session
    /\ made # {} => disk.lock
    /\ \A s, t \in made : s = t

\* The steps of a service that opens the root.
LEMMA OpeningFences ==
    ASSUME UsageInv, RootFenced, SealedInv, NEW s \in Services, Scan(s) \/ OpenLock(s) \/ Lock(s) \/ Seal(s)
    PROVE  RootFenced' /\ SealedInv'
<1>1. /\ disk \in Root /\ past \in SUBSET Root /\ disk \in past /\ seals \in Nat
      /\ at \in [Services -> Stages] /\ made \in SUBSET Services
      /\ \A t \in Services : at[t] \in {"locked", "ready"} => holder = t
  BY DEF UsageInv, TypeOK, StoreTypeOK, RootInv
<1>2. CASE Scan(s)
  BY <1>1, <1>2 DEF Scan, RootFenced, SealedInv
<1>3. CASE OpenLock(s)
  <2>1. /\ \A d \in Root : [d EXCEPT !.lock = TRUE].session = d.session /\ [d EXCEPT !.lock = TRUE].lock
        /\ disk' = [disk EXCEPT !.lock = TRUE] /\ past' = past \cup {[d EXCEPT !.lock = TRUE] : d \in past}
        /\ UNCHANGED <<seals, holder>>
    BY <1>3 DEF OpenLock, Change, Root
  <2>2. \A t \in Services : at'[t] \in {"locked", "ready"} => at[t] = at'[t]
    BY <1>1, <1>3 DEF OpenLock
  <2>3. (made' # {} => disk'.lock) /\ \A t, u \in made' : t = u
    BY <1>1, <1>3, <2>1 DEF OpenLock, SealedInv
  <2>4. seals > 0 => \A d \in past' : d.session
    <3>1. ASSUME seals > 0, NEW d \in past, NEW e, e = [d EXCEPT !.lock = TRUE] PROVE e.session
      BY <1>1, <2>1, <3>1 DEF SealedInv
    <3> QED BY <2>1, <3>1 DEF SealedInv
  <2>5. ASSUME NEW t \in Services, at'[t] = "ready" PROVE made' = {t}
    <3>1. at[t] = "ready" /\ t # s /\ made = {t} /\ disk.lock
      BY <1>1, <1>3, <2>2, <2>5 DEF OpenLock, RootFenced, SealedInv
    <3> QED BY <1>3, <3>1 DEF OpenLock
  <2> QED BY <2>1, <2>2, <2>3, <2>4, <2>5 DEF RootFenced, SealedInv
<1>4. CASE Lock(s)
  <2>1. /\ UNCHANGED <<seals, made>> /\ disk' = disk /\ past' \subseteq past
        /\ \A t \in Services : at'[t] = "ready" => at[t] = "ready"
        /\ \A t \in Services : at'[t] = "locked" => at[t] = "locked" \/ ~disk.session
    BY <1>1, <1>4 DEF Lock, Fail, Synced
  <2>2. ~disk.session => seals = 0
    BY <1>1 DEF SealedInv
  <2> QED BY <1>1, <2>1, <2>2 DEF RootFenced, SealedInv
<1>5. CASE Seal(s)
  <2>1. at[s] = "locked" /\ holder = s /\ seals = 0
    BY <1>1, <1>5 DEF Seal, RootFenced
  <2>2. CASE MaySeal(s)
    <3>1. s \in made /\ disk' = [disk EXCEPT !.session = TRUE] /\ past' = {disk'} /\ seals' = seals + 1
          /\ at' = [at EXCEPT ![s] = "ready"] /\ made' = made
      BY <1>5, <2>2 DEF Seal, MaySeal, Synced
    <3>2. disk'.session /\ disk'.lock = disk.lock
      BY <1>1, <3>1 DEF Root
    <3>3. \A t \in Services : at'[t] # "locked" /\ (at'[t] = "ready" => t = s)
      BY <1>1, <2>1, <3>1
    <3>4. made = {s}
      BY <3>1 DEF SealedInv
    <3> QED BY <1>1, <2>1, <3>1, <3>2, <3>3, <3>4 DEF RootFenced, SealedInv
  <2>3. CASE ~MaySeal(s)
    BY <1>1, <1>5, <2>3 DEF Seal, Fail, RootFenced, SealedInv
  <2> QED BY <2>2, <2>3
<1> QED BY <1>2, <1>3, <1>4, <1>5

\* A record gets its name.
LEMMA RenameFences ==
    ASSUME UsageInv, RootFenced, SealedInv, Rename
    PROVE  RootFenced' /\ SealedInv'
<1> DEFINE L(d) == Renamed(d, job.conv, job.record)
<1>1. disk \in Root /\ past \in SUBSET Root
  BY DEF UsageInv, TypeOK, StoreTypeOK
<1>2. disk' = L(disk) /\ past' = past \cup {L(d) : d \in past}
  BY DEF Rename, Change, Renamed
<1>3. UNCHANGED <<at, made, seals>>
  BY DEF Rename, Advance
<1>4. \A d \in Root : L(d).session = d.session /\ L(d).lock = d.lock
  BY DEF Root, Renamed
<1>5. disk \in past
  BY DEF UsageInv, TypeOK, StoreTypeOK
<1> HIDE DEF L
<1> QED BY <1>1, <1>2, <1>3, <1>4, <1>5 DEF RootFenced, SealedInv

\* The steps of a commit, and what may end it.
LEMMA WorkFences ==
    ASSUME UsageInv, RootFenced, SealedInv,
           \/ WriteRecord \/ Rename \/ Unmark \/ (wire # <<>> /\ Take(Head(wire))) \/ Acknowledge \/ PowerFails
           \/ \E s \in Services : ServiceFails(s)
    PROVE  RootFenced' /\ SealedInv'
<1>1. /\ disk \in Root /\ past \in SUBSET Root /\ disk \in past /\ seals \in Nat
      /\ at \in [Services -> Stages] /\ made \in SUBSET Services
  BY DEF UsageInv, TypeOK, StoreTypeOK
<1>2. CASE WriteRecord
  <2>1. \A d \in past : [d EXCEPT !.writing = @ \cup {job.conv}].session = d.session
                        /\ [d EXCEPT !.writing = @ \cup {job.conv}].lock = d.lock
    BY <1>1 DEF Root
  <2>2. /\ disk' = [disk EXCEPT !.writing = @ \cup {job.conv}]
        /\ past' = past \cup {[d EXCEPT !.writing = @ \cup {job.conv}] : d \in past}
        /\ UNCHANGED <<at, made, seals>>
    BY <1>2 DEF WriteRecord, Change, Advance
  <2> QED BY <1>1, <2>1, <2>2 DEF RootFenced, SealedInv
<1>3. CASE Rename
  BY <1>3, RenameFences
<1>4. CASE Unmark
  <2>1. /\ disk' = [disk EXCEPT !.pending = @ \ {job.conv}] /\ past' = {disk'}
        /\ UNCHANGED <<at, made, seals>>
    BY <1>4 DEF Unmark, Synced, Advance
  <2>2. disk'.session = disk.session /\ disk'.lock = disk.lock
    BY <1>1, <2>1 DEF Root
  <2> QED BY <1>1, <2>1, <2>2 DEF RootFenced, SealedInv
<1>5. CASE wire # <<>> /\ Take(Head(wire))
  <2>1. CASE Admits(Head(wire))
    <3>1. /\ disk' = [disk EXCEPT !.pending = @ \cup {Head(wire).conv}] /\ past' = {disk'}
          /\ UNCHANGED <<at, made, seals>>
      BY <1>5, <2>1 DEF Take, Synced
    <3>2. disk'.session = disk.session /\ disk'.lock = disk.lock
      BY <1>1, <3>1 DEF Root
    <3> QED BY <1>1, <3>1, <3>2 DEF RootFenced, SealedInv
  <2>2. CASE ~Admits(Head(wire))
    BY <1>1, <1>5, <2>2 DEF Take, Fail, RootFenced, SealedInv
  <2> QED BY <2>1, <2>2
<1>6. CASE Acknowledge
  BY <1>6 DEF Acknowledge, RootFenced, SealedInv
<1>7. CASE PowerFails
  <2>1. /\ disk' \in past /\ past' = {disk'} /\ UNCHANGED seals /\ made' = {}
        /\ \A s \in Services : at'[s] \in {"failed", "off"}
    BY <1>7 DEF PowerFails, Synced
  <2> QED BY <2>1 DEF RootFenced, SealedInv
<1>8. CASE \E s \in Services : ServiceFails(s)
  BY <1>1, <1>8 DEF ServiceFails, Fail, RootFenced, SealedInv
<1> QED BY <1>2, <1>3, <1>4, <1>5, <1>6, <1>7, <1>8

\* A root is sealed once, by the one that created its lock file, and nobody gets that
\* lock afterwards, whoever dies and whatever a power loss takes (_guard, _seal_session).
THEOREM RootIsFenced == Spec => []RootFenced
<1>1. Init => RootFenced /\ SealedInv
  BY DEF Init, StoreInit, RootFenced, SealedInv
<1>2. UsageInv /\ RootFenced /\ SealedInv /\ [Next]_vars => RootFenced' /\ SealedInv'
  <2> SUFFICES ASSUME UsageInv, RootFenced, SealedInv, [Next]_vars PROVE RootFenced' /\ SealedInv'
    OBVIOUS
  <2>1. CASE StoreRuns \/ StoreFails \/ PowerLoss \/ ServiceTakes \/ ServiceAnswers
    BY <2>1, OpeningFences, WorkFences DEF StoreRuns, StoreStep, StoreFails, PowerLoss, ServiceTakes, ServiceAnswers
  <2>2. ASSUME NEW c \in Conversations, Ask(c, TRUE) \/ Ask(c, FALSE) \/ TimerFires(c) \/ Start(c) \/ Settle(c)
        PROVE  UNCHANGED storeVars
    BY <2>2 DEF Ask, TimerFires, Start, Settle
  <2>3. ASSUME Exhausted \/ DeadlinePasses \/ ChannelFails \/ AckArrives \/ WriteCompletes \/ UNCHANGED vars
        PROVE  UNCHANGED storeVars
    BY <2>3 DEF Exhausted, DeadlinePasses, ChannelFails, AckArrives, WriteCompletes, vars
  <2>4. CASE UNCHANGED storeVars
    BY <2>4 DEF storeVars, RootFenced, SealedInv
  <2> QED BY <2>1, <2>2, <2>3, <2>4 DEF Next
<1> QED BY <1>1, <1>2, UsageInvariant, PTL DEF Spec

-----------------------------------------------------------------------------
(* Sums of what reads cost.                                                 *)

\* Induction on the numbers, with a set in the place of a predicate.
LEMMA CountInduction ==
    ASSUME NEW T, 0 \in T, \A n \in Nat : n \in T => n + 1 \in T
    PROVE  \A n \in Nat : n \in T
<1> SUFFICES ASSUME NEW n \in Nat, n \notin T PROVE FALSE OBVIOUS
<1> DEFINE A == T \cap (0 .. n)
           B == A \ {0}
           f == [x \in A |-> x + 1]
<1>1. IsFiniteSet(A)
  <2>1. IsFiniteSet(0 .. n) BY FS_Interval
  <2> QED BY <2>1, FS_Subset
<1>2. B \in SUBSET A /\ B # A OBVIOUS
<1>3. f \in Injection(A, B) BY DEF Injection, IsInjective
<1> HIDE DEF A, B, f
<1>4. /\ IsFiniteSet(B) /\ Cardinality(B) <= Cardinality(A)
      /\ Cardinality(A) # Cardinality(B)
    BY <1>1, <1>2, FS_Subset
<1>5. Cardinality(A) <= Cardinality(B) BY <1>3, <1>4, FS_Injection
<1> QED BY <1>1, <1>4, <1>5, FS_CardinalityType

\* What the reads of S cost, and the function of the sets of reads it recurs through.
Total(bud, S) == MapThenSumSet(LAMBDA r : bud.entries[r].bytes, S)
AnyOf(S) == CHOOSE x \in S : TRUE
Sums(bud, S, g) == g = [s \in SUBSET S |->
    IF s = {} THEN 0 ELSE bud.entries[AnyOf(s)].bytes + g[s \ {AnyOf(s)}]]
\* The same for the subsets of S with at most n elements.
SumsUpTo(bud, S, g, n) == \A s \in SUBSET S : Cardinality(s) <= n =>
    g[s] = IF s = {} THEN 0 ELSE bud.entries[AnyOf(s)].bytes + g[s \ {AnyOf(s)}]

\* An element less is one element less.
LEMMA OneLess ==
    ASSUME NEW S, IsFiniteSet(S), NEW x \in S
    PROVE  /\ IsFiniteSet(S \ {x}) /\ Cardinality(S \ {x}) \in Nat /\ Cardinality(S) \in Nat
           /\ Cardinality(S) = Cardinality(S \ {x}) + 1
<1>1. IsFiniteSet(S \ {x}) /\ Cardinality(S \ {x}) = Cardinality(S) - 1 BY FS_RemoveElement
<1> QED BY <1>1, FS_CardinalityType

\* AnyOf picks a member of the set.
LEMMA AnyIsOf == ASSUME NEW S, S # {} PROVE AnyOf(S) \in S BY DEF AnyOf

\* There is such a function.
LEMMA SumsExist ==
    ASSUME NEW bud, NEW S, IsFiniteSet(S)
    PROVE  \E g : Sums(bud, S, g)
<1> DEFINE T == {n \in Nat : \E g : SumsUpTo(bud, S, g, n)}
<1>1. 0 \in T
  <2> DEFINE g == [s \in SUBSET S |-> 0]
  <2>1. SumsUpTo(bud, S, g, 0)
    <3>1. \A s \in SUBSET S : Cardinality(s) <= 0 => s = {}
        BY FS_Subset, FS_EmptySet, FS_CardinalityType
    <3> QED BY <3>1 DEF SumsUpTo
  <2> QED BY <2>1
<1>2. ASSUME NEW n \in Nat, n \in T PROVE n + 1 \in T
  <2>1. PICK f : SumsUpTo(bud, S, f, n) BY <1>2
  <2> DEFINE g == [s \in SUBSET S |->
                IF s = {} THEN 0 ELSE bud.entries[AnyOf(s)].bytes + f[s \ {AnyOf(s)}]]
  <2>2. ASSUME NEW s \in SUBSET S, s # {}, Cardinality(s) <= n + 1
        PROVE  g[s \ {AnyOf(s)}] = f[s \ {AnyOf(s)}]
    <3> DEFINE t == s \ {AnyOf(s)}
    <3>1. AnyOf(s) \in s /\ IsFiniteSet(s) BY <2>2, AnyIsOf, FS_Subset
    <3>2. Cardinality(t) <= n /\ t \in SUBSET S BY <3>1, <2>2, OneLess
    <3>3. f[t] = IF t = {} THEN 0 ELSE bud.entries[AnyOf(t)].bytes + f[t \ {AnyOf(t)}]
        BY <2>1, <3>2 DEF SumsUpTo
    <3> QED BY <3>2, <3>3
  <2>3. SumsUpTo(bud, S, g, n + 1) BY <2>2 DEF SumsUpTo
  <2> QED BY <2>3
<1>3. Cardinality(S) \in T BY <1>1, <1>2, CountInduction, FS_CardinalityType
<1>4. PICK f : SumsUpTo(bud, S, f, Cardinality(S)) BY <1>3
<1> DEFINE g == [s \in SUBSET S |-> f[s]]
<1>5. ASSUME NEW s \in SUBSET S
      PROVE  g[s] = IF s = {} THEN 0 ELSE bud.entries[AnyOf(s)].bytes + g[s \ {AnyOf(s)}]
  <2>1. Cardinality(s) <= Cardinality(S) BY FS_Subset
  <2> QED BY <2>1, <1>4 DEF SumsUpTo
<1>6. Sums(bud, S, g) BY <1>5 DEF Sums
<1> QED BY <1>6

\* Total is the value of such a function.
LEMMA TotalSums ==
    ASSUME NEW bud, NEW S, IsFiniteSet(S)
    PROVE  \E g : Sums(bud, S, g) /\ Total(bud, S) = g[S]
<1> DEFINE g == CHOOSE g : Sums(bud, S, g)
<1>1. Sums(bud, S, g) BY SumsExist, Zenon
<1>2. Total(bud, S) = g[S] BY DEF Total, MapThenSumSet, MapThenFoldSet, Sums, AnyOf
<1> QED BY <1>1, <1>2

\* Two such functions agree.
LEMMA SumsAgree ==
    ASSUME NEW bud, NEW S, NEW R \in SUBSET S, IsFiniteSet(S),
           NEW f, NEW g, Sums(bud, S, f), Sums(bud, R, g)
    PROVE  \A s \in SUBSET R : f[s] = g[s]
<1> DEFINE T == {n \in Nat : \A s \in SUBSET R : Cardinality(s) = n => f[s] = g[s]}
<1>1. 0 \in T
  <2>1. \A s \in SUBSET R : Cardinality(s) = 0 => s = {}
      BY FS_Subset, FS_EmptySet
  <2> QED BY <2>1 DEF Sums
<1>2. ASSUME NEW n \in Nat, n \in T PROVE n + 1 \in T
  <2> SUFFICES ASSUME NEW s \in SUBSET R, Cardinality(s) = n + 1 PROVE f[s] = g[s] OBVIOUS
  <2> DEFINE t == s \ {AnyOf(s)}
  <2>1. IsFiniteSet(s) /\ s # {} BY FS_Subset, FS_EmptySet
  <2>2. Cardinality(t) = n
    <3>1. AnyOf(s) \in s BY <2>1, AnyIsOf
    <3>2. Cardinality(t) \in Nat /\ Cardinality(s) \in Nat /\ Cardinality(s) = Cardinality(t) + 1
        BY <2>1, <3>1, OneLess
    <3> HIDE DEF t
    <3> QED BY <3>2
  <2>3. f[t] = g[t] BY <2>2, <1>2
  <2>4. f[s] = bud.entries[AnyOf(s)].bytes + f[t] BY <2>1 DEF Sums
  <2>5. g[s] = bud.entries[AnyOf(s)].bytes + g[t] BY <2>1 DEF Sums
  <2> QED BY <2>3, <2>4, <2>5
<1> SUFFICES ASSUME NEW s \in SUBSET R PROVE f[s] = g[s] OBVIOUS
<1>3. Cardinality(s) \in Nat BY FS_Subset, FS_CardinalityType
<1>4. Cardinality(s) \in T BY <1>1, <1>2, <1>3, CountInduction
<1> QED BY <1>4

\* Total recurs through the sets of reads.
LEMMA TotalRecurs ==
    ASSUME NEW bud, NEW S, IsFiniteSet(S)
    PROVE  /\ S = {} => Total(bud, S) = 0
           /\ S # {} => Total(bud, S) = bud.entries[AnyOf(S)].bytes + Total(bud, S \ {AnyOf(S)})
<1>1. PICK f : Sums(bud, S, f) /\ Total(bud, S) = f[S] BY TotalSums
<1>2. CASE S = {} BY <1>1, <1>2 DEF Sums
<1>3. CASE S # {}
  <2> DEFINE R == S \ {AnyOf(S)}
  <2>1. IsFiniteSet(R) /\ R \in SUBSET S BY FS_Subset
  <2>2. PICK g : Sums(bud, R, g) /\ Total(bud, R) = g[R] BY <2>1, TotalSums
  <2>3. f[R] = g[R] BY <1>1, <2>1, <2>2, SumsAgree
  <2>4. f[S] = bud.entries[AnyOf(S)].bytes + f[R] BY <1>1, <1>3 DEF Sums
  <2> QED BY <1>1, <1>3, <2>2, <2>3, <2>4
<1> QED BY <1>2, <1>3

\* The cost of each of them is a number.
Costs(bud, S) == \A r \in S : bud.entries[r].bytes \in Nat

\* The total is a natural number.
LEMMA TotalNat ==
    ASSUME NEW bud, NEW S, IsFiniteSet(S), Costs(bud, S)
    PROVE  Total(bud, S) \in Nat
<1> DEFINE T == {n \in Nat : \A s \in SUBSET S : Cardinality(s) = n => Total(bud, s) \in Nat}
<1>1. 0 \in T
  <2>1. \A s \in SUBSET S : Cardinality(s) = 0 => IsFiniteSet(s) /\ s = {} BY FS_Subset, FS_EmptySet
  <2>2. Total(bud, {}) = 0 BY FS_EmptySet, TotalRecurs
  <2> QED BY <2>1, <2>2
<1>2. ASSUME NEW n \in Nat, n \in T PROVE n + 1 \in T
  <2> SUFFICES ASSUME NEW s \in SUBSET S, Cardinality(s) = n + 1 PROVE Total(bud, s) \in Nat OBVIOUS
  <2> DEFINE t == s \ {AnyOf(s)}
  <2>1. IsFiniteSet(s) /\ s # {} BY FS_Subset, FS_EmptySet
  <2>2. Cardinality(t) = n /\ AnyOf(s) \in s
    <3>1. AnyOf(s) \in s BY <2>1, AnyIsOf
    <3>2. Cardinality(t) \in Nat /\ Cardinality(s) \in Nat /\ Cardinality(s) = Cardinality(t) + 1
        BY <2>1, <3>1, OneLess
    <3> HIDE DEF t
    <3> QED BY <3>1, <3>2
  <2>3. Total(bud, t) \in Nat BY <2>2, <1>2
  <2>4. Total(bud, s) = bud.entries[AnyOf(s)].bytes + Total(bud, t) BY <2>1, TotalRecurs
  <2> QED BY <2>2, <2>3, <2>4 DEF Costs
<1>3. Cardinality(S) \in T BY <1>1, <1>2, CountInduction, FS_CardinalityType
<1> QED BY <1>3

\* Any read may be counted apart.
LEMMA TotalApart ==
    ASSUME NEW bud, NEW S, IsFiniteSet(S), Costs(bud, S), NEW r \in S
    PROVE  Total(bud, S) = bud.entries[r].bytes + Total(bud, S \ {r})
<1> DEFINE T == {n \in Nat : \A s \in SUBSET S : Cardinality(s) = n =>
                   \A x \in s : Total(bud, s) = bud.entries[x].bytes + Total(bud, s \ {x})}
<1>1. 0 \in T
  <2>1. \A s \in SUBSET S : Cardinality(s) = 0 => s = {} BY FS_Subset, FS_EmptySet
  <2> QED BY <2>1
<1>2. ASSUME NEW n \in Nat, n \in T PROVE n + 1 \in T
  <2> SUFFICES ASSUME NEW s \in SUBSET S, Cardinality(s) = n + 1, NEW x \in s
               PROVE Total(bud, s) = bud.entries[x].bytes + Total(bud, s \ {x})
      OBVIOUS
  <2> DEFINE a == AnyOf(s)
             t == s \ {a}
             u == s \ {x}
             v == (s \ {a}) \ {x}
  <2>1. IsFiniteSet(s) /\ a \in s BY FS_Subset, AnyIsOf
  <2>2. Total(bud, s) = bud.entries[a].bytes + Total(bud, t) BY <2>1, TotalRecurs
  <2>3. CASE x = a BY <2>2, <2>3
  <2>4. CASE x # a
    <3>1. /\ t \in SUBSET S /\ u \in SUBSET S /\ x \in t /\ a \in u /\ u \ {a} = v
        BY <2>1, <2>4
    <3>2. Cardinality(t) = n /\ Cardinality(u) = n /\ IsFiniteSet(v) BY <2>1, <3>1, OneLess, FS_Subset
    <3>3. Total(bud, t) = bud.entries[x].bytes + Total(bud, v) BY <3>1, <3>2, <1>2
    <3>4. Total(bud, u) = bud.entries[a].bytes + Total(bud, v) BY <3>1, <3>2, <1>2
    <3>5. Total(bud, v) \in Nat BY <3>2, TotalNat DEF Costs
    <3>6. bud.entries[a].bytes \in Nat /\ bud.entries[x].bytes \in Nat BY <2>1 DEF Costs
    <3> HIDE DEF a, t, u, v
    <3> QED BY <2>2, <3>3, <3>4, <3>5, <3>6 DEF u
  <2> QED BY <2>3, <2>4
<1>3. Cardinality(S) \in T BY <1>1, <1>2, CountInduction, FS_CardinalityType
<1> QED BY <1>3

\* Reads that cost the same have the same total.
LEMMA TotalSame ==
    ASSUME NEW bud, NEW b, NEW S, IsFiniteSet(S), \A r \in S : b.entries[r].bytes = bud.entries[r].bytes
    PROVE  Total(b, S) = Total(bud, S)
<1> DEFINE T == {n \in Nat : \A s \in SUBSET S : Cardinality(s) = n => Total(b, s) = Total(bud, s)}
<1>1. 0 \in T
  <2>1. \A s \in SUBSET S : Cardinality(s) = 0 => IsFiniteSet(s) /\ s = {} BY FS_Subset, FS_EmptySet
  <2> QED BY <2>1, TotalRecurs
<1>2. ASSUME NEW n \in Nat, n \in T PROVE n + 1 \in T
  <2> SUFFICES ASSUME NEW s \in SUBSET S, Cardinality(s) = n + 1 PROVE Total(b, s) = Total(bud, s) OBVIOUS
  <2> DEFINE t == s \ {AnyOf(s)}
  <2>1. IsFiniteSet(s) /\ s # {} BY FS_Subset, FS_EmptySet
  <2>2. Cardinality(t) = n /\ AnyOf(s) \in s
    <3>1. AnyOf(s) \in s BY <2>1, AnyIsOf
    <3>2. Cardinality(t) \in Nat /\ Cardinality(s) \in Nat /\ Cardinality(s) = Cardinality(t) + 1
        BY <2>1, <3>1, OneLess
    <3> HIDE DEF t
    <3> QED BY <3>1, <3>2
  <2>3. Total(b, t) = Total(bud, t) BY <2>2, <1>2
  <2>4. Total(bud, s) = bud.entries[AnyOf(s)].bytes + Total(bud, t) BY <2>1, TotalRecurs
  <2>5. Total(b, s) = b.entries[AnyOf(s)].bytes + Total(b, t) BY <2>1, TotalRecurs
  <2> QED BY <2>2, <2>3, <2>4, <2>5
<1>3. Cardinality(S) \in T BY <1>1, <1>2, CountInduction, FS_CardinalityType
<1> QED BY <1>3

-----------------------------------------------------------------------------
(* The budget: every operation on it leaves its accounts exact.             *)

EntryCost(entry) ==
    (IF entry.phase = "retained" THEN Retained ELSE Scratch + Retained)
    + (IF entry.delivery THEN Copy ELSE 0)

\* What an entry of the budget costs follows from how far its read is.  Work that may
\* run has the only capture slot.
EntryOK(entry, capture, r) ==
    /\ entry.bytes = EntryCost(entry)
    /\ entry.phase = "retained" => entry.references = 1
    /\ entry.phase # "retained" => ~entry.delivery /\ capture = r
EntriesOK(bud) == \A r \in Charged(bud) : EntryOK(bud.entries[r], bud.capture, r)
BudgetInv(bud) ==
    /\ bud \in Budget /\ IsFiniteSet(Charged(bud)) /\ EntriesOK(bud)
    /\ BudgetExact(bud)

\* What read r costs.
Cost(bud, r) == IF bud.entries[r] = Nil THEN 0 ELSE bud.entries[r].bytes

\* Only the entry of r may differ.
Others(bud, b, r) == \A x \in Reads \ {r} : b.entries[x] = bud.entries[x]

\* The budget counts exactly what its entries hold, for the device and for each view.
LEMMA ExactTotals ==
    ASSUME NEW bud
    PROVE  /\ BudgetExact(bud) <=>
                 /\ bud.bytes = Total(bud, Charged(bud))
                 /\ bud.bytes <= DeviceBytes
                 /\ \A view \in Views : Total(bud, OnView(bud, view)) <= ViewBytes
                 /\ \A r \in Charged(bud) : bud.entries[r].phase # "retained" => bud.capture = r
           /\ \A view, n : Fits(bud, view, n) <=> Total(bud, OnView(bud, view)) + n <= ViewBytes
                                                  /\ bud.bytes + n <= DeviceBytes
BY DEF BudgetExact, Fits, ViewTotal, Total, Views

\* The total of a set of reads, when one of them changes.
LEMMA TotalChanges ==
    ASSUME NEW bud \in Budget, NEW b \in Budget, NEW r \in Reads, Others(bud, b, r),
           NEW S \in SUBSET Charged(bud), NEW R \in SUBSET Charged(b), IsFiniteSet(S),
           R \ {r} = S \ {r}
    PROVE  \E n \in Nat : /\ Total(bud, S) = n + (IF r \in S THEN Cost(bud, r) ELSE 0)
                          /\ Total(b, R) = n + (IF r \in R THEN Cost(b, r) ELSE 0)
                          /\ IsFiniteSet(R)
<1> DEFINE U == S \ {r}
<1>1. Costs(bud, S) /\ Costs(b, R) BY DEF Costs, Charged, Budget, Entry
<1>2. IsFiniteSet(U) /\ Costs(bud, U) BY <1>1, FS_Subset DEF Costs
<1>3. PICK n \in Nat : Total(bud, U) = n BY <1>2, TotalNat
<1>4. IsFiniteSet(R)
  <2>1. IsFiniteSet(U \cup {r}) BY <1>2, FS_AddElement
  <2> QED BY <2>1, FS_Subset
<1>5. Total(b, U) = Total(bud, U)
  <2>1. \A x \in U : b.entries[x].bytes = bud.entries[x].bytes BY DEF Others, Charged
  <2> QED BY <1>2, <2>1, TotalSame
<1>6. Total(bud, S) = n + (IF r \in S THEN Cost(bud, r) ELSE 0)
  <2>1. CASE r \in S
    <3>1. Total(bud, S) = bud.entries[r].bytes + Total(bud, U) BY <1>1, <2>1, TotalApart
    <3>2. bud.entries[r].bytes = Cost(bud, r) /\ Cost(bud, r) \in Nat BY <1>1, <2>1 DEF Cost, Costs, Charged
    <3> QED BY <1>3, <2>1, <3>1, <3>2
  <2>2. CASE r \notin S
    <3>1. U = S BY <2>2
    <3> QED BY <1>3, <2>2, <3>1
  <2> QED BY <2>1, <2>2
<1>7. Total(b, R) = n + (IF r \in R THEN Cost(b, r) ELSE 0)
  <2>1. CASE r \in R
    <3>1. Total(b, R) = b.entries[r].bytes + Total(b, R \ {r}) BY <1>1, <1>4, <2>1, TotalApart
    <3>2. b.entries[r].bytes = Cost(b, r) /\ Cost(b, r) \in Nat BY <1>1, <2>1 DEF Cost, Costs, Charged
    <3>3. R \ {r} = U OBVIOUS
    <3> QED BY <1>3, <1>5, <2>1, <3>1, <3>2, <3>3
  <2>2. CASE r \notin R
    <3>1. U = R BY <2>2
    <3> QED BY <1>3, <1>5, <2>2, <3>1
  <2> QED BY <2>1, <2>2
<1> QED BY <1>3, <1>4, <1>6, <1>7

\* An operation on the entry of r that charges at most n more, which fit, keeps the
\* accounts exact.
LEMMA BudgetChanges ==
    ASSUME NEW bud, BudgetInv(bud), NEW b \in Budget, NEW r \in Reads, Others(bud, b, r),
           NEW n \in Nat, Cost(b, r) <= Cost(bud, r) + n,
           b.bytes + Cost(bud, r) = bud.bytes + Cost(b, r),
           r \in Charged(b) =>
               /\ EntryOK(b.entries[r], b.capture, r)
               /\ r \in Charged(bud) => b.entries[r].view = bud.entries[r].view
               /\ r \notin Charged(bud) \/ n > 0 => Fits(bud, b.entries[r].view, n),
           \A x \in Charged(bud) \ {r} :
               bud.entries[x].phase # "retained" => b.capture = bud.capture
    PROVE  BudgetInv(b)
<1> DEFINE S == Charged(bud)  R == Charged(b)
<1>0. bud \in Budget /\ IsFiniteSet(S) /\ EntriesOK(bud) /\ BudgetExact(bud) BY DEF BudgetInv
<1>1. R \ {r} = S \ {r} /\ \A v : OnView(b, v) \ {r} = OnView(bud, v) \ {r}
    BY DEF Charged, Others, OnView
<1>2. \A x \in R : EntryOK(b.entries[x], b.capture, x)
    BY <1>0, <1>1 DEF EntriesOK, EntryOK, Others, Charged, EntryCost
<1>3. Cost(b, r) \in Nat /\ Cost(bud, r) \in Nat BY <1>0 DEF Cost, Budget, Entry
<1>4. bud.bytes \in Nat /\ b.bytes \in Nat BY <1>0 DEF Budget
<1>5. IsFiniteSet(R) /\ b.bytes = Total(b, R)
  <2>1. PICK m \in Nat : /\ Total(bud, S) = m + (IF r \in S THEN Cost(bud, r) ELSE 0)
                         /\ Total(b, R) = m + (IF r \in R THEN Cost(b, r) ELSE 0)
                         /\ IsFiniteSet(R)
      BY <1>0, <1>1, TotalChanges
  <2>2. (r \notin S => Cost(bud, r) = 0) /\ (r \notin R => Cost(b, r) = 0) BY DEF Cost, Charged
  <2>3. bud.bytes = Total(bud, S) BY <1>0, ExactTotals
  <2> HIDE DEF S, R
  <2> QED BY <1>3, <1>4, <2>1, <2>2, <2>3
<1>6. b.bytes <= DeviceBytes
  <2>1. bud.bytes <= DeviceBytes BY <1>0, ExactTotals
  <2>2. Fits(bud, b.entries[r].view, n) => bud.bytes + n <= DeviceBytes BY ExactTotals
  <2>3. r \notin R => Cost(b, r) = 0 BY DEF Cost, Charged
  <2>4. DeviceBytes \in Nat BY BudgetAssumption
  <2> HIDE DEF R
  <2> QED BY <1>3, <1>4, <2>1, <2>2, <2>3, <2>4 DEF R
<1>7. ASSUME NEW view \in Views PROVE Total(b, OnView(b, view)) <= ViewBytes
  <2> DEFINE V == OnView(bud, view)  W == OnView(b, view)
  <2>0. V \in SUBSET S /\ W \in SUBSET R /\ IsFiniteSet(V) BY <1>0, FS_Subset DEF OnView
  <2>1. PICK m \in Nat : /\ Total(bud, V) = m + (IF r \in V THEN Cost(bud, r) ELSE 0)
                         /\ Total(b, W) = m + (IF r \in W THEN Cost(b, r) ELSE 0)
      BY <1>0, <1>1, <2>0, TotalChanges
  <2>2. Total(bud, V) <= ViewBytes BY <1>0, ExactTotals
  <2>3. ViewBytes \in Nat BY BudgetAssumption
  <2>4. r \in W => /\ r \in R /\ b.entries[r].view = view
                   /\ r \in S => r \in V
      BY DEF OnView
  <2>5. Fits(bud, view, n) => Total(bud, V) + n <= ViewBytes BY ExactTotals
  <2>6. r \notin S => r \notin V /\ Cost(bud, r) = 0 BY <2>0 DEF Cost, Charged
  <2>7. CASE r \notin W BY <1>3, <2>1, <2>2, <2>3, <2>7
  <2>8. CASE r \in W
    <3>1. Total(bud, V) = m + Cost(bud, r) BY <2>1, <2>4, <2>6, <2>8
    <3>2. Total(b, W) = m + Cost(b, r) BY <2>1, <2>8
    <3>3. n = 0 \/ Total(bud, V) + n <= ViewBytes BY <2>4, <2>5, <2>8
    <3> HIDE DEF V, W
    <3> QED BY <1>3, <2>2, <2>3, <3>1, <3>2, <3>3 DEF W
  <2> QED BY <2>7, <2>8
<1>8. BudgetExact(b) BY <1>2, <1>5, <1>6, <1>7, ExactTotals DEF EntryOK
<1> QED BY <1>2, <1>5, <1>8 DEF BudgetInv, EntriesOK

\* What the invariant says of an entry that is charged.
LEMMA EntryFacts ==
    ASSUME NEW bud, BudgetInv(bud), NEW r \in Charged(bud)
    PROVE  /\ bud \in Budget /\ r \in Reads /\ bud.entries[r] \in Entry /\ bud.entries[r] # Nil
           /\ EntryOK(bud.entries[r], bud.capture, r)
           /\ Cost(bud, r) = bud.entries[r].bytes /\ Cost(bud, r) \in Nat /\ Cost(bud, r) <= bud.bytes
<1>1. bud \in Budget /\ IsFiniteSet(Charged(bud)) /\ BudgetExact(bud) BY DEF BudgetInv
<1>2. /\ r \in Reads /\ bud.entries[r] \in Entry /\ bud.entries[r] # Nil
      /\ EntryOK(bud.entries[r], bud.capture, r)
    BY <1>1 DEF BudgetInv, Charged, Budget, EntriesOK
<1>3. Cost(bud, r) = bud.entries[r].bytes /\ Cost(bud, r) \in Nat BY <1>2 DEF Cost, Entry
<1>4. Costs(bud, Charged(bud)) BY <1>1 DEF Costs, Charged, Budget, Entry
<1>5. Total(bud, Charged(bud)) = bud.entries[r].bytes + Total(bud, Charged(bud) \ {r})
    BY <1>1, <1>4, TotalApart
<1>6. Total(bud, Charged(bud) \ {r}) \in Nat
  <2>1. IsFiniteSet(Charged(bud) \ {r}) BY <1>1, FS_Subset
  <2> QED BY <1>4, <2>1, TotalNat DEF Costs
<1>7. Cost(bud, r) <= bud.bytes
  <2>1. bud.bytes = Total(bud, Charged(bud)) BY <1>1, ExactTotals
  <2> QED BY <1>3, <1>5, <1>6, <2>1
<1> QED BY <1>1, <1>2, <1>3, <1>7

\* The constants are numbers.
LEMMA Units ==
    /\ Scratch \in Nat /\ Retained \in Nat /\ Retained > 0 /\ Copy \in Nat
    /\ DeviceBytes \in Nat /\ ViewBytes \in Nat
BY BudgetAssumption

\* reserve: a new entry is charged its bound, within the limits.
LEMMA ReserveKeeps ==
    ASSUME NEW bud, BudgetInv(bud), NEW r \in Reads, r \notin Charged(bud), NEW view \in Views,
           MayReserve(bud, view)
    PROVE  LET b == Reserve(bud, r, view) IN
           /\ BudgetInv(b) /\ Others(bud, b, r) /\ Charged(b) = Charged(bud) \cup {r}
           /\ b.entries[r].phase = "running" /\ b.entries[r].view = view /\ ~b.entries[r].delivery
<1> DEFINE n == Scratch + Retained
           e == [view |-> view, phase |-> "running", bytes |-> n,
                 references |-> 0, invalidated |-> FALSE, delivery |-> FALSE]
           b == Reserve(bud, r, view)
<1>1. bud \in Budget /\ EntriesOK(bud) BY DEF BudgetInv
<1>2. n \in Nat /\ bud.bytes + Scratch + Retained \in Nat /\ bud.bytes \in Nat
    BY <1>1, Units DEF Budget
<1>3. e \in Entry /\ e # Nil
  <2>1. e \in Entry BY <1>2 DEF Entry, Views
  <2> QED BY <2>1, BudgetAssumption
<1>4. b.entries = [bud.entries EXCEPT ![r] = e] /\ b.capture = r /\ b.bytes = bud.bytes + Scratch + Retained
    BY DEF Reserve
<1>5. b \in Budget BY <1>1, <1>2, <1>3 DEF Reserve, Budget
<1>6. b.entries[r] = e /\ Others(bud, b, r) BY <1>1, <1>4 DEF Others, Budget
<1>7. Charged(b) = Charged(bud) \cup {r} BY <1>3, <1>6 DEF Charged, Others
<1>8. Cost(bud, r) = 0 /\ Cost(b, r) = n BY <1>3, <1>6 DEF Cost, Charged
<1>9. EntryOK(e, r, r) BY <1>2, Units DEF EntryOK, EntryCost
<1>10. bud.capture = Nil /\ Fits(bud, view, n) BY DEF MayReserve
<1>11. \A x \in Charged(bud) \ {r} : bud.entries[x].phase = "retained"
    BY <1>1, <1>10, BudgetAssumption DEF EntriesOK, EntryOK, Charged
<1>12. b.bytes + Cost(bud, r) = bud.bytes + Cost(b, r) BY <1>2, <1>4, <1>8, Units
<1>13. Cost(b, r) <= Cost(bud, r) + n BY <1>2, <1>8
<1>14. /\ EntryOK(b.entries[r], b.capture, r) /\ b.entries[r].view = view
       /\ b.entries[r].phase = "running" /\ ~b.entries[r].delivery
    BY <1>4, <1>6, <1>9
<1>15. Fits(bud, b.entries[r].view, n) BY <1>10, <1>14
<1> HIDE DEF b, n, e
<1>16. BudgetInv(b) BY <1>2, <1>5, <1>6, <1>11, <1>12, <1>13, <1>14, <1>15, BudgetChanges
<1> QED BY <1>6, <1>7, <1>14, <1>16 DEF b

\* remove: an entry is no longer charged.
LEMMA RemoveKeeps ==
    ASSUME NEW bud, BudgetInv(bud), NEW r \in Charged(bud)
    PROVE  LET b == Remove(bud, r) IN
           BudgetInv(b) /\ Others(bud, b, r) /\ Charged(b) = Charged(bud) \ {r}
<1> DEFINE b == Remove(bud, r)
<1>1. /\ bud \in Budget /\ r \in Reads /\ Cost(bud, r) = bud.entries[r].bytes
      /\ Cost(bud, r) \in Nat /\ Cost(bud, r) <= bud.bytes
    BY EntryFacts
<1>2. bud.bytes \in Nat BY <1>1 DEF Budget
<1>3. b.bytes = bud.bytes - Cost(bud, r) /\ b.bytes \in Nat BY <1>1, <1>2 DEF Remove
<1>4. b.entries = [bud.entries EXCEPT ![r] = Nil] BY DEF Remove
<1>5. b \in Budget BY <1>1, <1>3 DEF Remove, Budget
<1>6. b.entries[r] = Nil /\ Others(bud, b, r) BY <1>1, <1>4 DEF Others, Budget
<1>7. Charged(b) = Charged(bud) \ {r} /\ Cost(b, r) = 0 BY <1>6 DEF Charged, Others, Cost
<1>8. b.bytes + Cost(bud, r) = bud.bytes + Cost(b, r) BY <1>1, <1>2, <1>3, <1>7
<1>9. Cost(b, r) <= Cost(bud, r) + 0 BY <1>1, <1>7
<1>10. \A x \in Charged(bud) \ {r} : bud.entries[x].phase # "retained" => b.capture = bud.capture
  <2>1. EntriesOK(bud) BY DEF BudgetInv
  <2> QED BY <2>1 DEF Remove, EntriesOK, EntryOK
<1> HIDE DEF b
<1>11. BudgetInv(b) BY <1>1, <1>5, <1>6, <1>7, <1>8, <1>9, <1>10, BudgetChanges
<1> QED BY <1>6, <1>7, <1>11 DEF b

\* An entry that stays and changes.  n: what it costs more.
LEMMA EntryChanges ==
    ASSUME NEW bud, BudgetInv(bud), NEW r \in Charged(bud), NEW b, NEW e \in Entry,
           b = [entries |-> [bud.entries EXCEPT ![r] = e], capture |-> b.capture, bytes |-> b.bytes],
           b.bytes \in Nat, b.bytes + bud.entries[r].bytes = bud.bytes + e.bytes,
           b.capture = bud.capture \/ (bud.capture = r /\ b.capture = Nil),
           e.view = bud.entries[r].view, EntryOK(e, b.capture, r),
           NEW n \in Nat, e.bytes <= bud.entries[r].bytes + n,
           n > 0 => Fits(bud, e.view, n)
    PROVE  BudgetInv(b) /\ Others(bud, b, r) /\ Charged(b) = Charged(bud) /\ b.entries[r] = e
<1>1. /\ bud \in Budget /\ r \in Reads /\ Cost(bud, r) = bud.entries[r].bytes
      /\ bud.entries[r] # Nil
    BY EntryFacts
<1>2. e # Nil BY BudgetAssumption
<1>3. b.entries = [bud.entries EXCEPT ![r] = e] OBVIOUS
<1>4. b.capture \in Reads \cup {Nil} BY <1>1 DEF Budget
<1>5. b \in Budget BY <1>1, <1>3, <1>4 DEF Budget
<1>6. b.entries[r] = e /\ Others(bud, b, r) BY <1>1, <1>3 DEF Others, Budget
<1>7. Charged(b) = Charged(bud) /\ Cost(b, r) = e.bytes BY <1>2, <1>6, <1>1 DEF Charged, Others, Cost
<1>8. EntriesOK(bud) BY DEF BudgetInv
<1>9. \A x \in Charged(bud) \ {r} : bud.entries[x].phase # "retained" => b.capture = bud.capture
    BY <1>8 DEF EntriesOK, EntryOK
<1>10. BudgetInv(b) BY <1>1, <1>5, <1>6, <1>7, <1>9, BudgetChanges
<1> QED BY <1>6, <1>7, <1>10

\* What only cancels or quarantines leaves the charges as they are.
Stays(e, f) ==
    /\ f.view = e.view /\ f.delivery = e.delivery /\ f.references = e.references /\ f.bytes = e.bytes
    /\ f.phase = "retained" <=> e.phase = "retained"
    /\ e.invalidated => f.invalidated
SameWork(bud, b) ==
    /\ b.capture = bud.capture /\ b.bytes = bud.bytes /\ Charged(b) = Charged(bud)
    /\ \A r \in Charged(bud) : Stays(bud.entries[r], b.entries[r])

\* The budget stays exact while the charges stay.
LEMMA SameWorkKeeps ==
    ASSUME NEW bud, BudgetInv(bud), NEW b \in Budget, SameWork(bud, b)
    PROVE  BudgetInv(b)
<1>1. bud \in Budget /\ IsFiniteSet(Charged(bud)) /\ EntriesOK(bud) /\ BudgetExact(bud) BY DEF BudgetInv
<1>2. EntriesOK(b) BY <1>1 DEF SameWork, Stays, EntriesOK, EntryOK, EntryCost
<1>3. Total(b, Charged(b)) = Total(bud, Charged(bud))
  <2>1. \A r \in Charged(b) : b.entries[r].bytes = bud.entries[r].bytes BY DEF SameWork, Stays
  <2> QED BY <1>1, <2>1, TotalSame DEF SameWork
<1>4. ASSUME NEW view \in Views PROVE Total(b, OnView(b, view)) <= ViewBytes
  <2>1. OnView(b, view) = OnView(bud, view) /\ OnView(b, view) \in SUBSET Charged(bud)
      BY DEF OnView, SameWork, Stays
  <2>2. IsFiniteSet(OnView(b, view)) BY <1>1, <2>1, FS_Subset
  <2>3. \A r \in OnView(b, view) : b.entries[r].bytes = bud.entries[r].bytes
      BY <2>1 DEF SameWork, Stays
  <2>4. Total(b, OnView(b, view)) = Total(bud, OnView(bud, view)) BY <2>1, <2>2, <2>3, TotalSame
  <2> QED BY <1>1, <2>4, ExactTotals
<1>5. b.bytes = Total(b, Charged(b)) /\ b.bytes <= DeviceBytes BY <1>1, <1>3, ExactTotals DEF SameWork
<1>6. BudgetExact(b) BY <1>2, <1>4, <1>5, ExactTotals DEF EntriesOK, EntryOK
<1> QED BY <1>1, <1>2, <1>6 DEF BudgetInv, SameWork

\* Two such changes are one.
LEMMA SameWorkTrans ==
    ASSUME NEW a, NEW b, NEW c, SameWork(a, b), SameWork(b, c)
    PROVE  SameWork(a, c)
BY DEF SameWork, Stays

\* Entries that change and stay.
LEMMA EntriesStay ==
    ASSUME NEW bud, BudgetInv(bud), NEW f \in [Reads -> Entry \cup {Nil}],
           \A r \in Reads : IF r \in Charged(bud) THEN f[r] \in Entry /\ Stays(bud.entries[r], f[r])
                            ELSE f[r] = Nil
    PROVE  LET b == [bud EXCEPT !.entries = f] IN
           b \in Budget /\ SameWork(bud, b) /\ b.entries = f
<1>1. bud \in Budget BY DEF BudgetInv
<1> DEFINE b == [bud EXCEPT !.entries = f]
<1>2. b.entries = f /\ b.capture = bud.capture /\ b.bytes = bud.bytes /\ b \in Budget
    BY <1>1 DEF Budget
<1>3. \A r \in Charged(bud) : f[r] # Nil BY BudgetAssumption DEF Charged
<1>4. Charged(b) = Charged(bud) BY <1>2, <1>3 DEF Charged
<1> HIDE DEF b
<1>5. \A r \in Charged(bud) : Stays(bud.entries[r], b.entries[r]) BY <1>2 DEF Charged
<1>6. SameWork(bud, b) BY <1>2, <1>4, <1>5 DEF SameWork
<1> QED BY <1>2, <1>6 DEF b

CancelledEntry(entry) ==
    [entry EXCEPT !.invalidated = TRUE, !.phase = IF @ = "running" THEN "cancel_pending" ELSE @]

\* Cancelling an entry leaves its charge.
LEMMA EntryCancels ==
    ASSUME NEW e \in Entry
    PROVE  CancelledEntry(e) \in Entry /\ Stays(e, CancelledEntry(e)) /\ CancelledEntry(e).invalidated
BY DEF CancelledEntry, Entry, Stays

\* cancel: the entries of some reads are invalidated and stay charged.
LEMMA CancelKeeps ==
    ASSUME NEW bud, BudgetInv(bud), NEW r \in Charged(bud)
    PROVE  LET b == Cancel(bud, r) IN
           /\ BudgetInv(b) /\ SameWork(bud, b) /\ Others(bud, b, r)
           /\ b.entries[r] = CancelledEntry(bud.entries[r])
<1>1. bud \in Budget /\ r \in Reads /\ bud.entries[r] \in Entry BY EntryFacts
<1> DEFINE b == Cancel(bud, r)
           f == [bud.entries EXCEPT ![r] = CancelledEntry(bud.entries[r])]
<1>2. b = [bud EXCEPT !.entries = f] BY <1>1 DEF Cancel, CancelledEntry, Budget, Entry
<1>3. f \in [Reads -> Entry \cup {Nil}] BY <1>1, EntryCancels DEF Budget
<1>4. \A x \in Reads : IF x \in Charged(bud) THEN f[x] \in Entry /\ Stays(bud.entries[x], f[x])
                       ELSE f[x] = Nil
    BY <1>1, EntryCancels DEF Budget, Charged, Stays
<1>5. f[r] = CancelledEntry(bud.entries[r]) /\ \A x \in Reads \ {r} : f[x] = bud.entries[x]
    BY <1>1 DEF Budget
<1> HIDE DEF b, f
<1>6. b \in Budget /\ SameWork(bud, b) /\ b.entries = f BY <1>2, <1>3, <1>4, EntriesStay
<1> QED BY <1>5, <1>6, SameWorkKeeps DEF Others, b

\* The drain fails: entries are quarantined and stay charged.
LEMMA DrainKeeps ==
    ASSUME NEW bud, BudgetInv(bud), NEW r \in Charged(bud)
    PROVE  LET b == UnknownDrain(bud, r) IN BudgetInv(b) /\ SameWork(bud, b) /\ Others(bud, b, r)
<1>1. bud \in Budget /\ r \in Reads /\ bud.entries[r] \in Entry BY EntryFacts
<1>2. CASE bud.entries[r].phase \in {"retained", "quarantined"}
  <2>1. UnknownDrain(bud, r) = bud BY <1>2 DEF UnknownDrain
  <2> QED BY <2>1 DEF SameWork, Stays, Others
<1>3. CASE bud.entries[r].phase \notin {"retained", "quarantined"}
  <2> DEFINE e == [bud.entries[r] EXCEPT !.phase = "quarantined", !.invalidated = TRUE]
             b == UnknownDrain(bud, r)
             f == [bud.entries EXCEPT ![r] = e]
  <2>1. e \in Entry /\ Stays(bud.entries[r], e) BY <1>1, <1>3 DEF Entry, Stays
  <2>2. b = [bud EXCEPT !.entries = f] BY <1>1, <1>3 DEF UnknownDrain, Budget, Entry
  <2>3. f \in [Reads -> Entry \cup {Nil}] BY <1>1, <2>1 DEF Budget
  <2>4. \A x \in Reads : IF x \in Charged(bud) THEN f[x] \in Entry /\ Stays(bud.entries[x], f[x])
                         ELSE f[x] = Nil
      BY <1>1, <2>1 DEF Budget, Charged, Stays
  <2>5. \A x \in Reads \ {r} : f[x] = bud.entries[x] BY <1>1 DEF Budget
  <2> HIDE DEF b, f
  <2>6. b \in Budget /\ SameWork(bud, b) /\ b.entries = f BY <2>2, <2>3, <2>4, EntriesStay
  <2> QED BY <2>5, <2>6, SameWorkKeeps DEF Others, b
<1> QED BY <1>2, <1>3

\* The work is known to have stopped: the result is retained or all is given back.
LEMMA ConfirmKeeps ==
    ASSUME NEW bud, BudgetInv(bud), NEW r \in Charged(bud), bud.entries[r].phase # "retained",
           NEW keep \in BOOLEAN, NEW live \in BOOLEAN
    PROVE  LET b == ConfirmStopped(bud, r, keep, live) IN
           /\ BudgetInv(b) /\ Others(bud, b, r)
           /\ \/ /\ Charged(b) = Charged(bud) /\ ~bud.entries[r].invalidated
                 /\ b.entries[r].phase = "retained" /\ b.entries[r].view = bud.entries[r].view
                 /\ ~b.entries[r].delivery
              \/ Charged(b) = Charged(bud) \ {r}
<1>1. /\ bud \in Budget /\ r \in Reads /\ bud.entries[r] \in Entry
      /\ EntryOK(bud.entries[r], bud.capture, r)
      /\ bud.entries[r].bytes \in Nat /\ bud.entries[r].bytes <= bud.bytes
    BY EntryFacts
<1> DEFINE keeps == keep /\ bud.entries[r].phase = "running" /\ ~bud.entries[r].invalidated /\ live
           b == ConfirmStopped(bud, r, keep, live)
<1>2. CASE keeps
  <2>1. bud.entries[r].bytes = Scratch + Retained /\ ~bud.entries[r].delivery /\ bud.capture = r
      BY <1>1, Units DEF EntryOK, EntryCost
  <2> DEFINE e == [bud.entries[r] EXCEPT !.bytes = Retained, !.phase = "retained", !.references = 1]
  <2>2. e \in Entry /\ e.bytes = Retained /\ e.phase = "retained" /\ e.view = bud.entries[r].view
        /\ e.delivery = bud.entries[r].delivery /\ e.references = 1
    <3>1. 1 \in 0 .. 1 /\ Retained \in Nat BY Units
    <3> QED BY <1>1, <3>1 DEF Entry
  <2>3. bud.bytes \in Nat BY <1>1 DEF Budget
  <2>4. /\ bud.entries[r].bytes - Scratch = Retained
        /\ bud.bytes - Scratch \in Nat
        /\ bud.bytes - Scratch + bud.entries[r].bytes = bud.bytes + Retained
        /\ Retained <= bud.entries[r].bytes + 0
      BY <1>1, <2>1, <2>3, Units
  <2>5. b = [entries |-> [bud.entries EXCEPT ![r] = e], capture |-> Nil, bytes |-> bud.bytes - Scratch]
      BY <1>1, <1>2, <2>4 DEF ConfirmStopped, Subtract, Budget, Entry
  <2>6. EntryOK(e, Nil, r) BY <2>1, <2>2, Units DEF EntryOK, EntryCost
  <2> HIDE DEF e, b
  <2>7. b.capture = Nil /\ b.bytes = bud.bytes - Scratch
        /\ b = [entries |-> [bud.entries EXCEPT ![r] = e], capture |-> b.capture, bytes |-> b.bytes]
      BY <2>5
  <2>8. BudgetInv(b) /\ Others(bud, b, r) /\ Charged(b) = Charged(bud) /\ b.entries[r] = e
      BY <2>1, <2>2, <2>4, <2>6, <2>7, EntryChanges
  <2> QED BY <1>2, <2>1, <2>2, <2>8 DEF b
<1>3. CASE ~keeps
  <2>1. b = Remove(bud, r) BY <1>3 DEF ConfirmStopped
  <2> QED BY <2>1, RemoveKeeps
<1> QED BY <1>2, <1>3

\* A lease is given back, with no copy outside.
LEMMA ReleaseKeeps ==
    ASSUME NEW bud, BudgetInv(bud), NEW r \in Charged(bud), ~bud.entries[r].delivery
    PROVE  LET b == Release(bud, r) IN
           BudgetInv(b) /\ Others(bud, b, r) /\ Charged(b) = Charged(bud) \ {r}
BY RemoveKeeps DEF Release

\* A copy is charged before it is made.
LEMMA DeliveryReserved ==
    ASSUME NEW bud, BudgetInv(bud), NEW r \in Charged(bud), bud.entries[r].phase = "retained",
           MayReserveDelivery(bud, r)
    PROVE  LET b == ReserveDelivery(bud, r) IN
           /\ BudgetInv(b) /\ Others(bud, b, r) /\ Charged(b) = Charged(bud)
           /\ b.entries[r].phase = "retained" /\ b.entries[r].view = bud.entries[r].view
           /\ b.entries[r].delivery
<1>1. /\ bud \in Budget /\ r \in Reads /\ bud.entries[r] \in Entry
      /\ EntryOK(bud.entries[r], bud.capture, r)
      /\ bud.entries[r].bytes \in Nat /\ bud.entries[r].bytes <= bud.bytes
    BY EntryFacts
<1> DEFINE b == ReserveDelivery(bud, r)
           e == [bud.entries[r] EXCEPT !.delivery = TRUE, !.bytes = bud.entries[r].bytes + Copy]
<1>2. /\ bud.bytes \in Nat /\ bud.bytes + Copy \in Nat /\ bud.entries[r].bytes + Copy \in Nat
      /\ bud.bytes + Copy + bud.entries[r].bytes = bud.bytes + (bud.entries[r].bytes + Copy)
    BY <1>1, Units DEF Budget
<1>3. /\ e \in Entry /\ e.bytes = bud.entries[r].bytes + Copy /\ e.view = bud.entries[r].view
      /\ e.delivery /\ e.phase = "retained"
    BY <1>1, <1>2 DEF Entry
<1>4. ~bud.entries[r].delivery /\ Fits(bud, bud.entries[r].view, Copy) BY DEF MayReserveDelivery
<1>5. EntryOK(e, bud.capture, r) BY <1>1, <1>3, <1>4, Units DEF EntryOK, EntryCost
<1>6. b = [entries |-> [bud.entries EXCEPT ![r] = e], capture |-> bud.capture, bytes |-> bud.bytes + Copy]
  <2> DEFINE f == [bud.entries EXCEPT ![r].delivery = TRUE, ![r].bytes = bud.entries[r].bytes + Copy]
  <2>1. b = [entries |-> f, capture |-> bud.capture, bytes |-> bud.bytes + Copy]
    <3>1. b.entries = f /\ b.capture = bud.capture /\ b.bytes = bud.bytes + Copy
        BY <1>1 DEF ReserveDelivery, Budget
    <3>2. b \in [entries : {b.entries}, capture : {b.capture}, bytes : {b.bytes}]
        BY <1>1 DEF ReserveDelivery, Budget
    <3> HIDE DEF b, f
    <3> QED BY <3>1, <3>2
  <2>2. f[r] = e BY <1>1 DEF Budget, Entry
  <2>3. f = [bud.entries EXCEPT ![r] = e] BY <1>1, <2>2 DEF Budget
  <2> QED BY <2>1, <2>3
<1> HIDE DEF e, b
<1>7. /\ b.capture = bud.capture /\ b.bytes = bud.bytes + Copy
      /\ b = [entries |-> [bud.entries EXCEPT ![r] = e], capture |-> b.capture, bytes |-> b.bytes]
    BY <1>6
<1>8. BudgetInv(b) /\ Others(bud, b, r) /\ Charged(b) = Charged(bud) /\ b.entries[r] = e
  <2>1. e.bytes <= bud.entries[r].bytes + Copy BY <1>2, <1>3
  <2> QED BY <1>2, <1>3, <1>4, <1>5, <1>7, <2>1, Units, EntryChanges
<1> QED BY <1>3, <1>8 DEF b

\* A copy is known to be gone.
LEMMA DeliveryReleased ==
    ASSUME NEW bud, BudgetInv(bud), NEW r \in Charged(bud), bud.entries[r].delivery
    PROVE  LET b == ReleaseDelivery(bud, r) IN
           /\ BudgetInv(b) /\ Others(bud, b, r) /\ Charged(b) = Charged(bud)
           /\ b.entries[r].phase = "retained" /\ b.entries[r].view = bud.entries[r].view
           /\ ~b.entries[r].delivery
<1>1. /\ bud \in Budget /\ r \in Reads /\ bud.entries[r] \in Entry
      /\ EntryOK(bud.entries[r], bud.capture, r)
      /\ bud.entries[r].bytes \in Nat /\ bud.entries[r].bytes <= bud.bytes
    BY EntryFacts
<1>2. /\ bud.entries[r].phase = "retained" /\ bud.entries[r].bytes = Retained + Copy
      /\ bud.entries[r].references = 1
    BY <1>1, Units DEF EntryOK, EntryCost
<1> DEFINE b == ReleaseDelivery(bud, r)
           e == [bud.entries[r] EXCEPT !.bytes = Retained, !.delivery = FALSE]
<1>3. bud.bytes \in Nat BY <1>1 DEF Budget
<1>4. /\ bud.entries[r].bytes - Copy = Retained /\ bud.bytes - Copy \in Nat
      /\ bud.bytes - Copy + bud.entries[r].bytes = bud.bytes + Retained
      /\ Retained <= bud.entries[r].bytes + 0
    BY <1>1, <1>2, <1>3, Units
<1>5. /\ e \in Entry /\ e.bytes = Retained /\ e.view = bud.entries[r].view
      /\ ~e.delivery /\ e.phase = "retained" /\ e.references = 1
    BY <1>1, <1>2, Units DEF Entry
<1>6. EntryOK(e, bud.capture, r) BY <1>5, Units DEF EntryOK, EntryCost
<1>7. b = [entries |-> [bud.entries EXCEPT ![r] = e], capture |-> bud.capture, bytes |-> bud.bytes - Copy]
  <2> DEFINE paid == [Subtract(bud, r, Copy) EXCEPT !.entries[r].delivery = FALSE]
  <2>1. paid = [entries |-> [bud.entries EXCEPT ![r] = e], capture |-> bud.capture, bytes |-> bud.bytes - Copy]
    <3> DEFINE f == [bud.entries EXCEPT ![r].bytes = bud.entries[r].bytes - Copy]
               g == [f EXCEPT ![r].delivery = FALSE]
    <3>1. Subtract(bud, r, Copy) = [entries |-> f, capture |-> bud.capture, bytes |-> bud.bytes - Copy]
      <4> DEFINE c == Subtract(bud, r, Copy)
      <4>1. c.entries = f /\ c.capture = bud.capture /\ c.bytes = bud.bytes - Copy
          BY <1>1 DEF Subtract, Budget
      <4>2. c \in [entries : {c.entries}, capture : {c.capture}, bytes : {c.bytes}]
          BY <1>1 DEF Subtract, Budget
      <4> HIDE DEF c, f
      <4> QED BY <4>1, <4>2 DEF c
    <3>2. paid = [entries |-> g, capture |-> bud.capture, bytes |-> bud.bytes - Copy] BY <3>1
    <3>3. g[r] = e BY <1>1, <1>4 DEF Budget, Entry
    <3>4. g = [bud.entries EXCEPT ![r] = e] BY <1>1, <3>3 DEF Budget
    <3> QED BY <3>2, <3>4
  <2>2. paid.entries[r].references = 1
    <3>1. paid.entries = [bud.entries EXCEPT ![r] = e] BY <2>1
    <3> HIDE DEF paid, e
    <3> QED BY <1>1, <1>5, <3>1 DEF Budget
  <2> QED BY <2>1, <2>2 DEF ReleaseDelivery
<1> HIDE DEF e, b
<1>8. /\ b.capture = bud.capture /\ b.bytes = bud.bytes - Copy
      /\ b = [entries |-> [bud.entries EXCEPT ![r] = e], capture |-> b.capture, bytes |-> b.bytes]
    BY <1>7
<1>9. BudgetInv(b) /\ Others(bud, b, r) /\ Charged(b) = Charged(bud) /\ b.entries[r] = e
    BY <1>4, <1>5, <1>6, <1>8, EntryChanges
<1> QED BY <1>5, <1>9 DEF b

-----------------------------------------------------------------------------
(* The registry of enrollments, over the budget.                            *)

\* Enrollment e was granted, and what it asks for is settled for ever.
Granted(ts, e) == e \in Enrolls /\ ts[e] \in Terms /\ ts[e].epoch > 0

\* An enrollment that is live is the grant of its channel, those of E aside, and a
\* binding is in one enrollment only, until its view is disposed of.
RegistryBut(s, ts, E) ==
    /\ s \in Broker /\ s.live \subseteq s.records
    /\ \A e \in s.records : Granted(ts, e)
    /\ ~s.enabled => s.live \subseteq E
    /\ \A e \in s.live \ E : s.chan[ts[e].ch].grant = e
    /\ \A ch \in Channels : s.chan[ch].grant # Nil =>
           Granted(ts, s.chan[ch].grant) /\ ts[s.chan[ch].grant].ch = ch
    /\ \A e, g \in s.records : \A b \in ts[e].views \cap ts[g].views :
           e = g \/ <<e, b>> \in s.disposed \/ <<g, b>> \in s.disposed
RegistryInv(s, ts) == RegistryBut(s, ts, {})

\* A read that is charged is attached to its view, and a revoked enrollment is kept,
\* those of E aside, for such a read.
AccountBut(s, js, E) ==
    /\ BudgetInv(s.budget) /\ s.attached = Charged(s.budget)
    /\ \A r \in s.attached : s.budget.entries[r].view = js[r].view
    /\ \A e \in (s.records \ s.live) \ E : \E r \in s.attached : js[r].view[1] = e
AccountInv(s, js) == AccountBut(s, js, {})

\* What revoking, fencing and retiring may do to the broker.
Later(s, t) ==
    /\ t.attached = s.attached /\ SameWork(s.budget, t.budget)
    /\ t.live \subseteq s.live /\ t.records \subseteq s.records /\ s.fenced \subseteq t.fenced
    /\ \A ch \in Channels : /\ t.chan[ch].life \in {s.chan[ch].life, "retired"}
                            /\ t.chan[ch].grant \in {s.chan[ch].grant, Nil}

\* Nothing happened.
LEMMA LaterSelf == ASSUME NEW s PROVE Later(s, s)
BY DEF Later, SameWork, Stays

\* Later is transitive.
LEMMA LaterTrans == ASSUME NEW s, NEW t, NEW u, Later(s, t), Later(t, u) PROVE Later(s, u)
<1>1. SameWork(s.budget, u.budget) BY SameWorkTrans DEF Later
<1> QED BY <1>1 DEF Later

\* What is true of the broker between two steps of a call.
Good(s, ts, js) == RegistryInv(s, ts) /\ AccountInv(s, js)
\* A call took it from s to t.
Goes(s, t) == Good(t, terms, jobs) /\ Later(s, t)

\* The broker's parts have their types.
LEMMA BrokerFields ==
    ASSUME NEW s \in Broker
    PROVE  /\ s.enabled \in BOOLEAN /\ s.chan \in [Channels -> Channel] /\ s.fenced \subseteq Requests
           /\ s.records \subseteq Enrolls /\ s.live \subseteq Enrolls /\ s.attached \subseteq Reads
           /\ s.disposed \subseteq Views /\ s.budget \in Budget
BY DEF Broker

\* Channels that lose their grant, while the enrollments of E are about to be revoked.
LEMMA RegistryMoves ==
    ASSUME NEW s, NEW ts, NEW E, RegistryInv(s, ts), NEW t \in Broker,
           t.live = s.live, t.records = s.records, t.disposed = s.disposed,
           t.enabled = s.enabled \/ s.live \subseteq E,
           \A ch \in Channels : t.chan[ch].grant \in {s.chan[ch].grant, Nil},
           \A e \in s.live \ E : t.chan[ts[e].ch].grant = s.chan[ts[e].ch].grant
    PROVE  RegistryBut(t, ts, E)
BY DEF RegistryInv, RegistryBut

\* The same for the accounts, which channels do not touch.
LEMMA AccountMoves ==
    ASSUME NEW s, NEW js, NEW E, AccountBut(s, js, E), NEW t,
           t.live = s.live, t.records = s.records, t.attached = s.attached, t.budget = s.budget
    PROVE  AccountBut(t, js, E)
BY DEF AccountBut

\* Enrollments are asked for and granted, which leaves those granted as they are.
LEMMA RegistryTerms ==
    ASSUME NEW s, NEW ts, NEW us, RegistryInv(s, ts), \A e : Granted(ts, e) => us[e] = ts[e]
    PROVE  RegistryInv(s, us)
BY DEF RegistryInv, RegistryBut, Granted

\* The account only depends on the views of the reads that are attached.
LEMMA AccountJobs ==
    ASSUME NEW s, NEW js, NEW ks, AccountInv(s, js), \A r \in s.attached : ks[r].view = js[r].view
    PROVE  AccountInv(s, ks)
BY DEF AccountInv, AccountBut

\* collect: after it every revoked enrollment that is kept has a read attached.
LEMMA CollectKeeps ==
    ASSUME NEW s, NEW E, NEW D, RegistryBut(s, terms, D), AccountBut(s, jobs, E)
    PROVE  LET t == Collect(s, E) IN
           /\ RegistryBut(t, terms, D) /\ AccountInv(t, jobs) /\ Later(s, t)
           /\ t.chan = s.chan /\ t.live = s.live /\ t.enabled = s.enabled /\ t.fenced = s.fenced
<1> DEFINE due == {view \in UNION {ViewsOf(e) : e \in (E \cap s.records) \ s.live} :
                      /\ OnView(s.budget, view) = {}
                      /\ \A r \in s.attached : jobs[r].view # view}
           gone == s.disposed \cup due
           kept == {e \in s.records : e \in s.live \/ e \notin E \/ ~(ViewsOf(e) \subseteq gone)}
           t == Collect(s, E)
<1>1. s \in Broker BY DEF RegistryBut
<1>2. t = [s EXCEPT !.disposed = gone, !.records = kept] BY DEF Collect
<1>3. /\ t.disposed = gone /\ t.records = kept /\ t.chan = s.chan /\ t.live = s.live
      /\ t.enabled = s.enabled /\ t.fenced = s.fenced /\ t.attached = s.attached /\ t.budget = s.budget
    BY <1>1, <1>2 DEF Broker
<1>4. due \subseteq Views
  <2>1. \A e \in s.records : terms[e] \in Terms /\ e \in Enrolls
      BY DEF RegistryBut, Granted
  <2> QED BY <2>1 DEF ViewsOf, Views, Terms
<1>5. t \in Broker
  <2>1. gone \subseteq Views /\ kept \subseteq Enrolls BY <1>1, <1>4, BrokerFields
  <2> HIDE DEF gone, kept
  <2> QED BY <1>1, <1>2, <2>1 DEF Broker
<1>6. kept \subseteq s.records /\ s.disposed \subseteq gone OBVIOUS
<1>7. ASSUME NEW e \in kept \ s.live PROVE \E r \in s.attached : jobs[r].view[1] = e
  <2>1. CASE e \notin E BY <1>7, <2>1 DEF AccountBut
  <2>2. CASE e \in E
    <3>1. PICK view \in ViewsOf(e) : view \notin gone BY <1>7, <2>2
    <3>2. view \notin due /\ view \in UNION {ViewsOf(g) : g \in (E \cap s.records) \ s.live}
        BY <1>7, <2>2, <3>1
    <3>3. \E r \in s.attached : jobs[r].view = view
        BY <3>2 DEF OnView, AccountBut
    <3>4. view[1] = e BY <3>1 DEF ViewsOf
    <3> QED BY <3>3, <3>4
  <2> QED BY <2>1, <2>2
<1> HIDE DEF t, due, gone, kept
<1>8. s.live \subseteq kept BY DEF RegistryBut, kept
<1>9. RegistryBut(t, terms, D) BY <1>3, <1>5, <1>6, <1>8 DEF RegistryBut
<1>10. AccountInv(t, jobs) BY <1>3, <1>7 DEF AccountBut, AccountInv
<1>11. Later(s, t) BY <1>3, <1>6 DEF Later, SameWork, Stays
<1> QED BY <1>3, <1>9, <1>10, <1>11 DEF t

\* revoke: the enrollments of E are no longer live, and their reads are invalidated.
LEMMA RevokeKeeps ==
    ASSUME NEW s, NEW E, RegistryBut(s, terms, E), AccountInv(s, jobs)
    PROVE  LET t == Revoke(s, E) IN
           /\ RegistryInv(t, terms) /\ AccountInv(t, jobs) /\ Later(s, t)
           /\ t.chan = s.chan /\ t.live = s.live \ E /\ t.enabled = s.enabled /\ t.fenced = s.fenced
<1> DEFINE ended == E \cap s.live
           hit == {r \in Charged(s.budget) : s.budget.entries[r].view[1] \in ended}
           f == [r \in Reads |-> IF r \in hit THEN Cancel(s.budget, r).entries[r] ELSE s.budget.entries[r]]
           cancelled == [s.budget EXCEPT !.entries = f]
           u == [s EXCEPT !.live = s.live \ ended, !.budget = cancelled]
<1>1. s \in Broker /\ BudgetInv(s.budget) /\ s.budget \in Budget
    BY BrokerFields DEF RegistryBut, AccountInv, AccountBut
<1>2. \A r \in Charged(s.budget) : /\ s.budget.entries[r] \in Entry
                                   /\ Cancel(s.budget, r).entries[r] = CancelledEntry(s.budget.entries[r])
    BY <1>1, EntryFacts, CancelKeeps
<1>3. \A r \in Reads : IF r \in Charged(s.budget) THEN f[r] \in Entry /\ Stays(s.budget.entries[r], f[r])
                       ELSE f[r] = Nil
  <2>1. \A r \in Charged(s.budget) : Stays(s.budget.entries[r], s.budget.entries[r]) BY DEF Stays
  <2>2. \A r \in hit : f[r] = CancelledEntry(s.budget.entries[r]) BY <1>2 DEF Charged
  <2>3. \A r \in Reads \ hit : f[r] = s.budget.entries[r] OBVIOUS
  <2>4. hit \subseteq Charged(s.budget) OBVIOUS
  <2> HIDE DEF f, hit
  <2> QED BY <1>2, <2>1, <2>2, <2>3, <2>4, EntryCancels DEF Charged
<1>4. f \in [Reads -> Entry \cup {Nil}] BY <1>3
<1> HIDE DEF f, hit
<1>5. cancelled \in Budget /\ SameWork(s.budget, cancelled) BY <1>1, <1>3, <1>4, EntriesStay
<1>6. BudgetInv(cancelled) BY <1>1, <1>5, SameWorkKeeps
<1> HIDE DEF cancelled
<1>7. /\ u.live = s.live \ ended /\ u.budget = cancelled /\ u.chan = s.chan /\ u.records = s.records
      /\ u.enabled = s.enabled /\ u.fenced = s.fenced /\ u.attached = s.attached
      /\ u.disposed = s.disposed /\ u \in Broker
    BY <1>1, <1>5 DEF Broker
<1>8. Revoke(s, E) = Collect(u, ended) BY DEF Revoke, u, cancelled, f, hit
<1>9. ended = E \cap s.live OBVIOUS
<1> HIDE DEF u, ended
<1>10. RegistryInv(u, terms) BY <1>7, <1>9 DEF RegistryBut, RegistryInv
<1>11. AccountBut(u, jobs, ended)
  <2>1. Charged(cancelled) = Charged(s.budget) /\ s.attached = Charged(s.budget)
      BY <1>5 DEF SameWork, AccountInv, AccountBut
  <2>2. \A r \in s.attached : cancelled.entries[r].view = jobs[r].view
      BY <1>5, <2>1 DEF SameWork, Stays, AccountInv, AccountBut
  <2>3. \A e \in (u.records \ u.live) \ ended : \E r \in u.attached : jobs[r].view[1] = e
      BY <1>7 DEF AccountInv, AccountBut
  <2> QED BY <1>6, <1>7, <2>1, <2>2, <2>3 DEF AccountBut
<1>12. Later(s, u) BY <1>5, <1>7 DEF Later
<1>13. LET t == Collect(u, ended) IN
       /\ RegistryInv(t, terms) /\ AccountInv(t, jobs) /\ Later(u, t)
       /\ t.chan = u.chan /\ t.live = u.live /\ t.enabled = u.enabled /\ t.fenced = u.fenced
    BY <1>10, <1>11, CollectKeeps DEF RegistryInv
<1>14. u.live = s.live \ E BY <1>7, <1>9
<1>15. Later(s, Collect(u, ended)) BY <1>12, <1>13, LaterTrans
<1> QED BY <1>7, <1>8, <1>13, <1>14, <1>15

\* What stays over two changes stays over both.
LEMMA GoesOn == ASSUME NEW s, NEW t, NEW u, Goes(s, t), Goes(t, u) PROVE Goes(s, u)
BY LaterTrans DEF Goes

\* No change is a change of that kind.
LEMMA GoesNowhere == ASSUME NEW s, Good(s, terms, jobs) PROVE Goes(s, s)
BY LaterSelf DEF Goes

\* The parts of a good broker.
LEMMA GoodFields ==
    ASSUME NEW s, Good(s, terms, jobs)
    PROVE  /\ s \in Broker /\ s.enabled \in BOOLEAN /\ s.chan \in [Channels -> Channel]
           /\ s.fenced \subseteq Requests /\ s.records \subseteq Enrolls /\ s.live \subseteq Enrolls
           /\ s.attached \subseteq Reads /\ s.disposed \subseteq Views /\ s.budget \in Budget
BY BrokerFields DEF Good, RegistryInv, RegistryBut

\* Revoking what stands of E.
LEMMA RevokeGoes ==
    ASSUME NEW s, NEW E, Good(s, terms, jobs)
    PROVE  LET t == Revoke(s, E) IN
           /\ Goes(s, t) /\ t.chan = s.chan /\ t.live = s.live \ E
           /\ t.enabled = s.enabled /\ t.fenced = s.fenced
<1>1. RegistryBut(s, terms, E) BY DEF Good, RegistryInv, RegistryBut
<1> QED BY <1>1, RevokeKeeps DEF Goes, Good

\* Revoking the enrollments of E once their channels lost their grants.
LEMMA RevokeMoves ==
    ASSUME NEW s, NEW t, NEW E, Good(s, terms, jobs), t \in Broker,
           t.live = s.live, t.records = s.records, t.disposed = s.disposed,
           t.attached = s.attached, t.budget = s.budget, s.fenced \subseteq t.fenced,
           t.enabled = s.enabled \/ s.live \subseteq E,
           \A ch \in Channels : /\ t.chan[ch].grant \in {s.chan[ch].grant, Nil}
                                /\ t.chan[ch].life \in {s.chan[ch].life, "retired"},
           \A e \in s.live \ E : t.chan[terms[e].ch].grant = s.chan[terms[e].ch].grant
    PROVE  LET u == Revoke(t, E) IN
           /\ Goes(s, u) /\ u.chan = t.chan /\ u.live = s.live \ E
           /\ u.enabled = t.enabled /\ u.fenced = t.fenced
<1>1. RegistryInv(s, terms) /\ AccountInv(s, jobs) BY DEF Good
<1>2. RegistryBut(t, terms, E) BY <1>1, RegistryMoves
<1>3. AccountInv(t, jobs) BY <1>1, AccountMoves DEF AccountInv
<1>4. Later(s, t) BY DEF Later, SameWork, Stays
<1>5. LET u == Revoke(t, E) IN
      /\ RegistryInv(u, terms) /\ AccountInv(u, jobs) /\ Later(t, u)
      /\ u.chan = t.chan /\ u.live = t.live \ E /\ u.enabled = t.enabled /\ u.fenced = t.fenced
    BY <1>2, <1>3, RevokeKeeps
<1>6. Later(s, Revoke(t, E)) BY <1>4, <1>5, LaterTrans
<1> QED BY <1>5, <1>6 DEF Goes, Good

\* Anything else that happens to channels and fences while all grants stand.
LEMMA ChannelsMove ==
    ASSUME NEW s, NEW t, Good(s, terms, jobs), t \in Broker,
           t.live = s.live, t.records = s.records, t.disposed = s.disposed,
           t.attached = s.attached, t.budget = s.budget, t.enabled = s.enabled,
           \A ch \in Channels : t.chan[ch].grant = s.chan[ch].grant
    PROVE  Good(t, terms, jobs)
<1>1. RegistryInv(s, terms) /\ AccountInv(s, jobs) BY DEF Good
<1>2. \A e \in s.live : terms[e].ch \in Channels
    BY <1>1 DEF RegistryInv, RegistryBut, Granted, Terms
<1>3. RegistryBut(t, terms, {})
  <2>1. \A e \in s.live \ {} : t.chan[terms[e].ch].grant = s.chan[terms[e].ch].grant BY <1>2
  <2> QED BY <1>1, <2>1, RegistryMoves
<1>4. AccountInv(t, jobs) BY <1>1, AccountMoves DEF AccountInv
<1> QED BY <1>3, <1>4 DEF Good, RegistryInv

\* sweep: enrollments that lapsed are revoked.
LEMMA SweepGoes ==
    ASSUME NEW s, Good(s, terms, jobs)
    PROVE  LET t == Sweep(s) IN
           /\ Goes(s, t) /\ t.chan = s.chan /\ t.live = s.live \ lapsed
           /\ t.enabled = s.enabled /\ t.fenced = s.fenced
BY RevokeGoes DEF Sweep

\* fenceConversations: channels of the conversations are retired.
LEMMA FenceGoes ==
    ASSUME NEW s, NEW C, Good(s, terms, jobs)
    PROVE  LET t == FenceConversations(s, C) IN
           /\ Goes(s, t) /\ Of(OpenOf(s, C)) \subseteq t.fenced /\ t.enabled = s.enabled
           /\ \A ch \in Channels : t.chan[ch].life = s.chan[ch].life
<1> DEFINE chs == OpenOf(s, C)
           E == {e \in s.records : Conversation[terms[e].ch] \in C}
           f == [ch \in Channels |-> IF ch \notin chs THEN s.chan[ch] ELSE
                   [s.chan[ch] EXCEPT !.blocked = IF s.chan[ch].epoch > s.chan[ch].blocked
                                                  THEN s.chan[ch].epoch ELSE s.chan[ch].blocked,
                                      !.enabled = FALSE, !.grant = Nil]]
           t == [s EXCEPT !.fenced = s.fenced \cup Of(chs), !.chan = f]
<1>1. s \in Broker /\ s.chan \in [Channels -> Channel] BY GoodFields
<1>2. \A ch \in Channels : /\ f[ch] \in Channel /\ f[ch].life = s.chan[ch].life
                           /\ f[ch].grant = IF ch \in chs THEN Nil ELSE s.chan[ch].grant
  <2>1. ASSUME NEW ch \in Channels, ch \in chs
        PROVE  f[ch] \in Channel /\ f[ch].life = s.chan[ch].life /\ f[ch].grant = Nil
      BY <1>1, <2>1 DEF Channel
  <2>2. ASSUME NEW ch \in Channels, ch \notin chs PROVE f[ch] = s.chan[ch] BY <2>2
  <2> HIDE DEF f, chs
  <2> QED BY <1>1, <2>1, <2>2
<1>3. f \in [Channels -> Channel] BY <1>2
<1>4. FenceConversations(s, C) = Revoke(t, E) BY DEF FenceConversations
<1> HIDE DEF f
<1>5. Of(chs) \subseteq Requests BY DEF Of
<1>6. /\ t \in Broker /\ t.live = s.live /\ t.records = s.records /\ t.disposed = s.disposed
      /\ t.attached = s.attached /\ t.budget = s.budget /\ t.fenced = s.fenced \cup Of(chs)
      /\ t.enabled = s.enabled /\ t.chan = f
    BY <1>1, <1>3, <1>5 DEF Broker
<1>7. \A e \in s.live \ E : terms[e].ch \in Channels \ chs
  <2>1. \A e \in s.live : e \in s.records /\ terms[e] \in Terms
      BY DEF Good, RegistryInv, RegistryBut, Granted
  <2> QED BY <2>1 DEF OpenOf, Terms
<1> HIDE DEF t, chs, E
<1>8. /\ Goes(s, Revoke(t, E)) /\ Revoke(t, E).chan = t.chan
      /\ Revoke(t, E).enabled = t.enabled /\ Revoke(t, E).fenced = t.fenced
    BY <1>2, <1>6, <1>7, RevokeMoves
<1> QED BY <1>2, <1>4, <1>6, <1>8 DEF chs

\* drop: the channel is retired, its grant is revoked and its requests are fenced.
LEMMA DropGoes ==
    ASSUME NEW s, NEW ch \in Channels, Good(s, terms, jobs)
    PROVE  LET t == Drop(s, ch) IN
           /\ Goes(s, t) /\ t.enabled = s.enabled /\ t.chan[ch].life = "retired"
           /\ \A d \in Channels \ {ch} : t.chan[d] = s.chan[d]
           /\ ch \in Open(s) => Of({ch}) \subseteq t.fenced
<1>1. s \in Broker /\ s.chan \in [Channels -> Channel] BY GoodFields
<1>2. CASE s.chan[ch].life = "open"
  <2> DEFINE E == {e \in s.records : terms[e].ch = ch}
             c == [s.chan[ch] EXCEPT !.life = "retired", !.enabled = FALSE, !.grant = Nil]
             t == [s EXCEPT !.chan = [s.chan EXCEPT ![ch] = c], !.fenced = s.fenced \cup Of({ch})]
  <2>1. c \in Channel /\ c.life = "retired" /\ c.grant = Nil BY <1>1 DEF Channel
  <2>2. [s EXCEPT !.chan[ch].life = "retired", !.chan[ch].enabled = FALSE, !.chan[ch].grant = Nil]
        = [s EXCEPT !.chan = [s.chan EXCEPT ![ch] = c]]
    <3> DEFINE f == [s.chan EXCEPT ![ch].life = "retired", ![ch].enabled = FALSE, ![ch].grant = Nil]
    <3>1. f[ch] = c /\ f = [s.chan EXCEPT ![ch] = c] BY <1>1 DEF Channel
    <3> HIDE DEF c, f
    <3>2. [s EXCEPT !.chan[ch].life = "retired", !.chan[ch].enabled = FALSE, !.chan[ch].grant = Nil]
          = [s EXCEPT !.chan = f]
        BY <1>1 DEF f, Broker
    <3> QED BY <3>1, <3>2
  <2>3. Drop(s, ch) = Revoke(t, E) BY <1>1, <1>2, <2>2 DEF Drop, Broker
  <2>4. Of({ch}) \subseteq Requests BY DEF Of
  <2> HIDE DEF c
  <2>5. /\ t \in Broker /\ t.live = s.live /\ t.records = s.records /\ t.disposed = s.disposed
        /\ t.attached = s.attached /\ t.budget = s.budget /\ t.fenced = s.fenced \cup Of({ch})
        /\ t.enabled = s.enabled /\ t.chan = [s.chan EXCEPT ![ch] = c]
      BY <1>1, <2>1, <2>4 DEF Broker
  <2>6. \A e \in s.live \ E : terms[e].ch \in Channels \ {ch}
    <3>1. \A e \in s.live : e \in s.records /\ terms[e] \in Terms
        BY DEF Good, RegistryInv, RegistryBut, Granted
    <3> QED BY <3>1 DEF Terms
  <2>7. t.chan[ch] = c /\ \A d \in Channels \ {ch} : t.chan[d] = s.chan[d] BY <1>1, <2>5
  <2> HIDE DEF t, E
  <2>8. \A d \in Channels : /\ t.chan[d].grant \in {s.chan[d].grant, Nil}
                            /\ t.chan[d].life \in {s.chan[d].life, "retired"}
      BY <2>1, <2>7
  <2>9. \A e \in s.live \ E : t.chan[terms[e].ch].grant = s.chan[terms[e].ch].grant
      BY <2>6, <2>7
  <2>10. /\ Goes(s, Revoke(t, E)) /\ Revoke(t, E).chan = t.chan
         /\ Revoke(t, E).enabled = t.enabled /\ Revoke(t, E).fenced = t.fenced
    <3>1. /\ t \in Broker /\ t.live = s.live /\ t.records = s.records /\ t.disposed = s.disposed
          /\ t.attached = s.attached /\ t.budget = s.budget /\ s.fenced \subseteq t.fenced
          /\ t.enabled = s.enabled
        BY <2>5
    <3> QED BY <2>8, <2>9, <3>1, RevokeMoves
  <2> QED BY <1>2, <2>1, <2>3, <2>5, <2>7, <2>10
<1>3. CASE s.chan[ch].life # "open"
  <2> DEFINE c == [s.chan[ch] EXCEPT !.life = "retired"]
             t == Drop(s, ch)
  <2>1. c \in Channel /\ c.life = "retired" /\ c.grant = s.chan[ch].grant BY <1>1 DEF Channel
  <2>2. t = [s EXCEPT !.chan = [s.chan EXCEPT ![ch] = c]] BY <1>1, <1>3 DEF Drop, Broker
  <2> HIDE DEF c
  <2>3. /\ t \in Broker /\ t.live = s.live /\ t.records = s.records /\ t.disposed = s.disposed
        /\ t.attached = s.attached /\ t.budget = s.budget /\ t.fenced = s.fenced
        /\ t.enabled = s.enabled /\ t.chan = [s.chan EXCEPT ![ch] = c]
      BY <1>1, <2>1, <2>2 DEF Broker
  <2>4. t.chan[ch] = c /\ \A d \in Channels \ {ch} : t.chan[d] = s.chan[d] BY <1>1, <2>3
  <2> HIDE DEF t
  <2>0. \A d \in Channels : t.chan[d].grant = s.chan[d].grant BY <2>1, <2>4
  <2>5. Good(t, terms, jobs) BY <2>0, <2>3, ChannelsMove
  <2>6. Later(s, t) BY <2>1, <2>3, <2>4 DEF Later, SameWork, Stays
  <2> QED BY <1>3, <2>1, <2>3, <2>4, <2>5, <2>6 DEF t, Goes, Open
<1> QED BY <1>2, <1>3

\* A channel whose connector is gone is dropped.
LEMMA TransportGoes ==
    ASSUME NEW s, NEW ch \in Channels, Good(s, terms, jobs)
    PROVE  Goes(s, TransportChecked(s, ch)) /\ TransportChecked(s, ch).enabled = s.enabled
BY DropGoes, GoesNowhere DEF TransportChecked

\* What stands after the check stood before it, and nothing else happened.
LEMMA CheckedGoes ==
    ASSUME NEW s, NEW e, NEW b, Good(s, terms, jobs)
    PROVE  LET t == Checked(s, e, b) IN
           Goes(s, t) /\ (e \in t.live => Standing(s, e, b) /\ t = s)
<1>1. CASE Standing(s, e, b) BY <1>1, GoesNowhere DEF Checked
<1>2. CASE ~Standing(s, e, b)
  <2> DEFINE x == IF e \in s.live \ lapsed /\ s.enabled /\ ~down THEN TransportChecked(s, terms[e].ch) ELSE s
  <2>1. Goes(s, x)
    <3>1. \A g \in s.live : terms[g].ch \in Channels
        BY DEF Good, RegistryInv, RegistryBut, Granted, Terms
    <3> QED BY <3>1, TransportGoes, GoesNowhere
  <2>2. Checked(s, e, b) = Revoke(x, {e}) BY <1>2 DEF Checked
  <2> HIDE DEF x
  <2>3. Goes(x, Revoke(x, {e})) /\ Revoke(x, {e}).live = x.live \ {e} BY <2>1, RevokeGoes DEF Goes
  <2> QED BY <2>1, <2>2, <2>3, GoesOn
<1> QED BY <1>1, <1>2

\* status: the enrollments of the channel that no longer stand are revoked.
LEMMA StatusedGoes ==
    ASSUME NEW s, NEW ch \in Channels, Good(s, terms, jobs)
    PROVE  Goes(s, Statused(s, ch))
<1> DEFINE swept == Sweep(s)
           fallen == {e \in swept.live : terms[e].ch = ch /\ \E b \in terms[e].views : ~Standing(swept, e, b)}
           x == IF down THEN swept ELSE TransportChecked(swept, ch)
<1>1. Goes(s, swept) BY SweepGoes
<1>2. Statused(s, ch) \in {swept, Revoke(x, fallen)} BY DEF Statused
<1> HIDE DEF swept, fallen
<1>3. Goes(swept, x) BY <1>1, TransportGoes, GoesNowhere DEF Goes
<1> HIDE DEF x
<1>4. Goes(x, Revoke(x, fallen)) BY <1>3, RevokeGoes DEF Goes
<1> QED BY <1>1, <1>2, <1>3, <1>4, GoesOn

\* The version a request was answered is noted for its channel.
Noted(s, ch, n) == [s EXCEPT !.chan[ch].epoch = n]
Enabled(s, ch) == [s EXCEPT !.chan[ch].enabled = TRUE]

\* The version that a request was answered is noted for its channel.
LEMMA NotedGoes ==
    ASSUME NEW s, NEW ch \in Channels, NEW n \in 0 .. LastEpoch, Good(s, terms, jobs)
    PROVE  Goes(s, Noted(s, ch, n))
<1>1. s \in Broker /\ s.chan \in [Channels -> Channel] BY GoodFields
<1> DEFINE c == [s.chan[ch] EXCEPT !.epoch = n]
           t == Noted(s, ch, n)
<1>2. c \in Channel /\ c.grant = s.chan[ch].grant /\ c.life = s.chan[ch].life BY <1>1 DEF Channel
<1>3. t = [s EXCEPT !.chan = [s.chan EXCEPT ![ch] = c]] BY <1>1 DEF Noted, Broker
<1> HIDE DEF c, t
<1>4. /\ t \in Broker /\ t.live = s.live /\ t.records = s.records /\ t.disposed = s.disposed
      /\ t.attached = s.attached /\ t.budget = s.budget /\ t.fenced = s.fenced
      /\ t.enabled = s.enabled /\ t.chan = [s.chan EXCEPT ![ch] = c]
    BY <1>1, <1>2, <1>3 DEF Broker
<1>5. \A d \in Channels : t.chan[d].grant = s.chan[d].grant /\ t.chan[d].life = s.chan[d].life
    BY <1>1, <1>2, <1>4
<1>6. Good(t, terms, jobs) BY <1>4, <1>5, ChannelsMove
<1>7. Later(s, t) BY <1>4, <1>5 DEF Later, SameWork, Stays
<1> QED BY <1>6, <1>7 DEF Goes, t

\* The reads of a channel are enabled.
LEMMA EnabledGoes ==
    ASSUME NEW s, NEW ch \in Channels, Good(s, terms, jobs)
    PROVE  Goes(s, Enabled(s, ch))
<1>1. s \in Broker /\ s.chan \in [Channels -> Channel] BY GoodFields
<1> DEFINE c == [s.chan[ch] EXCEPT !.enabled = TRUE]
           t == Enabled(s, ch)
<1>2. c \in Channel /\ c.grant = s.chan[ch].grant /\ c.life = s.chan[ch].life BY <1>1 DEF Channel
<1>3. t = [s EXCEPT !.chan = [s.chan EXCEPT ![ch] = c]] BY <1>1 DEF Enabled, Broker
<1> HIDE DEF c, t
<1>4. /\ t \in Broker /\ t.live = s.live /\ t.records = s.records /\ t.disposed = s.disposed
      /\ t.attached = s.attached /\ t.budget = s.budget /\ t.fenced = s.fenced
      /\ t.enabled = s.enabled /\ t.chan = [s.chan EXCEPT ![ch] = c]
    BY <1>1, <1>2, <1>3 DEF Broker
<1>5. \A d \in Channels : t.chan[d].grant = s.chan[d].grant /\ t.chan[d].life = s.chan[d].life
    BY <1>1, <1>2, <1>4
<1>6. Good(t, terms, jobs) BY <1>4, <1>5, ChannelsMove
<1>7. Later(s, t) BY <1>4, <1>5 DEF Later, SameWork, Stays
<1> QED BY <1>6, <1>7 DEF Goes, t

\* refreshReadUsage: the version is noted, and an off or a stale one fences.
LEMMA RefreshedGoes ==
    ASSUME NEW s, NEW q \in Requests, NEW expected, jobs[q].ch \in Channels, jobs[q].seen \in Version,
           Good(s, terms, jobs)
    PROVE  Goes(s, Refreshed(s, q, expected))
<1> DEFINE ch == jobs[q].ch
           noted == Noted(s, ch, jobs[q].seen.epoch)
           C == {Conversation[ch]}
<1>1. Goes(s, noted) BY NotedGoes DEF Version
<1>2. Refreshed(s, q, expected) \in {s, FenceConversations(s, C), Enabled(noted, ch), FenceConversations(noted, C)}
    BY DEF Refreshed, Noted, Enabled
<1> HIDE DEF noted, C
<1>3. Goes(s, s) /\ Goes(s, FenceConversations(s, C)) BY GoesNowhere, FenceGoes
<1>4. Goes(noted, Enabled(noted, ch)) /\ Goes(noted, FenceConversations(noted, C))
    BY <1>1, EnabledGoes, FenceGoes DEF Goes
<1> QED BY <1>1, <1>2, <1>3, <1>4, GoesOn

\* The budget did something with read r, and the registry is told.
LEMMA ReconciledGood ==
    ASSUME NEW s, NEW b, NEW r \in Reads, Good(s, terms, jobs), BudgetInv(b),
           Others(s.budget, b, r), Charged(b) \in {Charged(s.budget), Charged(s.budget) \ {r}},
           r \in Charged(b) => b.entries[r].view = s.budget.entries[r].view
    PROVE  LET t == Reconciled([s EXCEPT !.budget = b], r) IN
           /\ Good(t, terms, jobs) /\ t.budget = b /\ t.attached = Charged(b)
           /\ t.live = s.live /\ t.chan = s.chan /\ t.fenced = s.fenced /\ t.enabled = s.enabled
<1>1. /\ s \in Broker /\ s.attached = Charged(s.budget) /\ BudgetInv(s.budget)
      /\ RegistryInv(s, terms) /\ AccountInv(s, jobs)
    BY GoodFields DEF Good, AccountInv, AccountBut
<1> DEFINE a == IF r \in Charged(b) THEN s.attached ELSE s.attached \ {r}
           u == [s EXCEPT !.budget = b, !.attached = a]
           E == {jobs[r].view[1]}
<1>2. a = Charged(b) BY <1>1
<1>3. b \in Budget BY DEF BudgetInv
<1>4. Reconciled([s EXCEPT !.budget = b], r) = Collect(u, E) BY <1>1 DEF Reconciled, Broker
<1>5. /\ u \in Broker /\ u.live = s.live /\ u.records = s.records /\ u.disposed = s.disposed
      /\ u.attached = a /\ u.budget = b /\ u.fenced = s.fenced
      /\ u.enabled = s.enabled /\ u.chan = s.chan
    BY <1>1, <1>3 DEF Broker
<1>6. RegistryBut(u, terms, {}) BY <1>1, <1>5 DEF RegistryInv, RegistryBut
<1>7. AccountBut(u, jobs, E)
  <2>1. \A x \in a : b.entries[x].view = jobs[x].view
      BY <1>1, <1>2 DEF AccountInv, AccountBut, Others, Charged
  <2>2. ASSUME NEW e \in (u.records \ u.live) \ E PROVE \E x \in a : jobs[x].view[1] = e
    <3>1. PICK x \in s.attached : jobs[x].view[1] = e BY <1>1, <1>5 DEF AccountInv, AccountBut
    <3> QED BY <3>1
  <2> QED BY <1>2, <1>5, <2>1, <2>2 DEF AccountBut
<1> HIDE DEF u, a, E
<1>8. LET t == Collect(u, E) IN
      /\ RegistryBut(t, terms, {}) /\ AccountInv(t, jobs) /\ Later(u, t)
      /\ t.chan = u.chan /\ t.live = u.live /\ t.enabled = u.enabled /\ t.fenced = u.fenced
    BY <1>6, <1>7, CollectKeeps
<1>9. Collect(u, E).budget = u.budget /\ Collect(u, E).attached = u.attached
  <2>1. u \in Broker BY <1>5
  <2> QED BY <2>1 DEF Collect, Broker
<1> QED BY <1>2, <1>4, <1>5, <1>8, <1>9 DEF Good, RegistryInv

-----------------------------------------------------------------------------
(* The inductive invariant.                                                 *)

Flying(req) == req.phase \notin {"new", "over"}

\* An enrollment that waits for its version asks for something, and was not granted.
EnrollOK(ts, js, e) ==
    /\ js[e].phase \in {"new", "asking", "over"}
    /\ js[e].phase = "asking" => ts[e] \in Terms /\ ts[e].epoch = 0 /\ ts[e].ch = js[e].ch

\* A read is charged from its capture on, a lease for its result, a read that is over
\* for work alone, whose result will not be kept; only a lease has copies outside.
ChargeOK(bud, req, r) ==
    /\ r \in Charged(bud) => req.phase \in {"capturing", "checking", "leased", "over"}
    /\ r \in Charged(bud) /\ bud.entries[r].delivery => req.phase = "leased"
    /\ r \in Charged(bud) /\ req.phase = "over" =>
           bud.entries[r].phase # "retained" /\ bud.entries[r].invalidated
    /\ req.phase \in {"checking", "leased"} => r \in Charged(bud) /\ bud.entries[r].phase = "retained"

\* The view of a read is of an enrollment that was granted, from its capture on to the
\* channel of the read.
ViewOK(ts, req) ==
    /\ Flying(req) /\ req.view # Nil => Granted(ts, req.view[1])
    /\ req.phase \in {"capturing", "checking", "leased"} =>
           req.view \in Views /\ ts[req.view[1]].ch = req.ch

WorkOK(bud, wk, r) == r \in wk <=> r \in Charged(bud) /\ bud.entries[r].phase # "retained"

\* A read whose approval was withdrawn gets nothing any more.
Barred(s, dn, req, r) == Flying(req) /\ (dn \/ r \in s.fenced \/ s.chan[req.ch].life # "open")

RequestOK(s, ts, js, wk, bk, dn, q) ==
    /\ Flying(js[q]) => js[q].ch \in Channels /\ s.chan[js[q].ch].life \in {"open", "retired"}
    /\ q \in Enrolls => EnrollOK(ts, js, q)
    /\ q \in Reads => /\ ChargeOK(s.budget, js[q], q) /\ ViewOK(ts, js[q]) /\ WorkOK(s.budget, wk, q)
                      /\ q \in bk => Barred(s, dn, js[q], q)

ViewsTypes ==
    /\ usage \in [ConversationIds -> Version]
    /\ current \subseteq Bindings /\ dead \subseteq Channels /\ lapsed \subseteq Enrolls
    /\ down \in BOOLEAN
    /\ terms \in [Enrolls -> Terms \cup {Nil}]
    /\ jobs \in [Requests -> RequestJob]
    /\ replies \subseteq {"issue", "activate"} \X (Channels \ Static)
    /\ told \subseteq Channels \ Static /\ joined \subseteq Channels \ Static
    /\ working \subseteq Reads /\ broken \subseteq Reads
RequestsOK == \A q \in Requests : RequestOK(broker, terms, jobs, working, broken, down, q)
OpenJoined == \A ch \in Open(broker) \ Static : ch \in joined \/ <<"activate", ch>> \in replies
\* A configured channel is not issued.
StaticOpen == \A ch \in Static : broker.chan[ch].life \in {"open", "retired"}
ViewsInv == ViewsTypes /\ Good(broker, terms, jobs) /\ RequestsOK /\ OpenJoined /\ StaticOpen

\* A step of request q leaves the charges of the others, and what is closed stays so.
LaterBut(s, t, q) ==
    /\ \A x \in Reads \ {q} : /\ x \in Charged(t.budget) <=> x \in Charged(s.budget)
                              /\ x \in Charged(s.budget) => Stays(s.budget.entries[x], t.budget.entries[x])
    /\ s.fenced \ {q} \subseteq t.fenced
    /\ \A ch \in Channels : s.chan[ch].life \in {"open", "retired"} =>
           t.chan[ch].life \in {s.chan[ch].life, "retired"}

\* What holds for every request holds for all but one.
LEMMA LaterIsBut == ASSUME NEW s, NEW t, NEW q, Later(s, t) PROVE LaterBut(s, t, q)
BY DEF Later, LaterBut, SameWork

\* The same over two changes.
LEMMA LaterButTrans ==
    ASSUME NEW s, NEW t, NEW u, NEW q, LaterBut(s, t, q), LaterBut(t, u, q)
    PROVE  LaterBut(s, u, q)
BY DEF LaterBut, Stays

\* Leases and their copies are left alone.
LeaseStays(s, js, t, ks, x) ==
    IF js[x].phase = "leased"
    THEN ks[x].phase = "leased" /\ t.budget.entries[x].delivery = s.budget.entries[x].delivery
    ELSE x \in Charged(t.budget) => ~t.budget.entries[x].delivery
LeasesStay == \A x \in Reads : LeaseStays(broker, jobs, broker', jobs', x)

\* Enrollments that were granted stay so.
TermsStay(ts, us) == \A e : Granted(ts, e) => us[e] = ts[e]

\* A request that takes no step keeps its invariant, whatever the broker revokes.
LEMMA OthersKeep ==
    ASSUME NEW s, NEW ts, NEW js, NEW wk, NEW bk, NEW dn, NEW t, NEW us, NEW ks, NEW wl, NEW bl, NEW dm,
           NEW q, NEW x \in Requests, RequestOK(s, ts, js, wk, bk, dn, x),
           x \in Reads => x # q, LaterBut(s, t, q), ks[x] = js[x], TermsStay(ts, us),
           x \in Enrolls => us[x] = ts[x], x \in wl <=> x \in wk, dn => dm,
           x \in bl => x \in bk \/ Barred(t, dm, ks[x], x)
    PROVE  /\ RequestOK(t, us, ks, wl, bl, dm, x)
           /\ x \in Reads => LeaseStays(s, js, t, ks, x)
<1>1. x \in Enrolls => EnrollOK(us, ks, x) BY DEF RequestOK, EnrollOK
<1>2. Flying(ks[x]) => ks[x].ch \in Channels /\ t.chan[ks[x].ch].life \in {"open", "retired"}
    BY DEF RequestOK, LaterBut
<1>3. ASSUME x \in Reads
      PROVE  /\ ChargeOK(t.budget, ks[x], x) /\ ViewOK(us, ks[x]) /\ WorkOK(t.budget, wl, x)
             /\ x \in bl => Barred(t, dm, ks[x], x)
             /\ LeaseStays(s, js, t, ks, x)
  <2>1. /\ x \in Charged(t.budget) <=> x \in Charged(s.budget)
        /\ x \in Charged(s.budget) => Stays(s.budget.entries[x], t.budget.entries[x])
        /\ x \in s.fenced => x \in t.fenced
        /\ ChargeOK(s.budget, js[x], x) /\ ViewOK(ts, js[x]) /\ WorkOK(s.budget, wk, x)
        /\ x \in bk => Barred(s, dn, js[x], x)
      BY <1>3 DEF LaterBut, RequestOK
  <2>2. ChargeOK(t.budget, ks[x], x) BY <2>1 DEF ChargeOK, Stays
  <2>3. ViewOK(us, ks[x]) BY <2>1, NilAssumption DEF ViewOK, TermsStay, Granted, Flying
  <2>4. WorkOK(t.budget, wl, x) BY <2>1 DEF WorkOK, Stays
  <2>5. ASSUME x \in bk PROVE Barred(t, dm, ks[x], x)
    <3>1. /\ Barred(s, dn, js[x], x) /\ js[x].ch \in Channels
          /\ s.chan[js[x].ch].life \in {"open", "retired"}
        BY <2>1, <2>5 DEF RequestOK, Barred
    <3>2. t.chan[js[x].ch].life \in {s.chan[js[x].ch].life, "retired"} BY <3>1 DEF LaterBut
    <3> QED BY <2>1, <3>1, <3>2 DEF Barred
  <2>6. LeaseStays(s, js, t, ks, x) BY <2>1 DEF LeaseStays, ChargeOK, Stays
  <2> QED BY <2>2, <2>3, <2>4, <2>5, <2>6
<1> QED BY <1>1, <1>2, <1>3 DEF RequestOK

-----------------------------------------------------------------------------
(* Steps of the owner and of the world, in which no request moves.          *)

\* The approvals that a step withdraws bar what it adds to broken.
LEMMA StillStep ==
    ASSUME ViewsInv, Good(broker', terms, jobs), LaterBut(broker, broker', Nil), ViewsTypes', OpenJoined',
           UNCHANGED <<terms, jobs, working>>, down => down',
           \A x \in broken' : x \in broken \/ Barred(broker', down', jobs[x], x)
    PROVE  ViewsInv' /\ LeasesStay
<1>1. TermsStay(terms, terms') BY DEF TermsStay
<1>2. ASSUME NEW x \in Requests
      PROVE  /\ RequestOK(broker', terms', jobs', working', broken', down', x)
             /\ x \in Reads => LeaseStays(broker, jobs, broker', jobs', x)
  <2>1. RequestOK(broker, terms, jobs, working, broken, down, x) BY DEF ViewsInv, RequestsOK
  <2>2. x \in Reads => x # Nil BY BudgetAssumption
  <2> QED BY <1>1, <2>1, <2>2, OthersKeep
<1>3. RequestsOK' BY <1>2 DEF RequestsOK
<1>4. LeasesStay BY <1>2 DEF LeasesStay, Requests
<1>5. StaticOpen' BY ViewsAssumption DEF ViewsInv, StaticOpen, LaterBut
<1> QED BY <1>3, <1>4, <1>5 DEF ViewsInv

\* A step that only revokes, fences or retires.
LEMMA GoesStep ==
    ASSUME ViewsInv, Goes(broker, broker'), ViewsTypes', UNCHANGED <<terms, jobs, working>>,
           down => down', \A x \in broken' : x \in broken \/ Barred(broker', down', jobs[x], x),
           joined \subseteq joined', \A ch \in Open(broker') \ Static :
               <<"activate", ch>> \in replies => ch \in joined' \/ <<"activate", ch>> \in replies'
    PROVE  ViewsInv' /\ LeasesStay
<1>1. Good(broker', terms, jobs) /\ Later(broker, broker') BY DEF Goes
<1>2. LaterBut(broker, broker', Nil) BY <1>1, LaterIsBut
<1>3. OpenJoined'
  <2>1. Open(broker') \subseteq Open(broker) BY <1>1 DEF Open, Later
  <2> QED BY <2>1 DEF OpenJoined, ViewsInv
<1> QED BY <1>1, <1>2, <1>3, StillStep

\* Nothing happens to the broker.
LEMMA WorldStep ==
    ASSUME ViewsInv, UNCHANGED <<broker, terms, jobs, control, working, broken>>, ViewsTypes', down => down'
    PROVE  ViewsInv' /\ LeasesStay
<1>1. Goes(broker, broker') BY GoesNowhere DEF ViewsInv
<1> QED BY <1>1, GoesStep DEF control

\* A fence bars every read of the open channels, and nothing gets through the others.
LEMMA FencedBarred ==
    ASSUME ViewsInv, NEW chs, NEW t, NEW dn, LaterBut(broker, t, Nil),
           \A ch \in chs : ch \in Open(broker) => Of({ch}) \subseteq t.fenced \/ t.chan[ch].life # "open" \/ dn
    PROVE  \A x \in Of(chs) \cap Reads : Barred(t, dn, jobs[x], x)
<1> SUFFICES ASSUME NEW x \in Of(chs) \cap Reads PROVE Barred(t, dn, jobs[x], x) OBVIOUS
<1>1. x \in Requests /\ Flying(jobs[x]) /\ jobs[x].ch \in chs /\ x \in Of({jobs[x].ch})
    BY DEF Of, InFlight, Flying
<1>2. jobs[x].ch \in Channels /\ broker.chan[jobs[x].ch].life \in {"open", "retired"}
    BY <1>1 DEF ViewsInv, RequestsOK, RequestOK
<1>3. t.chan[jobs[x].ch].life \in {broker.chan[jobs[x].ch].life, "retired"} BY <1>2 DEF LaterBut
<1> QED BY <1>1, <1>2, <1>3 DEF Barred, Open

\* Fencing conversations bars the reads of their channels.
LEMMA FenceStep ==
    ASSUME ViewsInv, NEW C, NEW chs, NEW t, Goes(broker, t),
           \A ch \in chs \cap Open(broker) : Conversation[ch] \in C,
           Of(OpenOf(broker, C)) \subseteq t.fenced
    PROVE  \A x \in Of(chs) \cap Reads : Barred(t, down, jobs[x], x)
<1>1. LaterBut(broker, t, Nil) BY LaterIsBut DEF Goes
<1>2. ASSUME NEW ch \in chs, ch \in Open(broker) PROVE Of({ch}) \subseteq t.fenced
    BY <1>2 DEF Of, OpenOf
<1> QED BY <1>1, <1>2, FencedBarred

\* The owner asks for the reads of a conversation to be off.
LEMMA UsageAskedStep ==
    ASSUME ViewsInv, NEW c \in ConversationIds, UsageAsked(c) PROVE ViewsInv' /\ LeasesStay
<1>1. Good(broker, terms, jobs) /\ ViewsTypes BY DEF ViewsInv
<1>2. Goes(broker, broker') /\ Of(OpenOf(broker, {c})) \subseteq broker'.fenced
    BY <1>1, FenceGoes DEF UsageAsked
<1>3. \A x \in broken' : x \in broken \/ Barred(broker', down, jobs[x], x)
  <2> DEFINE chs == {ch \in Channels : Conversation[ch] = c}
  <2>1. broken' = broken \cup (Of(chs) \cap Reads) BY DEF UsageAsked, Withdraws
  <2>2. \A x \in Of(chs) \cap Reads : Barred(broker', down, jobs[x], x) BY <1>2, FenceStep
  <2> QED BY <2>1, <2>2
<1>4. ViewsTypes'
  <2>1. usage' \in [ConversationIds -> Version]
    <3>1. usage[c] \in Version /\ usage[c].epoch + 1 \in 0 .. LastEpoch
        BY <1>1, ViewsAssumption DEF ViewsTypes, UsageAsked, Version
    <3> DEFINE v == [epoch |-> usage[c].epoch + 1, on |-> FALSE]
    <3>2. v \in Version BY <3>1 DEF Version
    <3>3. usage' = [usage EXCEPT ![c] = v] BY DEF UsageAsked
    <3> QED BY <1>1, <3>2, <3>3 DEF ViewsTypes
  <2>2. broken' \subseteq Reads BY <1>1 DEF UsageAsked, Withdraws, ViewsTypes
  <2> QED BY <1>1, <2>1, <2>2 DEF ViewsTypes, UsageAsked, control
<1> QED BY <1>2, <1>3, <1>4, GoesStep DEF UsageAsked, control

\* The reads of a conversation are on again.
LEMMA UsageOnStep ==
    ASSUME ViewsInv, NEW c \in ConversationIds, UsageOn(c) PROVE ViewsInv' /\ LeasesStay
<1>1. ViewsTypes' BY DEF ViewsInv, ViewsTypes, UsageOn, Version, control
<1> QED BY <1>1, WorldStep DEF UsageOn

\* The session of a binding halts.
LEMMA HaltStep ==
    ASSUME ViewsInv, NEW b \in Bindings, SessionHalts(b) PROVE ViewsInv' /\ LeasesStay
<1>1. Good(broker, terms, jobs) /\ ViewsTypes BY DEF ViewsInv
<1> DEFINE chs == {ch \in Open(broker) : Caller[ch] = Owner[b]}
           C == {Conversation[ch] : ch \in chs}
<1>2. /\ broker' = FenceConversations(broker, C) /\ current' = current \ {b}
      /\ broken' = broken \cup (Of(chs) \cap Reads)
    BY DEF SessionHalts, Withdraws
<1>3. Goes(broker, broker') /\ Of(OpenOf(broker, C)) \subseteq broker'.fenced
    BY <1>1, <1>2, FenceGoes
<1>4. \A x \in broken' : x \in broken \/ Barred(broker', down, jobs[x], x)
  <2>1. \A ch \in chs \cap Open(broker) : Conversation[ch] \in C OBVIOUS
  <2>2. \A x \in Of(chs) \cap Reads : Barred(broker', down, jobs[x], x) BY <1>3, <2>1, FenceStep
  <2> QED BY <1>2, <2>2
<1>5. ViewsTypes' BY <1>1, <1>2 DEF ViewsTypes, SessionHalts, control
<1> QED BY <1>3, <1>4, <1>5, GoesStep DEF SessionHalts, control

\* The world changes: an approval, a window or a connection goes.
LEMMA ChangeStep ==
    ASSUME ViewsInv,
           \/ \E b \in Bindings : BindingChanges(b)
           \/ \E ch \in Channels : ConnectorDies(ch)
           \/ \E e \in Enrolls : Lapses(e)
    PROVE  ViewsInv' /\ LeasesStay
<1>1. ViewsTypes' /\ down' = down /\ UNCHANGED <<broker, terms, jobs, control, working, broken>>
  <2>1. CASE \E b \in Bindings : BindingChanges(b)
      BY <2>1 DEF ViewsInv, ViewsTypes, BindingChanges, control
  <2>2. CASE \E ch \in Channels : ConnectorDies(ch)
      BY <2>2 DEF ViewsInv, ViewsTypes, ConnectorDies, control
  <2>3. CASE \E e \in Enrolls : Lapses(e)
      BY <2>3 DEF ViewsInv, ViewsTypes, Lapses, control
  <2> QED BY <2>1, <2>2, <2>3
<1> QED BY <1>1, WorldStep

\* The owner's off for a channel.
LEMMA ViewsOffStep ==
    ASSUME ViewsInv, NEW ch \in Channels, ViewsOff(ch) PROVE ViewsInv' /\ LeasesStay
<1>1. Good(broker, terms, jobs) /\ ViewsTypes BY DEF ViewsInv
<1> DEFINE C == {Conversation[ch]}
<1>2. Goes(broker, broker') /\ Of(OpenOf(broker, C)) \subseteq broker'.fenced
    BY <1>1, FenceGoes DEF ViewsOff
<1>3. broken' = broken \cup (Of(OpenOf(broker, C)) \cap Reads) BY DEF ViewsOff, Withdraws
<1>4. \A x \in broken' : x \in broken \/ Barred(broker', down, jobs[x], x)
  <2>1. \A d \in OpenOf(broker, C) \cap Open(broker) : Conversation[d] \in C BY DEF OpenOf
  <2>2. \A x \in Of(OpenOf(broker, C)) \cap Reads : Barred(broker', down, jobs[x], x)
      BY <1>2, <2>1, FenceStep
  <2> QED BY <1>3, <2>2
<1>5. ViewsTypes' BY <1>1, <1>3 DEF ViewsTypes, ViewsOff, outside, control
<1> QED BY <1>2, <1>4, <1>5, GoesStep DEF ViewsOff, outside, control

\* The reads are switched on.
LEMMA EnableStep == ASSUME ViewsInv, SetEnabled(TRUE) PROVE ViewsInv' /\ LeasesStay
<1>1. Good(broker, terms, jobs) /\ ViewsTypes BY DEF ViewsInv
<1>2. broker \in Broker BY <1>1, GoodFields
<1>3. broker' = [broker EXCEPT !.enabled = TRUE] BY DEF SetEnabled
<1>4. /\ broker' \in Broker /\ broker'.enabled = TRUE /\ broker'.live = broker.live
      /\ broker'.records = broker.records /\ broker'.disposed = broker.disposed
      /\ broker'.attached = broker.attached /\ broker'.budget = broker.budget
      /\ broker'.chan = broker.chan /\ broker'.fenced = broker.fenced
    BY <1>2, <1>3 DEF Broker
<1>5. RegistryInv(broker', terms) BY <1>1, <1>4 DEF Good, RegistryInv, RegistryBut
<1>6. AccountInv(broker', jobs) BY <1>1, <1>4, AccountMoves DEF Good, AccountInv
<1>7. Later(broker, broker') BY <1>4 DEF Later, SameWork, Stays
<1>8. ViewsTypes' BY <1>1 DEF ViewsTypes, SetEnabled, outside, control
<1> QED BY <1>5, <1>6, <1>7, <1>8, GoesStep DEF Goes, Good, SetEnabled, outside, control

\* The reads are switched off.
LEMMA DisableStep == ASSUME ViewsInv, SetEnabled(FALSE) PROVE ViewsInv' /\ LeasesStay
<1>1. Good(broker, terms, jobs) /\ ViewsTypes BY DEF ViewsInv
<1> DEFINE s == FenceConversations(broker, ConversationIds)
           t == Revoke(s, broker.records)
<1>2. Goes(broker, s) /\ Of(OpenOf(broker, ConversationIds)) \subseteq s.fenced BY <1>1, FenceGoes
<1>3. Goes(s, t) /\ t.live = s.live \ broker.records /\ t.fenced = s.fenced BY <1>2, RevokeGoes DEF Goes
<1>4. broker' = [t EXCEPT !.enabled = FALSE] /\ broken' = broken \cup (Of(Channels) \cap Reads)
    BY DEF SetEnabled, Withdraws
<1> HIDE DEF s, t
<1>5. Goes(broker, t) /\ t \in Broker BY <1>2, <1>3, GoesOn, GoodFields DEF Goes
<1>6. t.live = {} BY <1>1, <1>2, <1>3 DEF Goes, Later, Good, RegistryInv, RegistryBut
<1>7. /\ broker' \in Broker /\ broker'.enabled = FALSE /\ broker'.live = t.live
      /\ broker'.records = t.records /\ broker'.disposed = t.disposed
      /\ broker'.attached = t.attached /\ broker'.budget = t.budget
      /\ broker'.chan = t.chan /\ broker'.fenced = t.fenced
    BY <1>4, <1>5 DEF Broker
<1>8. RegistryInv(broker', terms) BY <1>5, <1>6, <1>7 DEF Goes, Good, RegistryInv, RegistryBut
<1>9. AccountInv(broker', jobs) BY <1>5, <1>7, AccountMoves DEF Goes, Good, AccountInv
<1>10. Later(broker, broker') BY <1>5, <1>7 DEF Goes, Later, SameWork, Stays
<1>11. \A x \in broken' : x \in broken \/ Barred(broker', down, jobs[x], x)
  <2>1. Goes(broker, broker') BY <1>8, <1>9, <1>10 DEF Goes, Good
  <2>2. \A ch \in Channels \cap Open(broker) : Conversation[ch] \in ConversationIds BY ViewsAssumption
  <2>3. Of(OpenOf(broker, ConversationIds)) \subseteq broker'.fenced BY <1>2, <1>3, <1>7
  <2>4. \A x \in Of(Channels) \cap Reads : Barred(broker', down, jobs[x], x) BY <2>1, <2>2, <2>3, FenceStep
  <2> QED BY <1>4, <2>4
<1>12. ViewsTypes' BY <1>1, <1>4 DEF ViewsTypes, SetEnabled, outside, control
<1> QED BY <1>8, <1>9, <1>10, <1>11, <1>12, GoesStep DEF Goes, Good, SetEnabled, outside, control

\* A channel moves on before it is used.
LEMMA LifeMoves ==
    ASSUME ViewsInv, NEW ch \in Channels, NEW l \in {"issued", "open"},
           broker.chan[ch].life \in {"new", "issued"}, broker' = [broker EXCEPT !.chan[ch].life = l]
    PROVE  /\ Good(broker', terms, jobs) /\ LaterBut(broker, broker', Nil)
           /\ Open(broker') \subseteq Open(broker) \cup {ch} /\ broker'.chan[ch].life = l
<1>1. Good(broker, terms, jobs) BY DEF ViewsInv
<1>2. broker \in Broker /\ broker.chan \in [Channels -> Channel] BY <1>1, GoodFields
<1> DEFINE c == [broker.chan[ch] EXCEPT !.life = l]
<1>3. c \in Channel /\ c.grant = broker.chan[ch].grant /\ c.life = l BY <1>2 DEF Channel
<1>4. broker' = [broker EXCEPT !.chan = [broker.chan EXCEPT ![ch] = c]] BY <1>2 DEF Broker
<1> HIDE DEF c
<1>5. /\ broker' \in Broker /\ broker'.enabled = broker.enabled /\ broker'.live = broker.live
      /\ broker'.records = broker.records /\ broker'.disposed = broker.disposed
      /\ broker'.attached = broker.attached /\ broker'.budget = broker.budget
      /\ broker'.chan = [broker.chan EXCEPT ![ch] = c] /\ broker'.fenced = broker.fenced
    BY <1>2, <1>3, <1>4 DEF Broker
<1>6. broker'.chan[ch] = c /\ \A d \in Channels \ {ch} : broker'.chan[d] = broker.chan[d] BY <1>2, <1>5
<1>7. Good(broker', terms, jobs)
  <2>1. \A d \in Channels : broker'.chan[d].grant = broker.chan[d].grant BY <1>3, <1>6
  <2> QED BY <1>1, <1>5, <2>1, ChannelsMove
<1>8. LaterBut(broker, broker', Nil) BY <1>5, <1>6 DEF LaterBut, Stays
<1>9. Open(broker') \subseteq Open(broker) \cup {ch} BY <1>6 DEF Open
<1> QED BY <1>3, <1>6, <1>7, <1>8, <1>9

\* A channel is issued.
LEMMA IssueStep == ASSUME ViewsInv, NEW ch \in Channels, Issue(ch) PROVE ViewsInv' /\ LeasesStay
<1>1. /\ Good(broker', terms, jobs) /\ LaterBut(broker, broker', Nil)
      /\ Open(broker') \subseteq Open(broker) \cup {ch} /\ broker'.chan[ch].life = "issued"
    BY LifeMoves DEF Issue
<1>2. ViewsTypes' BY DEF ViewsInv, ViewsTypes, Issue, outside
<1>3. OpenJoined'
  <2>1. Open(broker') \subseteq Open(broker) BY <1>1 DEF Open
  <2> QED BY <2>1 DEF ViewsInv, OpenJoined, Issue
<1> QED BY <1>1, <1>2, <1>3, StillStep DEF Issue, outside

\* Retiring a channel, whatever becomes of its reply.
LEMMA DropStep ==
    ASSUME ViewsInv, NEW ch \in Channels, broker' = Drop(broker, ch), ViewsTypes',
           UNCHANGED <<outside, terms, jobs, joined, working>>,
           broken' \in {broken, broken \cup (Of({ch}) \cap Reads)},
           \A d \in Channels \ {ch} : <<"activate", d>> \in replies => <<"activate", d>> \in replies'
    PROVE  ViewsInv' /\ LeasesStay
<1>1. /\ Goes(broker, broker') /\ broker'.chan[ch].life = "retired"
      /\ ch \in Open(broker) => Of({ch}) \subseteq broker'.fenced
    BY DropGoes DEF ViewsInv
<1>2. LaterBut(broker, broker', Nil) BY <1>1, LaterIsBut DEF Goes
<1>3. \A x \in Of({ch}) \cap Reads : Barred(broker', down, jobs[x], x) BY <1>1, <1>2, FencedBarred
<1>4. ch \notin Open(broker') BY <1>1 DEF Open
<1>5. \A d \in Open(broker') \ Static : <<"activate", d>> \in replies => <<"activate", d>> \in replies'
    BY <1>4 DEF Open
<1> QED BY <1>1, <1>3, <1>5, GoesStep DEF outside

\* A channel is issued again.
LEMMA ReissueStep == ASSUME ViewsInv, NEW ch \in Channels, Reissue(ch) PROVE ViewsInv' /\ LeasesStay
<1>1. ch \notin Static BY DEF ViewsInv, StaticOpen, Reissue
<1>2. CASE ch \in dead
  <2>1. broker' = Drop(broker, ch) /\ replies' = replies BY <1>2 DEF Reissue
  <2>2. ViewsTypes' BY <2>1 DEF ViewsInv, ViewsTypes, Reissue, outside
  <2> QED BY <2>1, <2>2, DropStep DEF Reissue
<1>3. CASE ch \notin dead
  <2>1. broker' = broker /\ replies' = replies \cup {<<"issue", ch>>} BY <1>3 DEF Reissue
  <2>2. ViewsTypes' BY <1>1, <2>1 DEF ViewsInv, ViewsTypes, Reissue, outside
  <2>3. Goes(broker, broker') BY <2>1, GoesNowhere DEF ViewsInv
  <2> QED BY <2>1, <2>2, <2>3, GoesStep DEF Reissue, outside
<1> QED BY <1>2, <1>3

\* The answer to an issue arrives.
LEMMA IssueReplyStep == ASSUME ViewsInv, NEW ch \in Channels, IssueReply(ch) PROVE ViewsInv' /\ LeasesStay
<1>1. ch \notin Static BY DEF ViewsInv, ViewsTypes, IssueReply
<1>2. ViewsTypes' BY <1>1 DEF ViewsInv, ViewsTypes, IssueReply, outside
<1>3. \A d \in Channels : <<"activate", d>> \in replies => <<"activate", d>> \in replies'
    BY DEF IssueReply
<1>4. CASE broker' = Drop(broker, ch) BY <1>2, <1>3, <1>4, DropStep DEF IssueReply
<1>5. CASE broker' = broker
  <2>1. Goes(broker, broker') BY <1>5, GoesNowhere DEF ViewsInv
  <2>2. \A d \in Open(broker') \ Static : <<"activate", d>> \in replies => <<"activate", d>> \in replies'
      BY <1>3 DEF Open
  <2> QED BY <1>2, <2>1, <2>2, GoesStep DEF IssueReply, outside
<1> QED BY <1>4, <1>5 DEF IssueReply

\* A channel is activated.
LEMMA ActivateStep == ASSUME ViewsInv, NEW ch \in Channels, Activate(ch) PROVE ViewsInv' /\ LeasesStay
<1>1. ch \notin Static BY DEF ViewsInv, StaticOpen, Activate
<1>2. ViewsTypes' BY <1>1 DEF ViewsInv, ViewsTypes, Activate, outside
<1>3. CASE ch \in dead
  <2>1. broker' = Drop(broker, ch) /\ replies' = replies BY <1>3 DEF Activate
  <2> QED BY <1>2, <2>1, DropStep DEF Activate
<1>4. CASE ch \notin dead
  <2>1. /\ broker' = [broker EXCEPT !.chan[ch].life = "open"]
        /\ replies' = replies \cup {<<"activate", ch>>}
      BY <1>4 DEF Activate
  <2>2. /\ Good(broker', terms, jobs) /\ LaterBut(broker, broker', Nil)
        /\ Open(broker') \subseteq Open(broker) \cup {ch}
      BY <2>1, LifeMoves DEF Activate
  <2>3. OpenJoined' BY <2>1, <2>2 DEF ViewsInv, OpenJoined, Activate
  <2> QED BY <1>2, <2>2, <2>3, StillStep DEF Activate, outside
<1> QED BY <1>3, <1>4

\* The answer to an activation arrives.
LEMMA ActivateReplyStep ==
    ASSUME ViewsInv, NEW ch \in Channels, ActivateReply(ch) PROVE ViewsInv' /\ LeasesStay
<1>1. ch \notin Static BY DEF ViewsInv, ViewsTypes, ActivateReply
<1>2. ViewsTypes' BY <1>1 DEF ViewsInv, ViewsTypes, ActivateReply, outside
<1>3. Goes(broker, broker') BY TransportGoes DEF ActivateReply, ViewsInv
<1>4. ch \in Open(broker') => ch \in joined' BY DEF ActivateReply, Open
<1>5. joined \subseteq joined' BY DEF ActivateReply
<1>6. \A d \in Open(broker') \ Static :
          <<"activate", d>> \in replies => d \in joined' \/ <<"activate", d>> \in replies'
    BY <1>4 DEF ActivateReply
<1> QED BY <1>2, <1>3, <1>5, <1>6, GoesStep DEF ActivateReply, outside

\* A channel is revoked.
LEMMA RevokeChannelStep ==
    ASSUME ViewsInv, NEW ch \in Channels, RevokeChannel(ch) PROVE ViewsInv' /\ LeasesStay
<1>1. ViewsTypes' BY DEF ViewsInv, ViewsTypes, RevokeChannel, Withdraws, outside, control
<1> QED BY <1>1, DropStep DEF RevokeChannel, Withdraws, control

\* close: the registry is shut, and with it every channel.
LEMMA CloseStep == ASSUME ViewsInv, CloseViews PROVE ViewsInv' /\ LeasesStay
<1>1. Good(broker, terms, jobs) /\ ViewsTypes BY DEF ViewsInv
<1>2. broker \in Broker /\ broker.chan \in [Channels -> Channel] BY <1>1, GoodFields
<1> DEFINE f == [ch \in Channels |->
               IF ch \notin Static /\ broker.chan[ch].life \in {"issued", "open"}
               THEN [broker.chan[ch] EXCEPT !.life = "retired", !.enabled = FALSE, !.grant = Nil]
               ELSE broker.chan[ch]]
           s == RetireAll(broker)
           R == broker.fenced \cup Of(Open(broker) \ Static)
<1>3. \A ch \in Channels : /\ f[ch] \in Channel /\ f[ch].life \in {broker.chan[ch].life, "retired"}
                           /\ f[ch].grant \in {broker.chan[ch].grant, Nil}
    BY <1>2 DEF Channel
<1>4. f \in [Channels -> Channel] BY <1>3
<1>5. s = [broker EXCEPT !.chan = f, !.fenced = R, !.enabled = FALSE]
    BY <1>2 DEF RetireAll
<1>6. R \subseteq Requests BY <1>2 DEF Of, Broker
<1> HIDE DEF f, s, R
<1>7. /\ s \in Broker /\ s.enabled = FALSE /\ s.live = broker.live
      /\ s.records = broker.records /\ s.disposed = broker.disposed
      /\ s.attached = broker.attached /\ s.budget = broker.budget
      /\ s.chan = f /\ s.fenced = R
    BY <1>2, <1>4, <1>5, <1>6 DEF Broker
<1>8. broker.live \subseteq broker.records BY <1>1 DEF Good, RegistryInv, RegistryBut
<1>9. broker' = Revoke(s, broker.records) BY DEF CloseViews, s
<1>10. Goes(broker, broker')
  <2>1. broker.fenced \subseteq s.fenced BY <1>7 DEF R
  <2> QED BY <1>1, <1>3, <1>7, <1>8, <1>9, <2>1, RevokeMoves
<1>11. LaterBut(broker, broker', Nil) BY <1>10, LaterIsBut DEF Goes
<1>12. \A x \in Of(Channels) \cap Reads : Barred(broker', TRUE, jobs[x], x)
    BY <1>11, FencedBarred
<1>13. ViewsTypes' BY <1>1 DEF ViewsTypes, CloseViews, Withdraws, control
<1> QED BY <1>10, <1>12, <1>13, GoesStep DEF CloseViews, Withdraws, control

-----------------------------------------------------------------------------
(* Steps of a request.                                                      *)

\* Request q moves; what is said of it afterwards is all there is to show.
LEMMA MoveStep ==
    ASSUME ViewsInv, NEW q \in Requests, Good(broker', terms', jobs'), LaterBut(broker, broker', q),
           Open(broker') \subseteq Open(broker), TermsStay(terms, terms'), ViewsTypes',
           \A x \in Requests \ {q} : jobs'[x] = jobs[x],
           \A x \in Enrolls \ {q} : terms'[x] = terms[x],
           \A x \in Requests \ {q} : (x \in working' <=> x \in working) /\ (x \in broken' => x \in broken),
           UNCHANGED <<outside, joined>>,
           \A ch \in Channels : <<"activate", ch>> \in replies => <<"activate", ch>> \in replies',
           RequestOK(broker', terms', jobs', working', broken', down', q)
    PROVE  /\ ViewsInv'
           /\ q \in Enrolls \/ LeaseStays(broker, jobs, broker', jobs', q) => LeasesStay
<1>1. ASSUME NEW x \in Requests, x # q
      PROVE  /\ RequestOK(broker', terms', jobs', working', broken', down', x)
             /\ x \in Reads => LeaseStays(broker, jobs, broker', jobs', x)
  <2>1. RequestOK(broker, terms, jobs, working, broken, down, x) BY DEF ViewsInv, RequestsOK
  <2>2. /\ jobs'[x] = jobs[x] /\ x \in Enrolls => terms'[x] = terms[x]
        /\ x \in working' <=> x \in working
        /\ x \in broken' => x \in broken
        /\ down => down'
      BY <1>1 DEF outside
  <2> QED BY <1>1, <2>1, <2>2, OthersKeep
<1>2. RequestsOK' BY <1>1 DEF RequestsOK
<1>3. q \in Enrolls \/ LeaseStays(broker, jobs, broker', jobs', q) => LeasesStay
    BY <1>1, BudgetAssumption DEF LeasesStay, Requests
<1>4. StaticOpen' BY ViewsAssumption DEF ViewsInv, StaticOpen, LaterBut
<1>5. OpenJoined' BY DEF ViewsInv, OpenJoined, Open
<1> QED BY <1>2, <1>3, <1>4, <1>5 DEF ViewsInv

\* A request that was not made.
LEMMA JobIdle == Idle \in RequestJob
BY ViewsAssumption DEF Idle, Nothing, RequestJob, Version

\* Request q ends.
LEMMA EndsStep ==
    ASSUME ViewsInv, NEW q \in Requests, NEW s, Good(s, terms', jobs), LaterBut(broker, s, q),
           Open(s) \subseteq Open(broker), Ends(q, s), TermsStay(terms, terms'),
           terms' \in [Enrolls -> Terms \cup {Nil}], working' \subseteq Reads,
           \A x \in Enrolls \ {q} : terms'[x] = terms[x],
           \A x \in Requests \ {q} : x \in working' <=> x \in working,
           UNCHANGED <<outside, control>>,
           q \in Reads => (q \in working' <=> q \in Charged(s.budget)),
           q \in Reads /\ q \in Charged(s.budget) =>
               s.budget.entries[q].phase # "retained" /\ s.budget.entries[q].invalidated
    PROVE  ViewsInv' /\ (jobs[q].phase # "leased" => LeasesStay)
<1>0. ViewsTypes /\ jobs \in [Requests -> RequestJob] BY DEF ViewsInv, ViewsTypes
<1>1. /\ RegistryInv(s, terms') /\ AccountInv(s, jobs) /\ s \in Broker
      /\ s.attached = Charged(s.budget) /\ BudgetInv(s.budget)
    BY DEF Good, RegistryInv, RegistryBut, AccountInv, AccountBut
<1> DEFINE req == IF q \in Reads /\ s.budget.entries[q] # Nil THEN [jobs[q] EXCEPT !.phase = "over"] ELSE Idle
<1>2. jobs' = [jobs EXCEPT ![q] = req] /\ broken' = broken \ {q} BY DEF Ends
<1>3. req \in RequestJob BY <1>0, JobIdle DEF RequestJob
<1>4. /\ req.phase \in {"new", "over"} /\ (q \in Charged(s.budget) => req.phase = "over" /\ req.view = jobs[q].view)
      /\ q \in Enrolls => req.phase = "new"
    BY <1>0, BudgetAssumption DEF Idle, RequestJob, Charged
<1> HIDE DEF req
<1>5. jobs' \in [Requests -> RequestJob] /\ jobs'[q] = req /\ \A x \in Requests \ {q} : jobs'[x] = jobs[x]
    BY <1>0, <1>2, <1>3
<1>6. /\ broker' \in Broker /\ broker'.enabled = s.enabled /\ broker'.live = s.live
      /\ broker'.records = s.records /\ broker'.disposed = s.disposed
      /\ broker'.attached = s.attached /\ broker'.budget = s.budget
      /\ broker'.chan = s.chan /\ broker'.fenced = s.fenced \ {q}
    BY <1>1 DEF Ends, Broker
<1>7. Good(broker', terms', jobs')
  <2>1. RegistryInv(broker', terms') BY <1>1, <1>6 DEF RegistryInv, RegistryBut
  <2>2. AccountInv(broker', jobs) BY <1>1, <1>6, AccountMoves DEF AccountInv
  <2>3. \A r \in broker'.attached : jobs'[r].view = jobs[r].view
      BY <1>1, <1>4, <1>5, <1>6 DEF Charged, Requests
  <2> QED BY <2>1, <2>2, <2>3, AccountJobs DEF Good
<1>8. LaterBut(broker, broker', q) BY <1>6 DEF LaterBut
<1>9. Open(broker') \subseteq Open(broker) BY <1>6 DEF Open
<1>10. ViewsTypes' BY <1>0, <1>2, <1>5 DEF ViewsTypes, outside, control
<1>11. RequestOK(broker', terms', jobs', working', broken', down', q)
  <2>1. ~Flying(jobs'[q]) BY <1>4, <1>5 DEF Flying
  <2>2. q \in Enrolls => EnrollOK(terms', jobs', q) BY <1>4, <1>5 DEF EnrollOK
  <2>3. ASSUME q \in Reads
        PROVE  /\ ChargeOK(broker'.budget, jobs'[q], q) /\ ViewOK(terms', jobs'[q])
               /\ WorkOK(broker'.budget, working', q) /\ q \notin broken'
    <3>1. q \in Charged(s.budget) => ~s.budget.entries[q].delivery BY <1>1, EntryFacts DEF EntryOK
    <3>2. ChargeOK(broker'.budget, jobs'[q], q) BY <1>4, <1>5, <1>6, <3>1, <2>3 DEF ChargeOK
    <3>3. ViewOK(terms', jobs'[q]) BY <1>4, <1>5, <2>1 DEF ViewOK
    <3>4. WorkOK(broker'.budget, working', q) BY <1>6, <2>3 DEF WorkOK
    <3> QED BY <1>2, <3>2, <3>3, <3>4
  <2> QED BY <2>1, <2>2, <2>3 DEF RequestOK
<1>12. \A x \in Requests \ {q} : (x \in working' <=> x \in working) /\ (x \in broken' => x \in broken)
    BY <1>2
<1>13. UNCHANGED <<outside, joined, replies>> BY DEF control
<1>14. /\ ViewsInv' /\ (q \in Enrolls \/ LeaseStays(broker, jobs, broker', jobs', q) => LeasesStay)
    BY <1>5, <1>7, <1>8, <1>9, <1>10, <1>11, <1>12, <1>13, MoveStep
<1>15. q \in Reads /\ jobs[q].phase # "leased" => LeaseStays(broker, jobs, broker', jobs', q)
  <2>1. q \in Charged(s.budget) => ~s.budget.entries[q].delivery BY <1>1, EntryFacts DEF EntryOK
  <2> QED BY <1>6, <2>1 DEF LeaseStays
<1> QED BY <1>14, <1>15 DEF Requests

\* A call took the broker to s, and request q may still be anywhere.
LEMMA GoesFacts ==
    ASSUME NEW s, Goes(broker, s), NEW q
    PROVE  LaterBut(broker, s, q) /\ Open(s) \subseteq Open(broker) /\ Good(s, terms, jobs)
<1>1. Later(broker, s) BY DEF Goes
<1> QED BY <1>1, LaterIsBut DEF Goes, Later, Open

\* The budget did something with read r, and the broker was at s.
LEMMA ReconciledBut ==
    ASSUME NEW r \in Reads, NEW s, Good(s, terms, jobs), LaterBut(broker, s, r),
           Open(s) \subseteq Open(broker), NEW b, BudgetInv(b), Others(s.budget, b, r),
           Charged(b) \in {Charged(s.budget), Charged(s.budget) \ {r}},
           r \in Charged(b) => b.entries[r].view = s.budget.entries[r].view
    PROVE  LET t == Reconciled([s EXCEPT !.budget = b], r) IN
           /\ Good(t, terms, jobs) /\ LaterBut(broker, t, r) /\ Open(t) \subseteq Open(broker)
           /\ t.budget = b /\ t.chan = s.chan /\ t.fenced = s.fenced /\ t.live = s.live
<1> DEFINE t == Reconciled([s EXCEPT !.budget = b], r)
<1>2. /\ Good(t, terms, jobs) /\ t.budget = b /\ t.attached = Charged(b)
      /\ t.live = s.live /\ t.chan = s.chan /\ t.fenced = s.fenced
    BY ReconciledGood
<1> HIDE DEF t
<1>3. LaterBut(s, t, r)
  <2>1. \A x \in Reads \ {r} : x \in Charged(b) <=> x \in Charged(s.budget) OBVIOUS
  <2>2. \A x \in Reads \ {r} : b.entries[x] = s.budget.entries[x] BY DEF Others
  <2> QED BY <1>2, <2>1, <2>2 DEF LaterBut, Stays
<1>4. LaterBut(broker, t, r) BY <1>3, LaterButTrans
<1>5. Open(t) = Open(s) BY <1>2 DEF Open
<1> QED BY <1>2, <1>4, <1>5 DEF t

\* A call took it there.
LEMMA ReconciledFacts ==
    ASSUME NEW r \in Reads, NEW s, Goes(broker, s), NEW b, BudgetInv(b), Others(s.budget, b, r),
           Charged(b) \in {Charged(s.budget), Charged(s.budget) \ {r}},
           r \in Charged(b) => b.entries[r].view = s.budget.entries[r].view
    PROVE  LET t == Reconciled([s EXCEPT !.budget = b], r) IN
           /\ Good(t, terms, jobs) /\ LaterBut(broker, t, r) /\ Open(t) \subseteq Open(broker)
           /\ t.budget = b /\ t.chan = s.chan /\ t.fenced = s.fenced /\ t.live = s.live
<1>1. /\ LaterBut(broker, s, r) /\ Open(s) \subseteq Open(broker) /\ Good(s, terms, jobs)
    BY GoesFacts
<1> QED BY <1>1, ReconciledBut

\* A lease without a copy outside goes back.
LEMMA LeaseReleasedFacts ==
    ASSUME NEW r \in Reads, NEW s, Good(s, terms, jobs), LaterBut(broker, s, r),
           Open(s) \subseteq Open(broker), r \in Charged(s.budget), ~s.budget.entries[r].delivery
    PROVE  LET t == LeaseReleased(s, r) IN
           /\ Good(t, terms, jobs) /\ LaterBut(broker, t, r) /\ Open(t) \subseteq Open(broker)
           /\ r \notin Charged(t.budget)
<1>1. BudgetInv(s.budget) BY DEF Good, AccountInv, AccountBut
<1> DEFINE b == Release(s.budget, r)
<1>2. BudgetInv(b) /\ Others(s.budget, b, r) /\ Charged(b) = Charged(s.budget) \ {r}
    BY <1>1, ReleaseKeeps
<1>3. LeaseReleased(s, r) = Reconciled([s EXCEPT !.budget = b], r) BY DEF LeaseReleased
<1> HIDE DEF b
<1> QED BY <1>2, <1>3, ReconciledBut

\* What is left of a failed read is work that may still run.
LEMMA DiscardedFacts ==
    ASSUME ViewsInv, NEW r \in Reads, NEW s, Goes(broker, s), jobs[r].phase = "capturing"
    PROVE  LET t == Discarded(s, r) IN
           /\ Good(t, terms, jobs) /\ LaterBut(broker, t, r) /\ Open(t) \subseteq Open(broker)
           /\ r \in Charged(t.budget) <=>
                r \in Charged(broker.budget) /\ broker.budget.entries[r].phase # "retained"
           /\ r \in Charged(t.budget) =>
                t.budget.entries[r].phase # "retained" /\ t.budget.entries[r].invalidated
<1>0. Good(s, terms, jobs) BY DEF Goes
<1>1. BudgetInv(s.budget) /\ s \in Broker /\ SameWork(broker.budget, s.budget)
    BY <1>0, GoodFields DEF Goes, Later, Good, AccountInv, AccountBut
<1>2. r \in Charged(s.budget) => ~s.budget.entries[r].delivery
  <2>1. ChargeOK(broker.budget, jobs[r], r) BY DEF ViewsInv, RequestsOK, RequestOK, Requests
  <2> QED BY <1>1, <2>1 DEF ChargeOK, SameWork, Stays
<1>3. /\ r \in Charged(s.budget) <=> r \in Charged(broker.budget)
      /\ r \in Charged(s.budget) =>
            (s.budget.entries[r].phase = "retained" <=> broker.budget.entries[r].phase = "retained")
    BY <1>1 DEF SameWork, Stays
<1>4. CASE r \notin Charged(s.budget)
  <2>1. s = [s EXCEPT !.budget = s.budget] BY <1>1 DEF Broker
  <2>2. Discarded(s, r) = Reconciled([s EXCEPT !.budget = s.budget], r) BY <1>4, <2>1 DEF Discarded
  <2>3. Others(s.budget, s.budget, r) BY DEF Others
  <2> QED BY <1>1, <1>3, <1>4, <2>2, <2>3, ReconciledFacts
<1>5. CASE r \in Charged(s.budget) /\ s.budget.entries[r].phase = "retained"
  <2>1. Discarded(s, r) = LeaseReleased(s, r) BY <1>5 DEF Discarded
  <2> QED BY <1>0, <1>2, <1>3, <1>5, <2>1, GoesFacts, LeaseReleasedFacts
<1>6. CASE r \in Charged(s.budget) /\ s.budget.entries[r].phase # "retained"
  <2> DEFINE c == Cancel(s.budget, r)
             b == UnknownDrain(c, r)
  <2>1. /\ BudgetInv(c) /\ SameWork(s.budget, c) /\ Others(s.budget, c, r)
        /\ c.entries[r] = CancelledEntry(s.budget.entries[r])
      BY <1>1, <1>6, CancelKeeps
  <2>2. s.budget.entries[r] \in Entry BY <1>1, <1>6, EntryFacts
  <2>3. c.entries[r].invalidated BY <2>1, <2>2, EntryCancels
  <2>4. Discarded(s, r) = Reconciled([s EXCEPT !.budget = b], r) BY <1>6 DEF Discarded
  <2>5. r \in Charged(c) BY <1>6, <2>1 DEF SameWork
  <2> HIDE DEF c
  <2>6. BudgetInv(b) /\ SameWork(c, b) /\ Others(c, b, r) BY <2>1, <2>5, DrainKeeps
  <2> HIDE DEF b
  <2>7. SameWork(s.budget, b) BY <2>1, <2>6, SameWorkTrans
  <2>8. Others(s.budget, b, r) BY <2>1, <2>6 DEF Others
  <2>9. /\ Charged(b) = Charged(s.budget) /\ b.entries[r].view = s.budget.entries[r].view
        /\ b.entries[r].phase # "retained"
      BY <1>6, <2>7 DEF SameWork, Stays
  <2>10. b.entries[r].invalidated BY <2>3, <2>5, <2>6 DEF SameWork, Stays
  <2> QED BY <1>3, <1>6, <2>4, <2>6, <2>8, <2>9, <2>10, ReconciledFacts
<1> QED BY <1>4, <1>5, <1>6

\* Which enrollment is under way on a channel.
LEMMA EnrollingGoes ==
    ASSUME NEW s, NEW ch \in Channels, NEW v \in Enrolls \cup {Nil}, Good(s, terms, jobs)
    PROVE  LET t == [s EXCEPT !.chan[ch].enrolling = v] IN
           /\ Goes(s, t) /\ t.live = s.live /\ t.records = s.records /\ t.enabled = s.enabled
           /\ \A d \in Channels : t.chan[d].grant = s.chan[d].grant
<1>1. s \in Broker /\ s.chan \in [Channels -> Channel] BY GoodFields
<1> DEFINE c == [s.chan[ch] EXCEPT !.enrolling = v]
           t == [s EXCEPT !.chan[ch].enrolling = v]
<1>2. c \in Channel /\ c.grant = s.chan[ch].grant /\ c.life = s.chan[ch].life BY <1>1 DEF Channel
<1>3. t = [s EXCEPT !.chan = [s.chan EXCEPT ![ch] = c]] BY <1>1 DEF Broker
<1> HIDE DEF c, t
<1>4. /\ t \in Broker /\ t.live = s.live /\ t.records = s.records /\ t.disposed = s.disposed
      /\ t.attached = s.attached /\ t.budget = s.budget /\ t.fenced = s.fenced
      /\ t.enabled = s.enabled /\ t.chan = [s.chan EXCEPT ![ch] = c]
    BY <1>1, <1>2, <1>3 DEF Broker
<1>5. \A d \in Channels : t.chan[d].grant = s.chan[d].grant /\ t.chan[d].life = s.chan[d].life
    BY <1>1, <1>2, <1>4
<1>6. Good(t, terms, jobs) BY <1>4, <1>5, ChannelsMove
<1>7. Later(s, t) BY <1>4, <1>5 DEF Later, SameWork, Stays
<1> QED BY <1>4, <1>5, <1>6, <1>7 DEF Goes, t

\* Where a request is, and what that says of its charge.
LEMMA RequestFacts ==
    ASSUME ViewsInv, NEW q \in Requests
    PROVE  /\ jobs[q] \in RequestJob
           /\ Flying(jobs[q]) => jobs[q].ch \in Channels /\ jobs[q].seen \in Version
           /\ q \in Enrolls => EnrollOK(terms, jobs, q) /\ q \notin working /\ q \notin Reads
           /\ q \in Reads => /\ ChargeOK(broker.budget, jobs[q], q) /\ ViewOK(terms, jobs[q])
                             /\ WorkOK(broker.budget, working, q)
                             /\ q \in broken => Barred(broker, down, jobs[q], q)
<1>1. jobs[q] \in RequestJob /\ working \subseteq Reads BY DEF ViewsInv, ViewsTypes
<1>2. RequestOK(broker, terms, jobs, working, broken, down, q) BY DEF ViewsInv, RequestsOK
<1> QED BY <1>1, <1>2, BudgetAssumption DEF RequestOK, RequestJob

\* A read that was not charged and ends.
LEMMA PlainEnds ==
    ASSUME ViewsInv, NEW r \in Reads, NEW s, Goes(broker, s), jobs[r].phase = "asking", Ends(r, s),
           UNCHANGED <<outside, terms, control, working>>
    PROVE  ViewsInv' /\ LeasesStay
<1>1. LaterBut(broker, s, r) /\ Open(s) \subseteq Open(broker) /\ Good(s, terms, jobs) BY GoesFacts
<1>2. r \in Requests BY DEF Requests
<1>3. r \notin Charged(broker.budget) /\ r \notin working
    BY <1>2, RequestFacts DEF ChargeOK, WorkOK
<1>4. r \notin Charged(s.budget) BY <1>3 DEF Goes, Later, SameWork
<1>5. TermsStay(terms, terms') BY DEF TermsStay
<1>6. terms' \in [Enrolls -> Terms \cup {Nil}] /\ working' \subseteq Reads BY DEF ViewsInv, ViewsTypes
<1> QED BY <1>1, <1>2, <1>3, <1>4, <1>5, <1>6, EndsStep

\* What a step of r leaves alone includes the leases of the others.
LEMMA OtherLeases ==
    ASSUME ViewsInv, NEW r, LaterBut(broker, broker', r), NEW x \in Reads \ {r}, jobs'[x] = jobs[x]
    PROVE  LeaseStays(broker, jobs, broker', jobs', x)
<1>1. ChargeOK(broker.budget, jobs[x], x) BY RequestFacts DEF Requests
<1> QED BY <1>1 DEF LeaseStays, LaterBut, Stays, ChargeOK

\* A read that gives its lease back and ends.
LEMMA ReleaseEnds ==
    ASSUME ViewsInv, NEW r \in Reads, NEW s, Good(s, terms, jobs), LaterBut(broker, s, r),
           Open(s) \subseteq Open(broker), r \in Charged(s.budget), ~s.budget.entries[r].delivery,
           jobs[r].phase \in {"checking", "leased"}, Ends(r, LeaseReleased(s, r)),
           UNCHANGED <<outside, terms, control, working>>
    PROVE  /\ ViewsInv' /\ (jobs[r].phase # "leased" => LeasesStay)
           /\ \A x \in Reads \ {r} : LeaseStays(broker, jobs, broker', jobs', x)
           /\ jobs'[r].phase # "leased"
<1> DEFINE t == LeaseReleased(s, r)
<1>1. r \in Requests BY DEF Requests
<1>2. r \notin working BY <1>1, RequestFacts DEF ChargeOK, WorkOK
<1>3. /\ Good(t, terms, jobs) /\ LaterBut(broker, t, r) /\ Open(t) \subseteq Open(broker)
      /\ r \notin Charged(t.budget)
    BY LeaseReleasedFacts
<1>4. Ends(r, t) OBVIOUS
<1> HIDE DEF t
<1>5. TermsStay(terms, terms') BY DEF TermsStay
<1>6. terms' \in [Enrolls -> Terms \cup {Nil}] /\ working' \subseteq Reads BY DEF ViewsInv, ViewsTypes
<1>7. ViewsInv' /\ (jobs[r].phase # "leased" => LeasesStay)
    BY <1>1, <1>2, <1>3, <1>4, <1>5, <1>6, EndsStep
<1>8. /\ broker'.budget = t.budget /\ broker'.chan = t.chan /\ broker'.fenced = t.fenced \ {r}
      /\ jobs'[r].phase # "leased" /\ \A x \in Requests \ {r} : jobs'[x] = jobs[x]
  <2>1. t \in Broker /\ jobs \in [Requests -> RequestJob] BY <1>3, GoodFields DEF ViewsInv, ViewsTypes
  <2>2. jobs' = [jobs EXCEPT ![r] = Idle] BY <1>3, <1>4 DEF Ends, Charged
  <2> QED BY <1>1, <1>4, <2>1, <2>2 DEF Ends, Broker, Idle
<1>9. LaterBut(broker, broker', r)
  <2>1. \A x \in Reads : x \in Charged(broker'.budget) <=> x \in Charged(t.budget) BY <1>8
  <2> QED BY <1>3, <1>8, <2>1 DEF LaterBut
<1>10. ASSUME NEW x \in Reads \ {r} PROVE LeaseStays(broker, jobs, broker', jobs', x)
    BY <1>8, <1>9, OtherLeases DEF Requests
<1> QED BY <1>7, <1>8, <1>10

\* The same, when a call took the broker to s.
LEMMA ReleaseGoes ==
    ASSUME ViewsInv, NEW r \in Reads, NEW s, Goes(broker, s), jobs[r].phase = "checking",
           Ends(r, LeaseReleased(s, r)), UNCHANGED <<outside, terms, control, working>>
    PROVE  ViewsInv' /\ LeasesStay
<1>1. r \in Charged(broker.budget) /\ ~broker.budget.entries[r].delivery
    BY RequestFacts DEF Requests, ChargeOK
<1>2. r \in Charged(s.budget) /\ ~s.budget.entries[r].delivery
    BY <1>1 DEF Goes, Later, SameWork, Stays
<1>3. LaterBut(broker, s, r) /\ Open(s) \subseteq Open(broker) /\ Good(s, terms, jobs) BY GoesFacts
<1> QED BY <1>2, <1>3, ReleaseEnds

\* An enrollment that is refused: it was not granted before.
LEMMA EnrollFails ==
    ASSUME ViewsInv, NEW e \in Enrolls, jobs[e].phase = "asking", NEW t, Goes(broker, t), Ends(e, t),
           terms' = [terms EXCEPT ![e] = Nil], UNCHANGED <<outside, control, working>>
    PROVE  ViewsInv' /\ LeasesStay
<1>1. e \in Requests BY DEF Requests
<1>2. jobs[e].ch \in Channels /\ EnrollOK(terms, jobs, e) /\ e \notin working /\ e \notin Reads
    BY <1>1, RequestFacts DEF Flying
<1>3. LaterBut(broker, t, e) /\ Open(t) \subseteq Open(broker) /\ Good(t, terms, jobs) BY GoesFacts
<1>4. terms \in [Enrolls -> Terms \cup {Nil}] /\ working' \subseteq Reads
    BY DEF ViewsInv, ViewsTypes
<1>5. TermsStay(terms, terms')
  <2>1. ~Granted(terms, e) BY <1>2 DEF EnrollOK, Granted
  <2>2. \A g \in Enrolls \ {e} : terms'[g] = terms[g] BY <1>4
  <2> QED BY <2>1, <2>2 DEF TermsStay, Granted
<1>6. Good(t, terms', jobs) BY <1>3, <1>5, RegistryTerms DEF Good, TermsStay
<1>7. terms' \in [Enrolls -> Terms \cup {Nil}] /\ \A x \in Enrolls \ {e} : terms'[x] = terms[x]
    BY <1>4
<1> QED BY <1>1, <1>2, <1>3, <1>4, <1>5, <1>6, <1>7, EndsStep

\* The version that a request waits for never comes.
LEMMA RejectedStep ==
    ASSUME ViewsInv, NEW q \in Requests, VersionRejected(q) PROVE ViewsInv' /\ LeasesStay
<1> DEFINE s == FenceConversations(broker, {Conversation[jobs[q].ch]})
<1>1. Goes(broker, s) BY FenceGoes DEF ViewsInv
<1>2. jobs[q].phase \in {"asking", "checking"} /\ UNCHANGED <<outside, control, working>>
    BY DEF VersionRejected
<1>3. CASE q \in Enrolls
  <2> DEFINE t == [s EXCEPT !.chan[jobs[q].ch].enrolling = Nil]
  <2>1. /\ jobs[q].ch \in Channels /\ EnrollOK(terms, jobs, q) /\ q \notin working /\ q \notin Reads
      BY <1>2, <1>3, RequestFacts DEF Flying
  <2>2. Ends(q, t) /\ terms' = [terms EXCEPT ![q] = Nil] BY <1>3 DEF VersionRejected
  <2>3. Good(s, terms, jobs) BY <1>1 DEF Goes
  <2> HIDE DEF s
  <2>4. Goes(s, t) BY <2>1, <2>3, EnrollingGoes
  <2> HIDE DEF t
  <2>5. Goes(broker, t) BY <1>1, <2>4, GoesOn
  <2>6. jobs[q].phase = "asking" BY <1>2, <2>1 DEF EnrollOK
  <2> QED BY <1>2, <1>3, <2>2, <2>5, <2>6, EnrollFails
<1>4. CASE q \in Reads
  <2>1. q \notin Enrolls /\ terms' = terms BY <1>4, BudgetAssumption DEF VersionRejected
  <2>2. CASE jobs[q].phase = "asking"
    <3>1. Ends(q, s) BY <2>1, <2>2 DEF VersionRejected
    <3> QED BY <1>1, <1>2, <1>4, <2>1, <2>2, <3>1, PlainEnds
  <2>3. CASE jobs[q].phase = "checking"
    <3>1. Ends(q, LeaseReleased(s, q)) BY <2>1, <2>3 DEF VersionRejected
    <3> QED BY <1>1, <1>2, <1>4, <2>1, <2>3, <3>1, ReleaseGoes
  <2> QED BY <1>2, <2>2, <2>3
<1> QED BY <1>3, <1>4 DEF Requests

\* A status, with its version found.
LEMMA StatusVersionStep == ASSUME ViewsInv, NEW r \in Reads, StatusVersion(r) PROVE ViewsInv' /\ LeasesStay
<1> DEFINE s == Refreshed(broker, r, jobs[r].want)
<1>1. jobs[r].phase = "asking" /\ UNCHANGED <<outside, terms, control, working>> BY DEF StatusVersion
<1>2. r \in Requests /\ jobs[r].ch \in Channels /\ jobs[r].seen \in Version
    BY <1>1, RequestFacts DEF Requests, Flying
<1>3. Goes(broker, s) BY <1>2, RefreshedGoes DEF ViewsInv
<1>4. Ends(r, s) \/ Ends(r, Statused(s, jobs[r].ch)) BY DEF StatusVersion
<1> HIDE DEF s
<1>5. Goes(broker, Statused(s, jobs[r].ch)) BY <1>2, <1>3, StatusedGoes, GoesOn DEF Goes
<1> QED BY <1>1, <1>3, <1>4, <1>5, PlainEnds

\* A request that waits is in flight, and not charged.
LEMMA AskingStep ==
    ASSUME ViewsInv, NEW r \in Reads, NEW ch \in Open(broker), NEW view \in Views \cup {Nil},
           NEW want \in (0 .. LastEpoch) \cup {Nil}, jobs[r].phase = "new",
           jobs' = Asking(r, ch, view, want, "asking"), view # Nil => Granted(terms, view[1]),
           UNCHANGED <<outside, broker, terms, control, working, broken>>
    PROVE  ViewsInv' /\ LeasesStay
<1>1. r \in Requests /\ ch \in Channels BY DEF Requests, Open
<1>2. ViewsTypes /\ Good(broker, terms, jobs) BY DEF ViewsInv
<1> DEFINE req == [phase |-> "asking", ch |-> ch, view |-> view, seen |-> usage[Conversation[ch]], want |-> want]
<1>3. req \in RequestJob BY <1>1, <1>2, ViewsAssumption DEF ViewsTypes, RequestJob
<1>4. jobs' = [jobs EXCEPT ![r] = req] BY DEF Asking
<1>5. req.phase = "asking" /\ req.ch = ch /\ req.view = view OBVIOUS
<1> HIDE DEF req
<1>6. jobs' \in [Requests -> RequestJob] /\ jobs'[r] = req /\ \A x \in Requests \ {r} : jobs'[x] = jobs[x]
    BY <1>1, <1>2, <1>3, <1>4 DEF ViewsTypes
<1>7. ViewsTypes' BY <1>2, <1>6 DEF ViewsTypes, outside, control
<1>8. /\ ChargeOK(broker.budget, jobs[r], r) /\ WorkOK(broker.budget, working, r)
      /\ r \in broken => Barred(broker, down, jobs[r], r)
    BY <1>1, RequestFacts
<1>9. r \notin Charged(broker.budget) /\ r \notin working /\ r \notin broken
    BY <1>8 DEF ChargeOK, WorkOK, Barred, Flying
<1>10. Good(broker', terms', jobs')
  <2>1. r \notin broker.attached /\ broker.attached \subseteq Reads
      BY <1>2, <1>9, GoodFields DEF Good, AccountInv, AccountBut
  <2>2. \A x \in broker.attached : jobs'[x].view = jobs[x].view BY <1>6, <2>1 DEF Requests
  <2> QED BY <1>2, <2>2, AccountJobs DEF Good
<1>11. RequestOK(broker', terms', jobs', working', broken', down', r)
  <2>1. EnrollOK(terms', jobs', r) \/ r \notin Enrolls BY BudgetAssumption
  <2>2. ChargeOK(broker'.budget, jobs'[r], r) BY <1>5, <1>6, <1>9 DEF ChargeOK
  <2>3. ViewOK(terms', jobs'[r]) BY <1>5, <1>6 DEF ViewOK
  <2>4. WorkOK(broker'.budget, working', r) BY <1>9 DEF WorkOK
  <2> QED BY <1>1, <1>5, <1>6, <1>9, <2>1, <2>2, <2>3, <2>4 DEF RequestOK, Open
<1>12. LaterBut(broker, broker', r) /\ TermsStay(terms, terms') BY DEF LaterBut, TermsStay, Stays
<1>13. LeaseStays(broker, jobs, broker', jobs', r) BY <1>9 DEF LeaseStays
<1>14. UNCHANGED <<outside, joined, replies>> BY DEF control
<1> QED BY <1>1, <1>6, <1>7, <1>10, <1>11, <1>12, <1>13, <1>14, MoveStep

\* A status is asked for.
LEMMA StatusStartStep ==
    ASSUME ViewsInv, NEW r \in Reads, NEW ch \in Channels, StatusStart(r, ch) PROVE ViewsInv' /\ LeasesStay
<1> DEFINE want == IF broker.chan[ch].grant = Nil THEN Nil ELSE broker.chan[ch].epoch
<1>1. broker.chan \in [Channels -> Channel] BY GoodFields DEF ViewsInv
<1>2. want \in (0 .. LastEpoch) \cup {Nil} BY <1>1 DEF Channel
<1>3. ch \in Open(broker) BY DEF StatusStart, MayUse
<1> QED BY <1>2, <1>3, AskingStep DEF StatusStart

\* A read is asked for.
LEMMA ReadStartStep ==
    ASSUME ViewsInv, NEW r \in Reads, NEW ch \in Channels, NEW view \in Views, ReadStart(r, ch, view)
    PROVE  ViewsInv' /\ LeasesStay
<1>1. broker.chan \in [Channels -> Channel] BY GoodFields DEF ViewsInv
<1>2. broker.chan[ch].epoch \in (0 .. LastEpoch) \cup {Nil} BY <1>1 DEF Channel
<1>3. ch \in Open(broker) BY DEF ReadStart, MayUse
<1>4. Granted(terms, view[1])
  <2>1. view[1] \in Enrolls BY DEF Views
  <2> QED BY <2>1 DEF ViewsInv, ViewsTypes, ReadStart, Granted
<1> QED BY <1>2, <1>3, <1>4, AskingStep DEF ReadStart

\* A read with its version found: it is admitted and reserved, or rejected.
LEMMA ReadVersionStep == ASSUME ViewsInv, NEW r \in Reads, ReadVersion(r) PROVE ViewsInv' /\ LeasesStay
<1> DEFINE ch == jobs[r].ch
           view == jobs[r].view
           s == Refreshed(broker, r, jobs[r].want)
           goes == /\ VersionOk(broker, r, jobs[r].want) /\ MayUse(s, ch)
                   /\ s.chan[ch].grant # Nil /\ s.enabled
           swept == Sweep(s)
           found == goes /\ swept.chan[ch].grant = view[1] /\ view[1] \in swept.live
           t == IF found THEN Checked(swept, view[1], view[2]) ELSE IF goes THEN swept ELSE s
<1>0. jobs[r].phase = "asking" /\ view # Nil /\ UNCHANGED <<outside, terms, control>> BY DEF ReadVersion
<1>1. /\ r \in Requests /\ ch \in Channels /\ jobs[r].seen \in Version /\ jobs[r] \in RequestJob
      /\ view \in Views /\ Granted(terms, view[1])
      /\ r \notin Charged(broker.budget) /\ r \notin working
      /\ r \in broken => Barred(broker, down, jobs[r], r)
    BY <1>0, RequestFacts DEF Requests, Flying, ViewOK, ChargeOK, WorkOK, RequestJob
<1>2. Goes(broker, s) BY <1>1, RefreshedGoes DEF ViewsInv
<1>3. Goes(s, swept) BY <1>2, SweepGoes DEF Goes
<1>4. Goes(swept, Checked(swept, view[1], view[2])) BY <1>3, CheckedGoes DEF Goes
<1>5. Goes(broker, t)
  <2>1. Goes(broker, swept) BY <1>2, <1>3, GoesOn
  <2> HIDE DEF swept
  <2>2. Goes(broker, Checked(swept, view[1], view[2])) BY <1>4, <2>1, GoesOn
  <2> HIDE DEF s, goes, found
  <2> QED BY <1>2, <2>1, <2>2
<1>6. CASE ~(found /\ view[1] \in t.live /\ MayReserve(t.budget, view))
  <2>1. Ends(r, t) /\ UNCHANGED working BY <1>6, Zenon DEF ReadVersion
  <2> HIDE DEF t, found
  <2> QED BY <1>0, <1>5, <2>1, PlainEnds
<1>7. CASE found /\ view[1] \in t.live /\ MayReserve(t.budget, view)
  <2>1. /\ broker' = [t EXCEPT !.budget = Reserve(t.budget, r, view), !.attached = t.attached \cup {r}]
        /\ jobs' = [jobs EXCEPT ![r].phase = "capturing"]
        /\ working' = working \cup {r} /\ UNCHANGED broken
      BY <1>7 DEF ReadVersion
  <2>2. terms[view[1]].ch = ch
    <3>1. swept.chan[ch].grant = view[1] BY <1>7
    <3>2. view[1] # Nil BY <1>1, BudgetAssumption DEF Views
    <3> HIDE DEF swept, s, view
    <3> QED BY <1>1, <1>3, <3>1, <3>2 DEF Goes, Good, RegistryInv, RegistryBut
  <2>3. MayReserve(t.budget, view) BY <1>7
  <2> HIDE DEF t, found, swept, goes, s
  <2>4. /\ Good(t, terms, jobs) /\ t \in Broker /\ BudgetInv(t.budget) /\ SameWork(broker.budget, t.budget)
        /\ t.attached = Charged(t.budget)
      BY <1>5, GoodFields DEF Goes, Good, AccountInv, AccountBut, Later
  <2>5. r \notin Charged(t.budget) BY <1>1, <2>4 DEF SameWork
  <2> DEFINE b == Reserve(t.budget, r, view)
  <2>6. /\ BudgetInv(b) /\ Others(t.budget, b, r) /\ Charged(b) = Charged(t.budget) \cup {r}
        /\ b.entries[r].phase = "running" /\ b.entries[r].view = view /\ ~b.entries[r].delivery
      BY <1>1, <2>3, <2>4, <2>5, ReserveKeeps
  <2> HIDE DEF b
  <2>7. b \in Budget BY <2>6 DEF BudgetInv
  <2>8. broker' = [t EXCEPT !.budget = b, !.attached = t.attached \cup {r}] BY <2>1 DEF b
  <2>9. /\ broker' \in Broker /\ broker'.enabled = t.enabled /\ broker'.live = t.live
        /\ broker'.records = t.records /\ broker'.disposed = t.disposed
        /\ broker'.attached = t.attached \cup {r} /\ broker'.budget = b
        /\ broker'.chan = t.chan /\ broker'.fenced = t.fenced
      BY <2>4, <2>7, <2>8 DEF Broker
  <2> DEFINE req == [jobs[r] EXCEPT !.phase = "capturing"]
  <2>10. /\ req \in RequestJob /\ req.phase = "capturing" /\ req.view = view /\ req.ch = ch
      BY <1>1 DEF RequestJob
  <2>11. jobs' = [jobs EXCEPT ![r] = req] BY <1>1, <2>1 DEF ViewsInv, ViewsTypes
  <2> HIDE DEF req
  <2>12. jobs' \in [Requests -> RequestJob] /\ jobs'[r] = req /\ \A x \in Requests \ {r} : jobs'[x] = jobs[x]
      BY <1>1, <2>10, <2>11 DEF ViewsInv, ViewsTypes
  <2>13. Good(broker', terms', jobs')
    <3>1. RegistryInv(broker', terms) BY <2>4, <2>9 DEF Good, RegistryInv, RegistryBut
    <3>2. \A x \in broker'.attached : b.entries[x].view = jobs'[x].view
      <4>1. ASSUME NEW x \in t.attached PROVE b.entries[x].view = jobs'[x].view
        <5>1. x \in Reads /\ x # r BY <2>4, <2>5 DEF Charged
        <5>2. t.budget.entries[x].view = jobs[x].view BY <2>4 DEF Good, AccountInv, AccountBut
        <5> QED BY <2>6, <2>12, <5>1, <5>2 DEF Others, Requests
      <4> QED BY <2>6, <2>9, <2>10, <2>12, <4>1
    <3>3. \A e \in broker'.records \ broker'.live : \E x \in broker'.attached : jobs'[x].view[1] = e
      <4> SUFFICES ASSUME NEW e \in t.records \ t.live PROVE \E x \in t.attached : jobs'[x].view[1] = e
          BY <2>9
      <4>1. PICK x \in t.attached : jobs[x].view[1] = e BY <2>4 DEF Good, AccountInv, AccountBut
      <4>2. x \in Reads /\ x # r BY <2>4, <2>5 DEF Charged
      <4> QED BY <2>12, <4>1, <4>2 DEF Requests
    <3> QED BY <1>0, <2>4, <2>6, <2>9, <3>1, <3>2, <3>3 DEF Good, AccountInv, AccountBut
  <2>14. LaterBut(broker, broker', r) /\ Open(broker') \subseteq Open(broker)
    <3>1. LaterBut(broker, t, r) /\ Open(t) \subseteq Open(broker) BY <1>5, GoesFacts
    <3>2. LaterBut(t, broker', r)
      <4>1. \A x \in Reads \ {r} : x \in Charged(b) <=> x \in Charged(t.budget) BY <2>6
      <4> QED BY <2>6, <2>9, <4>1 DEF LaterBut, Others, Stays
    <3>3. Open(broker') = Open(t) BY <2>9 DEF Open
    <3> QED BY <3>1, <3>2, <3>3, LaterButTrans
  <2>15. RequestOK(broker', terms', jobs', working', broken', down', r)
    <3>1. r \notin Enrolls BY BudgetAssumption
    <3>2. ChargeOK(broker'.budget, jobs'[r], r) BY <2>6, <2>9, <2>10, <2>12 DEF ChargeOK
    <3>3. ViewOK(terms', jobs'[r]) BY <1>0, <1>1, <2>2, <2>10, <2>12 DEF ViewOK
    <3>4. WorkOK(broker'.budget, working', r) BY <2>1, <2>6, <2>9 DEF WorkOK
    <3>5. broker'.chan[ch].life \in {"open", "retired"} /\ (r \in broken' => Barred(broker', down', jobs'[r], r))
      <4>1. Flying(jobs[r]) /\ broker.chan[ch].life \in {"open", "retired"}
          BY <1>0, <1>1 DEF ViewsInv, RequestsOK, RequestOK, Flying
      <4>2. t.chan[ch].life \in {broker.chan[ch].life, "retired"} /\ broker.fenced \subseteq t.fenced
          BY <1>1, <1>5 DEF Goes, Later
      <4> QED BY <1>0, <1>1, <2>1, <2>9, <2>10, <2>12, <4>1, <4>2 DEF Barred, Flying, outside
    <3> QED BY <1>1, <2>10, <2>12, <3>1, <3>2, <3>3, <3>4, <3>5 DEF RequestOK
  <2>16. ViewsTypes' BY <1>0, <2>1, <2>12 DEF ViewsInv, ViewsTypes, outside, control
  <2>17. LeaseStays(broker, jobs, broker', jobs', r) BY <1>0, <2>6, <2>9 DEF LeaseStays
  <2>18. TermsStay(terms, terms') /\ UNCHANGED <<outside, joined, replies, terms>> BY <1>0 DEF TermsStay, control
  <2> QED BY <1>1, <2>1, <2>12, <2>13, <2>14, <2>15, <2>16, <2>17, <2>18, MoveStep
<1> QED BY <1>6, <1>7

\* A read that goes on, or that stays over, for its view and channel.
LEMMA OnwardStep ==
    ASSUME ViewsInv, NEW r \in Reads, NEW req \in RequestJob, jobs' = [jobs EXCEPT ![r] = req],
           req.view = jobs[r].view, req.ch = jobs[r].ch, Flying(req) <=> Flying(jobs[r]),
           Good(broker', terms, jobs), LaterBut(broker, broker', r), Open(broker') \subseteq Open(broker),
           r \in broker.fenced => r \in broker'.fenced, ViewOK(terms, req),
           ChargeOK(broker'.budget, req, r), WorkOK(broker'.budget, working', r), working' \subseteq Reads,
           \A x \in Requests \ {r} : x \in working' <=> x \in working,
           UNCHANGED <<outside, terms, control, broken>>
    PROVE  ViewsInv' /\ (LeaseStays(broker, jobs, broker', jobs', r) => LeasesStay)
<1>0. r \in Requests /\ r \notin Enrolls BY BudgetAssumption DEF Requests
<1>1. ViewsTypes /\ jobs \in [Requests -> RequestJob] BY DEF ViewsInv, ViewsTypes
<1>2. jobs' \in [Requests -> RequestJob] /\ jobs'[r] = req /\ \A x \in Requests \ {r} : jobs'[x] = jobs[x]
    BY <1>0, <1>1
<1>3. Good(broker', terms', jobs')
  <2>1. broker'.attached \subseteq Reads BY GoodFields DEF Good
  <2>2. \A x \in broker'.attached : jobs'[x].view = jobs[x].view BY <1>2, <2>1 DEF Requests
  <2> QED BY <2>2, AccountJobs DEF Good
<1>4. ViewsTypes' BY <1>1, <1>2 DEF ViewsTypes, outside, control
<1>5. RequestOK(broker', terms', jobs', working', broken', down', r)
  <2>1. /\ Flying(jobs[r]) => jobs[r].ch \in Channels /\ broker.chan[jobs[r].ch].life \in {"open", "retired"}
        /\ r \in broken => Barred(broker, down, jobs[r], r)
      BY <1>0 DEF ViewsInv, RequestsOK, RequestOK
  <2>2. Flying(jobs[r]) => broker'.chan[jobs[r].ch].life \in {broker.chan[jobs[r].ch].life, "retired"}
      BY <2>1 DEF LaterBut
  <2>3. r \in broken => Barred(broker', down', req, r) BY <2>1, <2>2 DEF Barred, outside
  <2> QED BY <1>0, <1>2, <2>1, <2>2, <2>3 DEF RequestOK
<1>6. TermsStay(terms, terms') /\ UNCHANGED <<outside, joined, replies, terms>> BY DEF TermsStay, control
<1> QED BY <1>0, <1>2, <1>3, <1>4, <1>5, <1>6, MoveStep

\* The same, when the request itself is left as it is.
LEMMA SameJobStep ==
    ASSUME ViewsInv, NEW r \in Reads, UNCHANGED jobs,
           Good(broker', terms, jobs), LaterBut(broker, broker', r), Open(broker') \subseteq Open(broker),
           r \in broker.fenced => r \in broker'.fenced,
           ChargeOK(broker'.budget, jobs[r], r), WorkOK(broker'.budget, working', r), working' \subseteq Reads,
           \A x \in Requests \ {r} : x \in working' <=> x \in working,
           UNCHANGED <<outside, terms, control, broken>>
    PROVE  ViewsInv' /\ (LeaseStays(broker, jobs, broker', jobs', r) => LeasesStay)
<1>1. r \in Requests BY DEF Requests
<1>2. jobs[r] \in RequestJob /\ ViewOK(terms, jobs[r]) BY <1>1, RequestFacts
<1>3. jobs' = [jobs EXCEPT ![r] = jobs[r]] BY <1>1 DEF ViewsInv, ViewsTypes
<1> QED BY <1>2, <1>3, OnwardStep

\* A read has work that may run while its capture goes on, or when it is over.
LEMMA WorkFacts ==
    ASSUME ViewsInv, NEW r \in working
    PROVE  /\ r \in Reads /\ r \in Requests /\ r \in Charged(broker.budget)
           /\ broker.budget.entries[r].phase # "retained" /\ BudgetInv(broker.budget)
           /\ jobs[r].phase \in {"capturing", "over"}
           /\ jobs[r].phase = "over" => broker.budget.entries[r].invalidated
<1>1. r \in Reads /\ r \in Requests BY DEF ViewsInv, ViewsTypes, Requests
<1>2. ChargeOK(broker.budget, jobs[r], r) /\ WorkOK(broker.budget, working, r)
    BY <1>1, RequestFacts
<1>3. BudgetInv(broker.budget) BY DEF ViewsInv, Good, AccountInv, AccountBut
<1> QED BY <1>1, <1>2, <1>3 DEF ChargeOK, WorkOK

\* The worker of a request stops, with what it found.
LEMMA WorkStopsStep ==
    ASSUME ViewsInv, NEW r \in Reads, NEW keep \in BOOLEAN, WorkStops(r, keep) PROVE ViewsInv' /\ LeasesStay
<1> DEFINE live == jobs[r].view[1] \in broker.live
           b == ConfirmStopped(broker.budget, r, keep, live)
           s == Reconciled([broker EXCEPT !.budget = b], r)
<1>0. r \in working BY DEF WorkStops
<1>1. /\ r \in Requests /\ r \in Charged(broker.budget)
      /\ broker.budget.entries[r].phase # "retained" /\ BudgetInv(broker.budget)
      /\ jobs[r].phase \in {"capturing", "over"}
      /\ jobs[r].phase = "over" => broker.budget.entries[r].invalidated
    BY <1>0, WorkFacts
<1>2. /\ BudgetInv(b) /\ Others(broker.budget, b, r)
      /\ \/ /\ Charged(b) = Charged(broker.budget) /\ ~broker.budget.entries[r].invalidated
            /\ b.entries[r].phase = "retained" /\ b.entries[r].view = broker.budget.entries[r].view
            /\ ~b.entries[r].delivery
         \/ Charged(b) = Charged(broker.budget) \ {r}
  <2>1. live \in BOOLEAN OBVIOUS
  <2> HIDE DEF live
  <2> QED BY <1>1, <2>1, ConfirmKeeps
<1>3. /\ working' = working \ {r} /\ UNCHANGED <<outside, terms, control>>
      /\ IF jobs[r].phase = "over" THEN Ends(r, s) ELSE broker' = s /\ UNCHANGED <<jobs, broken>>
    BY DEF WorkStops
<1>4. Goes(broker, broker) BY GoesNowhere DEF ViewsInv
<1> HIDE DEF b
<1>5. /\ Good(s, terms, jobs) /\ LaterBut(broker, s, r) /\ Open(s) \subseteq Open(broker)
      /\ s.budget = b /\ s.fenced = broker.fenced
  <2>1. Charged(b) \in {Charged(broker.budget), Charged(broker.budget) \ {r}} BY <1>2
  <2>2. r \in Charged(b) => b.entries[r].view = broker.budget.entries[r].view BY <1>2
  <2> QED BY <1>2, <1>4, <2>1, <2>2, ReconciledFacts
<1> HIDE DEF s
<1>6. working' \subseteq Reads /\ terms' \in [Enrolls -> Terms \cup {Nil}]
    BY <1>3 DEF ViewsInv, ViewsTypes
<1>7. CASE jobs[r].phase = "over"
  <2>1. r \notin Charged(s.budget) /\ r \notin working' BY <1>1, <1>2, <1>3, <1>5, <1>7
  <2>2. TermsStay(terms, terms') BY <1>3 DEF TermsStay
  <2> QED BY <1>1, <1>3, <1>5, <1>6, <1>7, <2>1, <2>2, EndsStep
<1>8. CASE jobs[r].phase # "over"
  <2>1. broker' = s /\ UNCHANGED <<jobs, broken>> BY <1>3, <1>8
  <2>2. ChargeOK(s.budget, jobs[r], r) BY <1>1, <1>2, <1>5, <1>8 DEF ChargeOK
  <2>3. WorkOK(s.budget, working', r) BY <1>2, <1>3, <1>5 DEF WorkOK
  <2>4. LeaseStays(broker, jobs, broker', jobs', r) BY <1>1, <1>2, <1>5, <1>8, <2>1 DEF LeaseStays
  <2> QED BY <1>3, <1>5, <1>6, <2>1, <2>2, <2>3, <2>4, SameJobStep
<1> QED BY <1>7, <1>8

\* Nobody knows what became of the worker: the entry is quarantined.
LEMMA WorkUnknownStep ==
    ASSUME ViewsInv, NEW r \in Reads, WorkUnknown(r) PROVE ViewsInv' /\ LeasesStay
<1> DEFINE b == UnknownDrain(broker.budget, r)
           s == Reconciled([broker EXCEPT !.budget = b], r)
<1>0. r \in working /\ broker' = s /\ UNCHANGED <<outside, terms, jobs, control, working, broken>>
    BY DEF WorkUnknown
<1>1. /\ r \in Requests /\ r \in Charged(broker.budget)
      /\ broker.budget.entries[r].phase # "retained" /\ BudgetInv(broker.budget)
      /\ jobs[r].phase \in {"capturing", "over"}
      /\ jobs[r].phase = "over" => broker.budget.entries[r].invalidated
    BY <1>0, WorkFacts
<1>2. BudgetInv(b) /\ SameWork(broker.budget, b) /\ Others(broker.budget, b, r) BY <1>1, DrainKeeps
<1>3. Goes(broker, broker) BY GoesNowhere DEF ViewsInv
<1> HIDE DEF b
<1>4. /\ Charged(b) = Charged(broker.budget) /\ Stays(broker.budget.entries[r], b.entries[r])
    BY <1>1, <1>2 DEF SameWork
<1>5. /\ Good(s, terms, jobs) /\ LaterBut(broker, s, r) /\ Open(s) \subseteq Open(broker)
      /\ s.budget = b /\ s.fenced = broker.fenced
  <2>1. b.entries[r].view = broker.budget.entries[r].view BY <1>4 DEF Stays
  <2> QED BY <1>2, <1>3, <1>4, <2>1, ReconciledFacts
<1> HIDE DEF s
<1>6. ChargeOK(broker.budget, jobs[r], r) /\ WorkOK(broker.budget, working, r) BY <1>1, RequestFacts
<1>7. ChargeOK(s.budget, jobs[r], r) BY <1>4, <1>5, <1>6 DEF ChargeOK, Stays
<1>8. WorkOK(s.budget, working', r) BY <1>0, <1>4, <1>5, <1>6 DEF WorkOK, Stays
<1>9. LeaseStays(broker, jobs, broker', jobs', r) BY <1>0, <1>1, <1>5, <1>7 DEF LeaseStays, ChargeOK
<1>10. working' \subseteq Reads BY <1>0 DEF ViewsInv, ViewsTypes
<1> QED BY <1>0, <1>5, <1>7, <1>8, <1>9, <1>10, SameJobStep

\* The capture settles: the entry is retained, or the read fails.
LEMMA CaptureSettlesStep ==
    ASSUME ViewsInv, NEW r \in Reads, NEW bytes \in BOOLEAN, CaptureSettles(r, bytes)
    PROVE  ViewsInv' /\ LeasesStay
<1> DEFINE view == jobs[r].view
           s == IF bytes THEN Checked(broker, view[1], view[2]) ELSE broker
           goes == bytes /\ view[1] \in s.live /\ IsDeliverable(s.budget, r, TRUE)
<1>0. jobs[r].phase = "capturing" /\ UNCHANGED <<outside, terms, control, working>> BY DEF CaptureSettles
<1>1. /\ r \in Requests /\ jobs[r] \in RequestJob /\ jobs[r].ch \in Channels
      /\ ViewOK(terms, jobs[r]) /\ ChargeOK(broker.budget, jobs[r], r) /\ WorkOK(broker.budget, working, r)
    BY <1>0, RequestFacts DEF Requests, Flying
<1>2. Goes(broker, s) BY CheckedGoes, GoesNowhere DEF ViewsInv
<1>3. CASE goes
  <2> DEFINE req == [phase |-> "checking", ch |-> jobs[r].ch, view |-> view,
                     seen |-> usage[Conversation[jobs[r].ch]], want |-> jobs[r].want]
  <2>1. broker' = s /\ jobs' = [jobs EXCEPT ![r] = req] /\ UNCHANGED broken
      BY <1>3 DEF CaptureSettles, Asking
  <2>2. req \in RequestJob BY <1>1, ViewsAssumption DEF ViewsInv, ViewsTypes, RequestJob
  <2>3. /\ req.phase = "checking" /\ req.view = jobs[r].view /\ req.ch = jobs[r].ch
      OBVIOUS
  <2>4. s = broker BY <1>3, CheckedGoes DEF ViewsInv
  <2>5. r \in Charged(s.budget) /\ s.budget.entries[r].phase = "retained" BY <1>3 DEF IsDeliverable
  <2> HIDE DEF req, s
  <2>6. ChargeOK(s.budget, req, r) BY <1>0, <1>1, <2>3, <2>4, <2>5 DEF ChargeOK
  <2>7. ViewOK(terms, req) BY <1>0, <1>1, <2>3 DEF ViewOK, Flying
  <2>8. LaterBut(broker, s, r) /\ Open(s) \subseteq Open(broker) /\ Good(s, terms, jobs) BY <1>2, GoesFacts
  <2>9. LeaseStays(broker, jobs, broker', jobs', r) BY <1>0, <1>1, <2>1, <2>4 DEF LeaseStays, ChargeOK
  <2>10. WorkOK(s.budget, working', r) /\ working' \subseteq Reads
      BY <1>0, <1>1, <2>4 DEF ViewsInv, ViewsTypes
  <2> QED BY <1>0, <2>1, <2>2, <2>3, <2>4, <2>6, <2>7, <2>8, <2>9, <2>10, OnwardStep DEF Flying
<1>4. CASE ~goes
  <2> DEFINE t == Discarded(s, r)
  <2>1. Ends(r, t) BY <1>4 DEF CaptureSettles
  <2> HIDE DEF s
  <2>2. /\ Good(t, terms, jobs) /\ LaterBut(broker, t, r) /\ Open(t) \subseteq Open(broker)
        /\ r \in Charged(t.budget) <=>
             r \in Charged(broker.budget) /\ broker.budget.entries[r].phase # "retained"
        /\ r \in Charged(t.budget) =>
             t.budget.entries[r].phase # "retained" /\ t.budget.entries[r].invalidated
      BY <1>0, <1>2, DiscardedFacts
  <2> HIDE DEF t
  <2>3. r \in working' <=> r \in Charged(t.budget) BY <1>0, <1>1, <2>2 DEF WorkOK
  <2>4. TermsStay(terms, terms') BY <1>0 DEF TermsStay
  <2>5. terms' \in [Enrolls -> Terms \cup {Nil}] /\ working' \subseteq Reads
      BY <1>0 DEF ViewsInv, ViewsTypes
  <2> QED BY <1>0, <1>1, <2>1, <2>2, <2>3, <2>4, <2>5, EndsStep
<1> QED BY <1>3, <1>4

\* The last version: the lease is granted, or the read is discarded.
LEMMA FinalVersionStep ==
    ASSUME ViewsInv, NEW r \in Reads, FinalVersion(r) PROVE ViewsInv' /\ LeasesStay
<1> DEFINE s == Refreshed(broker, r, jobs[r].want)
           goes == VersionOk(broker, r, jobs[r].want) /\ MayUse(s, jobs[r].ch)
<1>0. jobs[r].phase = "checking" /\ UNCHANGED <<outside, terms, control, working>> BY DEF FinalVersion
<1>1. /\ r \in Requests /\ jobs[r] \in RequestJob /\ jobs[r].ch \in Channels /\ jobs[r].seen \in Version
      /\ ViewOK(terms, jobs[r]) /\ ChargeOK(broker.budget, jobs[r], r) /\ WorkOK(broker.budget, working, r)
    BY <1>0, RequestFacts DEF Requests, Flying
<1>2. Goes(broker, s) BY <1>1, RefreshedGoes DEF ViewsInv
<1>3. CASE goes
  <2> DEFINE req == [jobs[r] EXCEPT !.phase = "leased"]
  <2>1. broker' = s /\ jobs' = [jobs EXCEPT ![r] = req] /\ UNCHANGED broken
      BY <1>1, <1>3 DEF FinalVersion, ViewsInv, ViewsTypes
  <2>2. req \in RequestJob BY <1>1 DEF RequestJob
  <2>3. req.phase = "leased" /\ req.view = jobs[r].view /\ req.ch = jobs[r].ch BY <1>1 DEF RequestJob
  <2> HIDE DEF req, s
  <2>4. /\ Stays(broker.budget.entries[r], s.budget.entries[r]) /\ r \in Charged(s.budget)
        /\ broker.budget.entries[r].phase = "retained" /\ ~broker.budget.entries[r].delivery
      BY <1>0, <1>1, <1>2 DEF Goes, Later, SameWork, ChargeOK
  <2>5. s.budget.entries[r].phase = "retained" /\ ~s.budget.entries[r].delivery BY <2>4 DEF Stays
  <2>6. ChargeOK(s.budget, req, r) BY <2>3, <2>4, <2>5 DEF ChargeOK
  <2>7. ViewOK(terms, req) BY <1>0, <1>1, <2>3 DEF ViewOK, Flying
  <2>8. LaterBut(broker, s, r) /\ Open(s) \subseteq Open(broker) /\ Good(s, terms, jobs) BY <1>2, GoesFacts
  <2>9. LeaseStays(broker, jobs, broker', jobs', r) BY <1>0, <2>1, <2>5 DEF LeaseStays
  <2>10. WorkOK(s.budget, working', r) /\ working' \subseteq Reads
      BY <1>0, <1>1, <2>4, <2>5 DEF ViewsInv, ViewsTypes, WorkOK
  <2>11. broker.fenced \subseteq s.fenced BY <1>2 DEF Goes, Later
  <2> QED BY <1>0, <2>1, <2>2, <2>3, <2>6, <2>7, <2>8, <2>9, <2>10, <2>11, OnwardStep DEF Flying
<1>4. CASE ~goes
  <2>1. Ends(r, LeaseReleased(s, r)) BY <1>4 DEF FinalVersion
  <2> HIDE DEF s
  <2> QED BY <1>0, <1>2, <2>1, ReleaseGoes
<1> QED BY <1>3, <1>4

\* A channel loses a grant that nothing live stands on.
LEMMA GrantGoes ==
    ASSUME NEW s, NEW ch \in Channels, Good(s, terms, jobs),
           ~s.enabled \/ \A g \in s.live : terms[g].ch # ch
    PROVE  LET t == [s EXCEPT !.chan[ch].grant = Nil] IN Goes(s, t) /\ t.chan[ch].grant = Nil
<1>1. /\ s \in Broker /\ s.chan \in [Channels -> Channel]
      /\ RegistryInv(s, terms) /\ AccountInv(s, jobs)
    BY GoodFields DEF Good
<1> DEFINE c == [s.chan[ch] EXCEPT !.grant = Nil]
           t == [s EXCEPT !.chan[ch].grant = Nil]
<1>2. c \in Channel /\ c.grant = Nil /\ c.life = s.chan[ch].life BY <1>1 DEF Channel
<1>3. t = [s EXCEPT !.chan = [s.chan EXCEPT ![ch] = c]] BY <1>1 DEF Broker
<1> HIDE DEF c, t
<1>4. /\ t \in Broker /\ t.live = s.live /\ t.records = s.records /\ t.disposed = s.disposed
      /\ t.attached = s.attached /\ t.budget = s.budget /\ t.fenced = s.fenced
      /\ t.enabled = s.enabled /\ t.chan = [s.chan EXCEPT ![ch] = c]
    BY <1>1, <1>2, <1>3 DEF Broker
<1>5. \A d \in Channels : t.chan[d].life = s.chan[d].life /\ t.chan[d].grant \in {s.chan[d].grant, Nil}
    BY <1>1, <1>2, <1>4
<1>6. \A g \in s.live \ {} : t.chan[terms[g].ch].grant = s.chan[terms[g].ch].grant
  <2>1. \A g \in s.live : terms[g].ch # ch BY <1>1 DEF RegistryInv, RegistryBut
  <2> QED BY <1>1, <1>4, <2>1
<1>7. RegistryInv(t, terms) BY <1>1, <1>4, <1>5, <1>6, RegistryMoves DEF RegistryInv
<1>8. AccountInv(t, jobs) BY <1>1, <1>4, AccountMoves DEF AccountInv
<1>9. Later(s, t) BY <1>4, <1>5 DEF Later, SameWork, Stays
<1> QED BY <1>1, <1>2, <1>4, <1>7, <1>8, <1>9 DEF Goes, Good, t

\* An enrollment is asked for, and its channel is taken for it.
LEMMA EnrollStartStep ==
    ASSUME ViewsInv, NEW e \in Enrolls, NEW ch \in Channels, NEW V \in SUBSET Bindings, EnrollStart(e, ch, V)
    PROVE  ViewsInv' /\ LeasesStay
<1> DEFINE s == Statused(broker, ch)
           active == s.enabled /\ \E g \in s.live : terms[g].ch = ch
           t == IF active THEN s ELSE [s EXCEPT !.chan[ch].grant = Nil]
           u == [t EXCEPT !.chan[ch].enrolling = e]
           req == [phase |-> "asking", ch |-> ch, view |-> Nil, seen |-> usage[Conversation[ch]], want |-> Nil]
           term == [ch |-> ch, views |-> V, epoch |-> 0]
<1>0. /\ jobs[e].phase = "new" /\ terms[e] = Nil /\ ch \in Open(broker)
      /\ UNCHANGED <<outside, control, working, broken>>
    BY DEF EnrollStart
<1>1. ViewsTypes /\ Good(broker, terms, jobs) /\ e \in Requests /\ e \notin Reads
    BY BudgetAssumption DEF ViewsInv, Requests
<1>2. Goes(broker, s) BY <1>1, StatusedGoes
<1>3. Goes(s, t)
  <2>1. Good(s, terms, jobs) BY <1>2 DEF Goes
  <2> HIDE DEF s
  <2> QED BY <2>1, GrantGoes, GoesNowhere
<1>4. \/ broker' = t /\ UNCHANGED <<terms, jobs>>
      \/ /\ broker' = u /\ terms' = [terms EXCEPT ![e] = term]
         /\ jobs' = [jobs EXCEPT ![e] = req]
    BY DEF EnrollStart, Asking
<1> HIDE DEF s, t
<1>5. Goes(broker, t) BY <1>2, <1>3, GoesOn
<1>6. Goes(broker, u)
  <2>1. Good(t, terms, jobs) BY <1>3 DEF Goes
  <2>2. Goes(t, u) BY <2>1, EnrollingGoes
  <2> QED BY <1>5, <2>2, GoesOn
<1>7. CASE broker' = t /\ UNCHANGED <<terms, jobs>>
  <2>1. ViewsTypes' BY <1>0, <1>1, <1>7 DEF ViewsTypes, outside, control
  <2>2. UNCHANGED <<joined, replies, down>> BY <1>0 DEF outside, control
  <2> QED BY <1>0, <1>5, <1>7, <2>1, <2>2, GoesStep
<1>8. CASE broker' = u /\ terms' = [terms EXCEPT ![e] = term] /\ jobs' = [jobs EXCEPT ![e] = req]
  <2>1. term \in Terms /\ term.ch = ch /\ term.epoch = 0 BY ViewsAssumption DEF Terms
  <2>2. req \in RequestJob /\ req.phase = "asking" /\ req.ch = ch
      BY <1>1, ViewsAssumption DEF ViewsTypes, RequestJob
  <2> HIDE DEF u, term, req
  <2>3. /\ jobs' \in [Requests -> RequestJob] /\ jobs'[e] = req
        /\ \A x \in Requests \ {e} : jobs'[x] = jobs[x]
      BY <1>1, <1>8, <2>2 DEF ViewsTypes
  <2>4. /\ terms' \in [Enrolls -> Terms \cup {Nil}] /\ terms'[e] = term
        /\ \A x \in Enrolls \ {e} : terms'[x] = terms[x]
      BY <1>1, <1>8, <2>1 DEF ViewsTypes
  <2>5. TermsStay(terms, terms') BY <1>0, <2>4, NilAssumption DEF TermsStay, Granted
  <2>6. LaterBut(broker, u, e) /\ Open(u) \subseteq Open(broker) /\ Good(u, terms, jobs) BY <1>6, GoesFacts
  <2>7. Good(broker', terms', jobs')
    <3>1. Good(u, terms', jobs) BY <2>5, <2>6, RegistryTerms DEF Good, TermsStay
    <3>2. u.attached \subseteq Reads BY <2>6, GoodFields
    <3>3. \A x \in u.attached : jobs'[x].view = jobs[x].view BY <1>1, <2>3, <3>2 DEF Requests
    <3> QED BY <1>8, <3>1, <3>3, AccountJobs DEF Good
  <2>8. ViewsTypes' BY <1>0, <1>1, <2>3, <2>4 DEF ViewsTypes, outside, control
  <2>9. RequestOK(broker', terms', jobs', working', broken', down', e)
    <3>1. u.chan[ch].life \in {"open", "retired"} BY <1>0, <1>6 DEF Goes, Later, Open
    <3>2. EnrollOK(terms', jobs', e) BY <2>1, <2>2, <2>3, <2>4 DEF EnrollOK
    <3> QED BY <1>1, <1>8, <2>2, <2>3, <3>1, <3>2 DEF RequestOK
  <2>10. UNCHANGED <<outside, joined, replies>> BY <1>0 DEF control
  <2> QED BY <1>0, <1>1, <1>8, <2>3, <2>4, <2>5, <2>6, <2>7, <2>8, <2>9, <2>10, MoveStep
<1> QED BY <1>4, <1>7, <1>8

\* An enrollment is made: nothing that is kept has one of its bindings, and its channel
\* has no other grant.
LEMMA EnrollMade ==
    ASSUME ViewsInv, NEW e \in Enrolls, jobs[e].phase = "asking", NEW t, Goes(broker, t), t.enabled,
           t.chan[jobs[e].ch].grant = Nil, ~Taken(t, terms[e].views),
           NEW n \in 0 .. LastEpoch, n > 0, terms' = [terms EXCEPT ![e].epoch = n],
           Ends(e, [t EXCEPT !.records = t.records \cup {e}, !.live = t.live \cup {e},
                             !.chan[jobs[e].ch].grant = e]),
           UNCHANGED <<outside, control, working>>
    PROVE  ViewsInv' /\ LeasesStay
<1> DEFINE ch == jobs[e].ch
           c == [t.chan[ch] EXCEPT !.grant = e]
           u == [t EXCEPT !.records = t.records \cup {e}, !.live = t.live \cup {e}, !.chan[ch].grant = e]
<1>0. /\ e \in Requests /\ ch \in Channels /\ e \notin Reads /\ e \notin working /\ e # Nil
      /\ terms[e] \in Terms /\ terms[e].epoch = 0 /\ terms[e].ch = ch
    BY RequestFacts, BudgetAssumption DEF Flying, EnrollOK, Requests
<1>1. /\ t \in Broker /\ t.chan \in [Channels -> Channel] /\ Good(t, terms, jobs)
      /\ RegistryInv(t, terms) /\ AccountInv(t, jobs)
    BY GoodFields DEF Goes, Good
<1>2. c \in Channel /\ c.grant = e /\ c.life = t.chan[ch].life BY <1>0, <1>1 DEF Channel
<1>3. u = [t EXCEPT !.records = t.records \cup {e}, !.live = t.live \cup {e},
                    !.chan = [t.chan EXCEPT ![ch] = c]]
    BY <1>0, <1>1 DEF Broker
<1> HIDE DEF c, u
<1>4. /\ u \in Broker /\ u.live = t.live \cup {e} /\ u.records = t.records \cup {e}
      /\ u.disposed = t.disposed /\ u.attached = t.attached /\ u.budget = t.budget
      /\ u.fenced = t.fenced /\ u.enabled = t.enabled /\ u.chan = [t.chan EXCEPT ![ch] = c]
    BY <1>1, <1>2, <1>3 DEF Broker
<1>5. /\ u.chan[ch].grant = e /\ \A d \in Channels \ {ch} : u.chan[d] = t.chan[d]
      /\ \A d \in Channels : u.chan[d].life = t.chan[d].life
    BY <1>0, <1>1, <1>2, <1>4
<1>6. /\ terms' \in [Enrolls -> Terms \cup {Nil}] /\ Granted(terms', e)
      /\ terms'[e].ch = ch /\ terms'[e].views = terms[e].views
      /\ \A g \in Enrolls \ {e} : terms'[g] = terms[g]
  <2> DEFINE term == [terms[e] EXCEPT !.epoch = n]
  <2>1. term \in Terms /\ term.epoch = n /\ term.ch = ch /\ term.views = terms[e].views
      BY <1>0 DEF Terms
  <2>2. terms \in [Enrolls -> Terms \cup {Nil}] BY DEF ViewsInv, ViewsTypes
  <2>3. terms' = [terms EXCEPT ![e] = term] BY <2>2
  <2> HIDE DEF term
  <2>4. terms'[e] = term BY <2>2, <2>3
  <2> QED BY <2>1, <2>2, <2>3, <2>4 DEF Granted
<1>7. \A g : Granted(terms, g) => g # e /\ Granted(terms', g) /\ terms'[g] = terms[g]
    BY <1>0, <1>6 DEF Granted
<1>8. \A g \in t.records : g # e /\ Granted(terms', g) /\ terms'[g] = terms[g]
    BY <1>1, <1>7 DEF RegistryInv, RegistryBut
<1>9. RegistryInv(u, terms')
  <2>1. t.live \subseteq t.records BY <1>1 DEF RegistryInv, RegistryBut
  <2>2. \A g \in u.live : u.chan[terms'[g].ch].grant = g
    <3>1. ASSUME NEW g \in t.live PROVE u.chan[terms'[g].ch].grant = g
      <4>1. t.chan[terms[g].ch].grant = g /\ terms'[g] = terms[g] /\ terms[g].ch \in Channels /\ g # Nil
          BY <1>1, <1>8, <2>1, BudgetAssumption DEF RegistryInv, RegistryBut, Granted, Terms
      <4> QED BY <1>5, <4>1
    <3> QED BY <1>4, <1>5, <1>6, <3>1
  <2>3. \A d \in Channels : u.chan[d].grant # Nil =>
            Granted(terms', u.chan[d].grant) /\ terms'[u.chan[d].grant].ch = d
    <3> SUFFICES ASSUME NEW d \in Channels, NEW g, g = u.chan[d].grant, g # Nil
                 PROVE  Granted(terms', g) /\ terms'[g].ch = d
        OBVIOUS
    <3>1. CASE d = ch BY <1>5, <1>6, <3>1
    <3>2. CASE d # ch
      <4>1. g = t.chan[d].grant BY <1>5, <3>2
      <4>2. Granted(terms, g) /\ terms[g].ch = d BY <1>1, <4>1 DEF RegistryInv, RegistryBut
      <4> QED BY <1>7, <4>2
    <3> QED BY <3>1, <3>2
  <2>4. ASSUME NEW g \in u.records, NEW h \in u.records, NEW b \in terms'[g].views \cap terms'[h].views
        PROVE  g = h \/ <<g, b>> \in u.disposed \/ <<h, b>> \in u.disposed
    <3>1. CASE g \in t.records /\ h \in t.records
        BY <1>1, <1>4, <1>8, <2>4, <3>1 DEF RegistryInv, RegistryBut
    <3>2. CASE g = e /\ h \in t.records BY <1>4, <1>6, <1>8, <2>4, <3>2 DEF Taken
    <3>3. CASE h = e /\ g \in t.records BY <1>4, <1>6, <1>8, <2>4, <3>3 DEF Taken
    <3> QED BY <1>4, <3>1, <3>2, <3>3
  <2>5. \A g \in u.records : Granted(terms', g) BY <1>4, <1>6, <1>8
  <2> QED BY <1>4, <2>1, <2>2, <2>3, <2>4, <2>5 DEF RegistryInv, RegistryBut
<1>10. AccountInv(u, jobs)
  <2>1. u.records \ u.live \subseteq t.records \ t.live BY <1>4
  <2> QED BY <1>1, <1>4, <2>1 DEF AccountInv, AccountBut
<1>11. LaterBut(broker, u, e) /\ Open(u) \subseteq Open(broker)
  <2>1. LaterBut(broker, t, e) /\ Open(t) \subseteq Open(broker) BY GoesFacts
  <2>2. Open(u) = Open(t) BY <1>5 DEF Open
  <2>3. LaterBut(t, u, e) BY <1>4, <1>5 DEF LaterBut, Stays
  <2> QED BY <2>1, <2>2, <2>3, LaterButTrans
<1>12. TermsStay(terms, terms') BY <1>7 DEF TermsStay
<1>13. working' \subseteq Reads BY DEF ViewsInv, ViewsTypes
<1>14. jobs[e].phase # "leased" /\ Good(u, terms', jobs) BY <1>9, <1>10 DEF Good
<1>15. Ends(e, u) BY DEF u
<1> QED BY <1>0, <1>6, <1>11, <1>12, <1>13, <1>14, <1>15, EndsStep

\* An enrollment with its version found: it is recorded, or it fails.
LEMMA EnrollVersionStep ==
    ASSUME ViewsInv, NEW e \in Enrolls, EnrollVersion(e) PROVE ViewsInv' /\ LeasesStay
<1>a. Good(broker, terms, jobs) BY DEF ViewsInv
<1> DEFINE ch == jobs[e].ch
           V == terms[e].views
           z == Refreshed(broker, e, Nil)
           s == [z EXCEPT !.chan[ch].enrolling = Nil]
           goes == VersionOk(broker, e, Nil) /\ s.chan[ch].grant = Nil /\ ~down /\ Approved(ch, V)
           checked == TransportChecked(s, ch)
           enrolls == goes /\ OnTicket(checked, ch, V) /\ s.enabled
           t == IF enrolls THEN Sweep(checked) ELSE IF goes THEN checked ELSE s
           recorded == /\ enrolls /\ ~Taken(t, V) /\ Room(t, ch, V)
                   /\ RecipientCurrent(t, ch, jobs[e].seen.epoch)
<1>0. jobs[e].phase = "asking" /\ UNCHANGED <<outside, control, working>>
    BY Zenon DEF EnrollVersion
<1>1. e \in Requests /\ ch \in Channels /\ jobs[e].seen \in Version
    BY <1>0, RequestFacts DEF Requests, Flying
<1>2. Goes(broker, z) BY <1>a, <1>1, RefreshedGoes
<1>3. IF recorded
      THEN /\ Ends(e, [t EXCEPT !.records = t.records \cup {e}, !.live = t.live \cup {e}, !.chan[ch].grant = e])
           /\ terms' = [terms EXCEPT ![e].epoch = jobs[e].seen.epoch]
      ELSE Ends(e, t) /\ terms' = [terms EXCEPT ![e] = Nil]
    BY Zenon DEF EnrollVersion
<1> HIDE DEF z
<1>4. Goes(z, s) BY <1>1, <1>2, EnrollingGoes DEF Goes
<1> HIDE DEF s
<1>5. Goes(s, checked) /\ checked.enabled = s.enabled BY <1>1, <1>4, TransportGoes DEF Goes
<1> HIDE DEF checked
<1>6. Goes(checked, Sweep(checked)) /\ Sweep(checked).enabled = checked.enabled
    BY <1>5, SweepGoes DEF Goes
<1>7. Goes(s, t) BY <1>4, <1>5, <1>6, GoesOn, GoesNowhere DEF Goes
<1>8. Goes(broker, t) BY <1>2, <1>4, <1>7, GoesOn
<1>9. CASE recorded
  <2>1. t.enabled BY <1>5, <1>6, <1>9
  <2>2. t.chan[ch].grant = Nil BY <1>1, <1>7, <1>9 DEF Goes, Later
  <2>3. ~Taken(t, V) BY <1>9
  <2>4. jobs[e].seen.epoch \in 0 .. LastEpoch /\ jobs[e].seen.epoch > 0
    <3>1. VersionOk(broker, e, Nil) BY <1>9
    <3>2. broker.chan[ch].blocked \in 0 .. LastEpoch
        BY <1>1, GoodFields DEF ViewsInv, Channel
    <3> QED BY <1>1, <3>1, <3>2, ViewsAssumption DEF VersionOk, Version
  <2>5. /\ Ends(e, [t EXCEPT !.records = t.records \cup {e}, !.live = t.live \cup {e}, !.chan[ch].grant = e])
        /\ terms' = [terms EXCEPT ![e].epoch = jobs[e].seen.epoch]
      BY <1>3, <1>9
  <2> HIDE DEF t, recorded
  <2> QED BY <1>0, <1>8, <2>1, <2>2, <2>3, <2>4, <2>5, EnrollMade
<1>10. CASE ~recorded
  <2>1. Ends(e, t) /\ terms' = [terms EXCEPT ![e] = Nil] BY <1>3, <1>10
  <2> HIDE DEF t, recorded
  <2> QED BY <1>0, <1>8, <2>1, EnrollFails
<1> HIDE DEF recorded, t, enrolls, goes
<1> QED BY <1>9, <1>10

\* Every step of the views.
LEMMA ViewsStep == ASSUME ViewsInv, ViewsNext PROVE ViewsInv' /\ LeasesStay
<1>1. CASE Serves
  <2>1. CASE \E e \in Enrolls : EnrollVersion(e) BY <2>1, EnrollVersionStep
  <2>2. CASE \E e \in Enrolls, ch \in Channels, V \in SUBSET Bindings \ {{}} : EnrollStart(e, ch, V)
      BY <2>2, EnrollStartStep
  <2>3. CASE \E r \in Reads, ch \in Channels, view \in Views : ReadStart(r, ch, view)
      BY <2>3, ReadStartStep
  <2>4. ASSUME NEW r \in Reads, StatusVersion(r) \/ ReadVersion(r) \/ FinalVersion(r)
        PROVE  ViewsInv' /\ LeasesStay
      BY <2>4, StatusVersionStep, ReadVersionStep, FinalVersionStep
  <2>5. ASSUME NEW r \in Reads, NEW good \in BOOLEAN, WorkStops(r, good) \/ CaptureSettles(r, good)
        PROVE  ViewsInv' /\ LeasesStay
      BY <2>5, WorkStopsStep, CaptureSettlesStep
  <2>6. CASE \E c \in ConversationIds : UsageOn(c) BY <2>6, UsageOnStep
  <2>7. ASSUME NEW ch \in Channels, Issue(ch) \/ IssueReply(ch) \/ Activate(ch) \/ ActivateReply(ch)
        PROVE  ViewsInv' /\ LeasesStay
      BY <2>7, IssueStep, IssueReplyStep, ActivateStep, ActivateReplyStep
  <2>8. CASE SetEnabled(TRUE) BY <2>8, EnableStep
  <2> QED BY <1>1, <2>1, <2>2, <2>3, <2>4, <2>5, <2>6, <2>7, <2>8 DEF Serves
<1>2. CASE Upset
  <2>1. CASE \E q \in Requests : VersionRejected(q) BY <2>1, RejectedStep
  <2>2. CASE \E c \in ConversationIds : UsageAsked(c) BY <2>2, UsageAskedStep
  <2>3. ASSUME NEW r \in Reads, WorkUnknown(r) \/ \E ch \in Channels : StatusStart(r, ch)
        PROVE  ViewsInv' /\ LeasesStay
      BY <2>3, WorkUnknownStep, StatusStartStep
  <2>4. CASE \E b \in Bindings : SessionHalts(b) BY <2>4, HaltStep
  <2>5. ASSUME NEW ch \in Channels, ViewsOff(ch) \/ RevokeChannel(ch) \/ Reissue(ch)
        PROVE  ViewsInv' /\ LeasesStay
      BY <2>5, ViewsOffStep, RevokeChannelStep, ReissueStep
  <2>6. CASE \/ \E b \in Bindings : BindingChanges(b)
             \/ \E ch \in Channels : ConnectorDies(ch)
             \/ \E e \in Enrolls : Lapses(e)
      BY <2>6, ChangeStep
  <2>7. CASE SetEnabled(FALSE) \/ CloseViews BY <2>7, DisableStep, CloseStep
  <2> QED BY <1>2, <2>1, <2>2, <2>3, <2>4, <2>5, <2>6, <2>7 DEF Upset
<1> QED BY <1>1, <1>2 DEF ViewsNext

\* At the start nothing is there.
LEMMA ViewsStart == ViewsInit => ViewsInv
<1> SUFFICES ASSUME ViewsInit PROVE ViewsInv OBVIOUS
<1>1. PICK used \in Instances :
          /\ jobs = [q \in Requests |-> IF q \in used THEN Idle ELSE [Idle EXCEPT !.phase = "over"]]
          /\ broker = [enabled |-> FALSE,
                 chan |-> [ch \in Channels |->
                     [life |-> IF ch \notin used THEN "retired" ELSE IF ch \in Static THEN "open" ELSE "new",
                      blocked |-> 0, epoch |-> 0,
                      enabled |-> FALSE, grant |-> Nil, enrolling |-> Nil]],
                 fenced |-> {}, records |-> {}, live |-> {}, attached |-> {}, disposed |-> {},
                 budget |-> EmptyBudget]
    BY DEF ViewsInit
<1>2. \A q \in Requests : jobs[q] \in RequestJob /\ jobs[q].phase \in {"new", "over"}
    BY <1>1, JobIdle DEF RequestJob, Idle
<1>3. jobs \in [Requests -> RequestJob] BY <1>1, <1>2
<1>4. \A ch \in Channels : /\ broker.chan[ch] \in Channel /\ broker.chan[ch].grant = Nil
                           /\ broker.chan[ch].life \in {"new", "open", "retired"}
                           /\ broker.chan[ch].life = "open" => ch \in Static
                           /\ ch \in Static => broker.chan[ch].life \in {"open", "retired"}
    BY <1>1, ViewsAssumption DEF Channel
<1>5. EmptyBudget \in Budget /\ Charged(EmptyBudget) = {} BY DEF EmptyBudget, Budget, Charged
<1>6. BudgetInv(EmptyBudget)
  <2>1. \A view : OnView(EmptyBudget, view) = {} BY <1>5 DEF OnView
  <2>2. Total(EmptyBudget, {}) = 0 BY FS_EmptySet, TotalRecurs
  <2>3. BudgetExact(EmptyBudget)
    <3>1. EmptyBudget.bytes = 0 /\ 0 <= DeviceBytes /\ 0 <= ViewBytes BY Units DEF EmptyBudget
    <3>2. \A view \in Views : Total(EmptyBudget, OnView(EmptyBudget, view)) <= ViewBytes
        BY <2>1, <2>2, <3>1
    <3> HIDE DEF Charged, EmptyBudget, Total
    <3> QED BY <1>5, <2>2, <3>1, <3>2, ExactTotals
  <2>4. IsFiniteSet({}) BY FS_EmptySet
  <2> QED BY <1>5, <2>3, <2>4 DEF BudgetInv, EntriesOK
<1>7. broker \in Broker
  <2>1. broker.chan \in [Channels -> Channel] BY <1>1, <1>4
  <2> QED BY <1>1, <1>5, <2>1 DEF Broker
<1>8. /\ broker.enabled = FALSE /\ broker.fenced = {} /\ broker.records = {} /\ broker.live = {}
      /\ broker.attached = {} /\ broker.disposed = {} /\ broker.budget = EmptyBudget
    BY <1>1
<1>9. ViewsTypes
  <2>1. 1 \in 0 .. LastEpoch BY ViewsAssumption
  <2>2. usage \in [ConversationIds -> Version] BY <2>1 DEF ViewsInit, Version
  <2>3. terms \in [Enrolls -> Terms \cup {Nil}] BY DEF ViewsInit
  <2> QED BY <1>3, <2>2, <2>3 DEF ViewsInit, ViewsTypes
<1>10. Good(broker, terms, jobs)
  <2>1. RegistryInv(broker, terms) BY <1>4, <1>7, <1>8 DEF RegistryInv, RegistryBut
  <2>2. AccountInv(broker, jobs) BY <1>5, <1>6, <1>8 DEF AccountInv, AccountBut
  <2> QED BY <2>1, <2>2 DEF Good
<1>11. RequestsOK
  <2> SUFFICES ASSUME NEW q \in Requests PROVE RequestOK(broker, terms, jobs, working, broken, down, q)
      BY DEF RequestsOK
  <2>1. q \notin working /\ q \notin broken /\ q \notin Charged(broker.budget) /\ ~Flying(jobs[q])
        /\ jobs[q].phase \in {"new", "over"}
      BY <1>2, <1>5, <1>8 DEF ViewsInit, Flying
  <2> QED BY <2>1 DEF RequestOK, EnrollOK, ChargeOK, ViewOK, WorkOK
<1>12. OpenJoined /\ StaticOpen BY <1>4, ViewsAssumption DEF OpenJoined, StaticOpen, Open
<1> QED BY <1>9, <1>10, <1>11, <1>12 DEF ViewsInv

-----------------------------------------------------------------------------
(* What the invariant says.                                                 *)

\* EnrolledOnce from the inductive invariant.
LEMMA ViewsOnce == ViewsInv => EnrolledOnce
<1> SUFFICES ASSUME ViewsInv PROVE EnrolledOnce OBVIOUS
<1>1. RegistryInv(broker, terms) BY DEF ViewsInv, Good
<1>2. ASSUME NEW v \in UNION {ViewsOf(e) : e \in broker.records},
             NEW w \in UNION {ViewsOf(e) : e \in broker.records}, v[2] = w[2], v # w
      PROVE  v \in broker.disposed \/ w \in broker.disposed
  <2>1. PICK e \in broker.records : v \in {e} \X terms[e].views BY DEF ViewsOf
  <2>2. PICK g \in broker.records : w \in {g} \X terms[g].views BY DEF ViewsOf
  <2>3. PICK b \in terms[e].views \cap terms[g].views : v = <<e, b>> /\ w = <<g, b>>
      BY <1>2, <2>1, <2>2
  <2>4. e # g BY <1>2, <2>3
  <2> QED BY <1>1, <2>3, <2>4 DEF RegistryInv, RegistryBut
<1>3. ASSUME NEW e \in broker.live, NEW g \in broker.live, terms[e].ch = terms[g].ch PROVE e = g
    BY <1>1, <1>3 DEF RegistryInv, RegistryBut
<1> QED BY <1>2, <1>3 DEF EnrolledOnce

\* Of AccountsHeld, the charges of work and that nothing leaks.
LEMMA ViewsCharged == ViewsInv => WorkIsCharged /\ NothingLeaks
<1> SUFFICES ASSUME ViewsInv PROVE WorkIsCharged /\ NothingLeaks OBVIOUS
<1>1. AccountInv(broker, jobs) /\ BudgetInv(broker.budget) BY DEF ViewsInv, Good, AccountInv, AccountBut
<1>2. \A r \in working : r \in Charged(broker.budget) /\ broker.budget.capture = r
    BY <1>1, WorkFacts, EntryFacts DEF EntryOK
<1>3. ASSUME NEW r \in Charged(broker.budget) PROVE InFlight(r) \/ r \in working
  <2>1. ChargeOK(broker.budget, jobs[r], r) /\ WorkOK(broker.budget, working, r)
      BY RequestFacts DEF Requests, Charged
  <2> QED BY <2>1 DEF ChargeOK, WorkOK, InFlight
<1> QED BY <1>1, <1>2, <1>3
        DEF WorkIsCharged, NothingLeaks, BudgetInv, AccountInv, AccountBut, ViewsInv, OpenJoined

-----------------------------------------------------------------------------
(* Deliveries.                                                              *)

\* A delivery runs on a lease, and a copy of it is charged from before it is handed out
\* until it is known to be gone.
DelOK(bud, req, dl, hs, r) ==
    /\ dl \in Delivery
    /\ req.phase # "leased" => dl = NotStarted
    /\ dl.phase = "idle" => dl.sink = "none" /\ dl.left = Chunks
    /\ req.phase = "leased" => (bud.entries[r].delivery <=> dl.phase # "idle")
    /\ r \in hs <=> dl.sink = "has"
DeliveryInv ==
    /\ ViewsInv /\ upsets \in 0 .. MaxUpsets
    /\ del \in [Reads -> Delivery] /\ holding \subseteq Reads
    /\ \A r \in Reads : DelOK(broker.budget, jobs[r], del[r], holding, r)

\* A delivery that has not started.
LEMMA UnstartedOK == NotStarted \in Delivery
BY ChunksAssumption DEF NotStarted, Delivery

\* A delivery goes on as it was when nothing is done to its lease.
LEMMA DeliveryStays ==
    ASSUME DeliveryInv, ViewsInv', NEW x \in Reads, LeaseStays(broker, jobs, broker', jobs', x),
           x \in holding' <=> x \in holding
    PROVE  DelOK(broker'.budget, jobs'[x], del[x], holding', x)
<1>1. DelOK(broker.budget, jobs[x], del[x], holding, x) BY DEF DeliveryInv
<1>2. CASE jobs[x].phase = "leased" BY <1>1, <1>2 DEF DelOK, LeaseStays
<1>3. CASE jobs[x].phase # "leased"
  <2>1. del[x] = NotStarted BY <1>1, <1>3 DEF DelOK
  <2>2. ChargeOK(broker'.budget, jobs'[x], x) BY DEF ViewsInv, RequestsOK, RequestOK, Requests
  <2>3. jobs'[x].phase = "leased" => ~broker'.budget.entries[x].delivery
      BY <1>3, <2>2 DEF ChargeOK, LeaseStays
  <2> QED BY <1>1, <2>1, <2>3 DEF DelOK, NotStarted
<1> QED BY <1>2, <1>3

\* A step of the delivery of r.
LEMMA DeliveryMoves ==
    ASSUME DeliveryInv, ViewsInv', NEW r \in Reads, NEW d, del' = [del EXCEPT ![r] = d],
           \A x \in Reads \ {r} : LeaseStays(broker, jobs, broker', jobs', x),
           holding' \subseteq Reads, \A x \in Reads \ {r} : x \in holding' <=> x \in holding,
           DelOK(broker'.budget, jobs'[r], d, holding', r), UNCHANGED upsets
    PROVE  DeliveryInv'
<1>1. d \in Delivery /\ del \in [Reads -> Delivery] BY DEF DelOK, DeliveryInv
<1>2. del' \in [Reads -> Delivery] /\ del'[r] = d /\ \A x \in Reads \ {r} : del'[x] = del[x]
    BY <1>1
<1>3. ASSUME NEW x \in Reads PROVE DelOK(broker'.budget, jobs'[x], del'[x], holding', x)
    BY <1>2, DeliveryStays
<1> QED BY <1>2, <1>3 DEF DeliveryInv

\* Where the broker is when a delivery goes on: where it was, or with the copy given back.
Ready(s, r) ==
    \/ s = broker /\ del[r].phase = "idle"
    \/ s = CreditReturned(broker, r) /\ del[r].phase # "idle"

\* The broker with the credit of the delivery returned.
LEMMA ReadyFacts ==
    ASSUME DeliveryInv, NEW r \in Reads, NEW s, Ready(s, r), jobs[r].phase = "leased"
    PROVE  /\ Good(s, terms, jobs) /\ LaterBut(broker, s, r) /\ Open(s) \subseteq Open(broker)
           /\ r \in Charged(s.budget) /\ ~s.budget.entries[r].delivery
           /\ s.budget.entries[r].phase = "retained"
           /\ s.chan = broker.chan /\ s.fenced = broker.fenced
<1>1. /\ ViewsInv /\ DelOK(broker.budget, jobs[r], del[r], holding, r) BY DEF DeliveryInv
<1>2. ChargeOK(broker.budget, jobs[r], r) BY <1>1, RequestFacts DEF Requests
<1>3. /\ r \in Charged(broker.budget) /\ broker.budget.entries[r].phase = "retained"
      /\ Goes(broker, broker) /\ BudgetInv(broker.budget)
    BY <1>1, <1>2, GoesNowhere DEF ChargeOK, ViewsInv, Good, AccountInv, AccountBut
<1>4. CASE s = broker /\ del[r].phase = "idle"
    BY <1>1, <1>3, <1>4, GoesFacts DEF DelOK
<1>5. CASE s = CreditReturned(broker, r) /\ del[r].phase # "idle"
  <2> DEFINE b == ReleaseDelivery(broker.budget, r)
  <2>1. broker.budget.entries[r].delivery BY <1>1, <1>5 DEF DelOK
  <2>2. /\ BudgetInv(b) /\ Others(broker.budget, b, r) /\ Charged(b) = Charged(broker.budget)
        /\ b.entries[r].phase = "retained" /\ b.entries[r].view = broker.budget.entries[r].view
        /\ ~b.entries[r].delivery
      BY <1>3, <2>1, DeliveryReleased
  <2>3. s = Reconciled([broker EXCEPT !.budget = b], r) BY <1>5 DEF CreditReturned
  <2> HIDE DEF b
  <2>4. /\ Good(s, terms, jobs) /\ LaterBut(broker, s, r) /\ Open(s) \subseteq Open(broker)
        /\ s.budget = b /\ s.chan = broker.chan /\ s.fenced = broker.fenced
      BY <1>3, <2>2, <2>3, ReconciledFacts
  <2> QED BY <1>3, <2>2, <2>4
<1> QED BY <1>4, <1>5 DEF Ready

\* The lease goes back.
LEMMA ReleasedStep ==
    ASSUME DeliveryInv, NEW r \in Reads, NEW s, Ready(s, r), jobs[r].phase = "leased",
           Released(s, r) \/ Released(Asked(s, r), r), r \notin holding', holding' \subseteq Reads,
           \A x \in Reads \ {r} : x \in holding' <=> x \in holding,
           UNCHANGED <<outside, terms, control, working, upsets>>
    PROVE  DeliveryInv' /\ del'[r].left = Chunks /\ \A x \in Reads \ {r} : del'[x] = del[x]
<1>1. /\ Good(s, terms, jobs) /\ LaterBut(broker, s, r) /\ Open(s) \subseteq Open(broker)
      /\ r \in Charged(s.budget) /\ ~s.budget.entries[r].delivery
      /\ s.budget.entries[r].phase = "retained"
    BY ReadyFacts
<1>2. Goes(s, Asked(s, r)) BY <1>1, CheckedGoes, GoesNowhere DEF Asked
<1>3. PICK t : Goes(s, t) /\ Released(t, r)
  <2>1. Goes(s, s) BY <1>1, GoesNowhere
  <2> QED BY <1>2, <2>1
<1>4. /\ Good(t, terms, jobs) /\ LaterBut(broker, t, r) /\ Open(t) \subseteq Open(broker)
      /\ r \in Charged(t.budget) /\ ~t.budget.entries[r].delivery
  <2>1. Good(t, terms, jobs) /\ Later(s, t) BY <1>3 DEF Goes
  <2>2. LaterBut(s, t, r) BY <2>1, LaterIsBut
  <2>3. LaterBut(broker, t, r) BY <1>1, <2>2, LaterButTrans
  <2>4. Open(t) \subseteq Open(broker) BY <1>1, <2>1 DEF Open, Later
  <2>5. r \in Charged(t.budget) /\ ~t.budget.entries[r].delivery
      BY <1>1, <2>1 DEF Later, SameWork, Stays
  <2> QED BY <2>1, <2>3, <2>4, <2>5
<1>5. Ends(r, LeaseReleased(t, r)) /\ del' = [del EXCEPT ![r] = NotStarted] BY <1>3 DEF Released
<1>6. /\ ViewsInv' /\ \A x \in Reads \ {r} : LeaseStays(broker, jobs, broker', jobs', x)
      /\ jobs'[r].phase # "leased"
    BY <1>4, <1>5, ReleaseEnds DEF DeliveryInv
<1>7. DelOK(broker'.budget, jobs'[r], NotStarted, holding', r)
    BY <1>6, UnstartedOK DEF DelOK, NotStarted
<1>8. DeliveryInv' BY <1>5, <1>6, <1>7, DeliveryMoves
<1>9. del \in [Reads -> Delivery] BY DEF DeliveryInv
<1> QED BY <1>5, <1>8, <1>9 DEF NotStarted

\* A copy goes out: the checks of the same run say that every approval stands.
LEMMA SendsConsented ==
    ASSUME DeliveryInv, NEW r \in Reads, NEW s, Ready(s, r), jobs[r].phase = "leased", Chargeable(s, r)
    PROVE  Consented(r) /\ Asked(s, r) = s /\ MayReserveDelivery(s.budget, r)
<1> DEFINE ch == jobs[r].ch  view == jobs[r].view
<1>1. Good(s, terms, jobs) /\ s.chan = broker.chan /\ s.fenced = broker.fenced BY ReadyFacts
<1>2. LeaseGuard(s, r) /\ view[1] \in Asked(s, r).live /\ MayReserveDelivery(Asked(s, r).budget, r)
    BY DEF Chargeable, IsDeliverable
<1>3. Asked(s, r) = Checked(s, view[1], view[2]) BY <1>2 DEF Asked
<1>4. Standing(s, view[1], view[2]) /\ Asked(s, r) = s BY <1>1, <1>2, <1>3, CheckedGoes
<1>5. terms[view[1]].ch = ch
  <2>1. ViewOK(terms, jobs[r]) BY RequestFacts DEF Requests, DeliveryInv
  <2> QED BY <2>1 DEF ViewOK
<1>6. /\ ~down /\ view[2] \in current /\ view[1] \notin lapsed /\ ch \notin dead
      /\ usage[Conversation[ch]] = [epoch |-> terms[view[1]].epoch, on |-> TRUE]
    BY <1>4, <1>5 DEF Standing, RecipientCurrent
<1>7. r \notin broken
  <2>1. r \in broken => Barred(broker, down, jobs[r], r) BY RequestFacts DEF Requests, DeliveryInv
  <2>2. ~Barred(broker, down, jobs[r], r) BY <1>1, <1>2 DEF Barred, LeaseGuard, MayUse, Open
  <2> QED BY <2>1, <2>2
<1> QED BY <1>2, <1>4, <1>6, <1>7 DEF Consented

\* A send is of the lease that is held, which keeps the delivery invariant.
LEMMA SendsStep ==
    ASSUME DeliveryInv, NEW r \in Reads, NEW s, Ready(s, r), jobs[r].phase = "leased", Sends(s, r),
           del[r].left > 0, UNCHANGED <<outside, terms, control, working, upsets>>
    PROVE  DeliveryInv' /\ Consented(r) /\ \A x \in Reads \ {r} : del'[x] = del[x]
<1>0. /\ ViewsInv /\ del \in [Reads -> Delivery] /\ holding \subseteq Reads
      /\ DelOK(broker.budget, jobs[r], del[r], holding, r)
    BY DEF DeliveryInv
<1>1. /\ Good(s, terms, jobs) /\ LaterBut(broker, s, r) /\ Open(s) \subseteq Open(broker)
      /\ r \in Charged(s.budget) /\ ~s.budget.entries[r].delivery
      /\ s.budget.entries[r].phase = "retained"
      /\ s.chan = broker.chan /\ s.fenced = broker.fenced
    BY ReadyFacts
<1>2. Consented(r) /\ Asked(s, r) = s /\ MayReserveDelivery(s.budget, r)
    BY SendsConsented DEF Sends
<1> DEFINE b == ReserveDelivery(s.budget, r)
           d == [del[r] EXCEPT !.phase = "waiting", !.sink = "has", !.left = del[r].left - 1]
<1>3. /\ broker' = [s EXCEPT !.budget = b]
      /\ del' = [del EXCEPT ![r].phase = "waiting", ![r].sink = "has", ![r].left = del[r].left - 1]
      /\ holding' = holding \cup {r} /\ UNCHANGED <<jobs, broken>>
    BY <1>2 DEF Sends
<1>4. s \in Broker /\ BudgetInv(s.budget) /\ s.attached = Charged(s.budget)
    BY <1>1, GoodFields DEF Good, AccountInv, AccountBut
<1>5. /\ BudgetInv(b) /\ Others(s.budget, b, r) /\ Charged(b) = Charged(s.budget)
      /\ b.entries[r].phase = "retained" /\ b.entries[r].view = s.budget.entries[r].view
      /\ b.entries[r].delivery
    BY <1>1, <1>2, <1>4, DeliveryReserved
<1> HIDE DEF b
<1>6. /\ broker'.budget = b /\ broker'.chan = s.chan /\ broker'.fenced = s.fenced
      /\ broker'.live = s.live /\ broker'.records = s.records /\ broker'.enabled = s.enabled
      /\ broker'.attached = s.attached /\ broker'.disposed = s.disposed /\ broker' \in Broker
    BY <1>3, <1>4, <1>5 DEF Broker, BudgetInv
<1>7. Good(broker', terms, jobs)
  <2>1. RegistryInv(broker', terms) BY <1>1, <1>6 DEF Good, RegistryInv, RegistryBut
  <2>2. \A x \in broker'.attached : b.entries[x].view = jobs[x].view
      BY <1>1, <1>4, <1>5, <1>6 DEF Good, AccountInv, AccountBut, Others, Charged
  <2> QED BY <1>1, <1>4, <1>5, <1>6, <2>1, <2>2 DEF Good, AccountInv, AccountBut
<1>8. LaterBut(broker, broker', r)
  <2>1. \A x \in Reads \ {r} : b.entries[x] = s.budget.entries[x] BY <1>5 DEF Others
  <2>2. \A x \in Reads : x \in Charged(b) <=> x \in Charged(s.budget) BY <1>5
  <2>3. LaterBut(s, broker', r) BY <1>6, <2>1, <2>2 DEF LaterBut, Stays
  <2> QED BY <1>1, <2>3, LaterButTrans
<1>9. Open(broker') \subseteq Open(broker) BY <1>1, <1>6 DEF Open
<1>10. ChargeOK(broker'.budget, jobs[r], r) BY <1>1, <1>5, <1>6 DEF ChargeOK
<1>11. WorkOK(broker'.budget, working', r) /\ working' \subseteq Reads
  <2>1. ChargeOK(broker.budget, jobs[r], r) /\ WorkOK(broker.budget, working, r)
      BY <1>0, RequestFacts DEF Requests
  <2> QED BY <1>0, <1>5, <1>6, <2>1 DEF WorkOK, ChargeOK, ViewsInv, ViewsTypes
<1>12. ViewsInv' BY <1>0, <1>1, <1>3, <1>6, <1>7, <1>8, <1>9, <1>10, <1>11, SameJobStep
<1>13. \A x \in Reads \ {r} : LeaseStays(broker, jobs, broker', jobs', x)
    BY <1>0, <1>3, <1>8, OtherLeases
<1>14. /\ d \in Delivery /\ d.phase = "waiting" /\ d.sink = "has" /\ del' = [del EXCEPT ![r] = d]
  <2>1. del[r].left - 1 \in 0 .. Chunks BY <1>0, ChunksAssumption DEF Delivery
  <2>2. d \in Delivery BY <1>0, <2>1 DEF Delivery
  <2>3. d.phase = "waiting" /\ d.sink = "has" BY <1>0 DEF Delivery
  <2>4. del' = [del EXCEPT ![r] = d] BY <1>0, <1>3 DEF Delivery
  <2> QED BY <2>2, <2>3, <2>4
<1> HIDE DEF d
<1>15. DelOK(broker'.budget, jobs'[r], d, holding', r) BY <1>3, <1>5, <1>6, <1>14 DEF DelOK
<1>16. DeliveryInv'
  <2>1. holding' \subseteq Reads /\ \A x \in Reads \ {r} : x \in holding' <=> x \in holding BY <1>0, <1>3
  <2>2. del' = [del EXCEPT ![r] = d] /\ UNCHANGED upsets BY <1>14
  <2> QED BY <1>0, <1>12, <1>13, <1>15, <2>1, <2>2, DeliveryMoves
<1> QED BY <1>0, <1>2, <1>14, <1>16

\* The step of a delivery: it keeps the invariant, and only a copy that goes out leaves
\* less to hand over.
Sound(r) ==
    /\ DeliveryInv'
    /\ \A x \in Reads : del'[x].left < del[x].left => x = r /\ Consented(r)

\* What the invariant says of one delivery.
LEMMA LeftFacts ==
    ASSUME DeliveryInv, NEW r \in Reads
    PROVE  /\ del[r] \in Delivery /\ del[r].left \in 0 .. Chunks /\ Chunks \in Nat /\ Chunks > 0
           /\ DelOK(broker.budget, jobs[r], del[r], holding, r)
           /\ del[r].phase # "idle" \/ del[r].sink # "none" => jobs[r].phase = "leased"
BY ChunksAssumption DEF DeliveryInv, DelOK, Delivery, NotStarted

\* The lease of a delivery is released.
LEMMA ReleasedSound ==
    ASSUME DeliveryInv, NEW r \in Reads, NEW s, Ready(s, r), jobs[r].phase = "leased",
           Released(s, r) \/ Released(Asked(s, r), r), r \notin holding', holding' \subseteq Reads,
           \A x \in Reads \ {r} : x \in holding' <=> x \in holding,
           UNCHANGED <<outside, terms, control, working, upsets>>
    PROVE  Sound(r)
<1>1. DeliveryInv' /\ del'[r].left = Chunks /\ \A x \in Reads \ {r} : del'[x] = del[x]
    BY ReleasedStep
<1>2. ASSUME NEW x \in Reads PROVE ~(del'[x].left < del[x].left)
    BY <1>1, LeftFacts
<1> QED BY <1>1, <1>2 DEF Sound

\* A chunk is sent, or the lease is found to be gone.
LEMMA SendsSound ==
    ASSUME DeliveryInv, NEW r \in Reads, NEW s, Ready(s, r), jobs[r].phase = "leased", Sends(s, r),
           del[r].left > 0, UNCHANGED <<outside, terms, control, working, upsets>>
    PROVE  Sound(r)
<1>1. DeliveryInv' /\ Consented(r) /\ \A x \in Reads \ {r} : del'[x] = del[x]
    BY SendsStep
<1>2. ASSUME NEW x \in Reads \ {r} PROVE ~(del'[x].left < del[x].left)
    BY <1>1, LeftFacts
<1> QED BY <1>1, <1>2 DEF Sound

\* A step that leaves the broker alone.
LEMMA AsideSound ==
    ASSUME DeliveryInv, NEW r \in Reads, NEW d, del' = [del EXCEPT ![r] = d], d.left = del[r].left,
           UNCHANGED <<viewsVars, upsets>>, holding' \subseteq Reads,
           \A x \in Reads \ {r} : x \in holding' <=> x \in holding,
           DelOK(broker.budget, jobs[r], d, holding', r)
    PROVE  Sound(r)
<1>1. ViewsInv' BY DEF DeliveryInv, ViewsInv, viewsVars, outside, control, ViewsTypes, Good,
        RegistryInv, RegistryBut, Granted, AccountInv, AccountBut, RequestsOK, RequestOK, EnrollOK,
        ChargeOK, ViewOK, WorkOK, Barred, OpenJoined, StaticOpen, Open
<1>2. UNCHANGED <<broker, jobs>> BY DEF viewsVars
<1>3. \A x \in Reads \ {r} : LeaseStays(broker, jobs, broker', jobs', x)
  <2>1. LaterBut(broker, broker', r) BY <1>2 DEF LaterBut, Stays
  <2> QED BY <1>2, <2>1, OtherLeases DEF DeliveryInv
<1>4. DeliveryInv' BY <1>1, <1>2, <1>3, DeliveryMoves
<1>5. \A x \in Reads : del'[x].left = del[x].left BY DEF DeliveryInv
<1>6. ASSUME NEW x \in Reads PROVE ~(del'[x].left < del[x].left)
    BY <1>5, LeftFacts
<1> QED BY <1>4, <1>6 DEF Sound

\* Run: the delivery starts with the lease.
LEMMA RunSound == ASSUME DeliveryInv, NEW r \in Reads, Run(r), UNCHANGED upsets PROVE Sound(r)
<1>1. /\ jobs[r].phase = "leased" /\ Ready(broker, r) /\ UNCHANGED <<outside, terms, control, working>>
    BY DEF Run, Ready
<1>2. r \notin holding /\ del[r].left > 0 /\ holding \subseteq Reads
    BY LeftFacts DEF DelOK, Run, DeliveryInv
<1>3. CASE Sends(broker, r) BY <1>1, <1>2, <1>3, SendsSound
<1>4. CASE (Released(broker, r) \/ Released(Asked(broker, r), r)) /\ UNCHANGED holding
    BY <1>1, <1>2, <1>4, ReleasedSound
<1> QED BY <1>3, <1>4 DEF Run, GivesUp

\* Resume: the sink has taken what it was sent.
LEMMA ResumeSound == ASSUME DeliveryInv, NEW r \in Reads, Resume(r), UNCHANGED upsets PROVE Sound(r)
<1> DEFINE s == CreditReturned(broker, r)
<1>1. /\ del[r].phase = "waiting" /\ UNCHANGED <<outside, terms, control, working>> BY DEF Resume
<1>2. /\ DelOK(broker.budget, jobs[r], del[r], holding, r) /\ del[r] \in Delivery
      /\ jobs[r].phase = "leased" /\ holding \subseteq Reads /\ del \in [Reads -> Delivery]
    BY <1>1, LeftFacts DEF DeliveryInv
<1>3. Ready(s, r) BY <1>1 DEF Ready
<1>4. CASE del[r].sink = "has"
  <2> DEFINE d == [del[r] EXCEPT !.phase = "quarantined"]
  <2>1. del' = [del EXCEPT ![r] = d] /\ UNCHANGED <<broker, jobs, broken, holding>>
      BY <1>2, <1>4 DEF Resume, Quarantined
  <2>2. d \in Delivery /\ d.phase = "quarantined" /\ d.sink = del[r].sink /\ d.left = del[r].left
      BY <1>2 DEF Delivery
  <2> HIDE DEF d
  <2>3. DelOK(broker.budget, jobs[r], d, holding', r) BY <1>1, <1>2, <2>1, <2>2 DEF DelOK
  <2>4. UNCHANGED viewsVars BY <1>1, <2>1 DEF viewsVars
  <2> QED BY <1>2, <2>1, <2>2, <2>3, <2>4, AsideSound
<1>5. CASE del[r].sink # "has"
  <2>1. r \notin holding BY <1>2, <1>5 DEF DelOK
  <2>2. CASE Sends(s, r) /\ del[r].left > 0 BY <1>1, <1>2, <1>3, <2>2, SendsSound
  <2>3. CASE (Released(s, r) \/ Released(Asked(s, r), r)) /\ UNCHANGED holding
      BY <1>1, <1>2, <1>3, <2>1, <2>3, ReleasedSound
  <2> QED BY <1>5, <2>2, <2>3 DEF Resume, GivesUp
<1> QED BY <1>4, <1>5

\* SinkStopped: the stop receipt arrives, and the lease goes back.
LEMMA SinkStoppedSound == ASSUME DeliveryInv, NEW r \in Reads, SinkStopped(r), UNCHANGED upsets PROVE Sound(r)
<1> DEFINE s == CreditReturned(broker, r)
<1>1. /\ del[r].phase = "quarantined" /\ holding' = holding \ {r} /\ Released(s, r)
      /\ UNCHANGED <<outside, terms, control, working>>
    BY DEF SinkStopped
<1>2. jobs[r].phase = "leased" /\ Ready(s, r) BY <1>1, LeftFacts DEF Ready
<1>3. r \notin holding' /\ holding' \subseteq Reads BY <1>1 DEF DeliveryInv
<1> QED BY <1>1, <1>2, <1>3, ReleasedSound

\* Interrupt: the delivery is cancelled.
LEMMA InterruptSound == ASSUME DeliveryInv, NEW r \in Reads, Interrupt(r), UNCHANGED upsets PROVE Sound(r)
<1> DEFINE d == [del[r] EXCEPT !.code = TRUE]
<1>1. /\ DelOK(broker.budget, jobs[r], del[r], holding, r) /\ del[r] \in Delivery
      /\ holding \subseteq Reads /\ del \in [Reads -> Delivery] /\ jobs[r].phase = "leased"
    BY LeftFacts DEF DeliveryInv, Interrupt
<1>2. del' = [del EXCEPT ![r] = d] /\ UNCHANGED <<viewsVars, holding>> BY <1>1 DEF Interrupt
<1>3. d \in Delivery /\ d.phase = del[r].phase /\ d.sink = del[r].sink /\ d.left = del[r].left
    BY <1>1 DEF Delivery
<1> HIDE DEF d
<1>4. DelOK(broker.budget, jobs[r], d, holding', r) BY <1>1, <1>2, <1>3 DEF DelOK
<1> QED BY <1>1, <1>2, <1>3, <1>4, AsideSound

\* SinkCompletes: the sink has its receipt, in full or short.
LEMMA CompletesSound ==
    ASSUME DeliveryInv, NEW r \in Reads, NEW full \in BOOLEAN, SinkCompletes(r, full), UNCHANGED upsets
    PROVE  Sound(r)
<1> DEFINE d == [del[r] EXCEPT !.sink = IF full THEN "done" ELSE "short"]
<1>1. /\ DelOK(broker.budget, jobs[r], del[r], holding, r) /\ del[r] \in Delivery
      /\ holding \subseteq Reads /\ del \in [Reads -> Delivery]
      /\ jobs[r].phase = "leased" /\ del[r].phase # "idle"
    BY LeftFacts DEF DeliveryInv, SinkCompletes, DelOK
<1>2. /\ del' = [del EXCEPT ![r] = d] /\ holding' = holding \ {r} /\ UNCHANGED viewsVars
    BY <1>1 DEF SinkCompletes
<1>3. d \in Delivery /\ d.phase = del[r].phase /\ d.sink \in {"done", "short"} /\ d.left = del[r].left
    BY <1>1 DEF Delivery
<1> HIDE DEF d
<1>4. DelOK(broker.budget, jobs[r], d, holding', r) BY <1>1, <1>2, <1>3 DEF DelOK
<1> QED BY <1>1, <1>2, <1>3, <1>4, AsideSound

\* Nothing is delivered yet.
LEMMA DeliveryStarts == DeliveryInit => DeliveryInv
<1> SUFFICES ASSUME DeliveryInit PROVE DeliveryInv OBVIOUS
<1>1. ViewsInv BY ViewsStart DEF DeliveryInit
<1>2. ASSUME NEW r \in Reads PROVE jobs[r].phase # "leased"
    BY DEF DeliveryInit, ViewsInit, Requests, Idle
<1>3. upsets \in 0 .. MaxUpsets BY ViewsAssumption DEF DeliveryInit, ViewsInit
<1>4. del \in [Reads -> Delivery] BY UnstartedOK DEF DeliveryInit
<1>5. ASSUME NEW r \in Reads PROVE DelOK(broker.budget, jobs[r], del[r], holding, r)
    BY <1>2, UnstartedOK DEF DeliveryInit, DelOK, NotStarted
<1> QED BY <1>1, <1>3, <1>4, <1>5 DEF DeliveryInit, DeliveryInv

\* Every step keeps the invariant, and is consented to.
LEMMA DeliveryStep ==
    ASSUME DeliveryInv, [DeliveryNext]_deliveryVars
    PROVE  DeliveryInv' /\ \A r \in Reads : del'[r].left < del[r].left => Consented(r)
<1>1. CASE ViewsNext /\ UNCHANGED <<del, holding>>
  <2>1. ViewsInv' /\ LeasesStay BY <1>1, ViewsStep DEF DeliveryInv
  <2>2. upsets' \in 0 .. MaxUpsets BY <1>1, ViewsAssumption DEF DeliveryInv, ViewsNext
  <2>3. ASSUME NEW x \in Reads PROVE DelOK(broker'.budget, jobs'[x], del'[x], holding', x)
      BY <1>1, <2>1, DeliveryStays DEF LeasesStay
  <2>4. DeliveryInv' BY <1>1, <2>1, <2>2, <2>3 DEF DeliveryInv
  <2>5. ASSUME NEW x \in Reads PROVE ~(del'[x].left < del[x].left) BY <1>1, LeftFacts
  <2> QED BY <2>4, <2>5
<1>2. ASSUME NEW r \in Reads, Run(r) \/ Interrupt(r) \/ Resume(r) \/ SinkStopped(r), UNCHANGED upsets
      PROVE  Sound(r)
    BY <1>2, RunSound, InterruptSound, ResumeSound, SinkStoppedSound
<1>3. ASSUME NEW r \in Reads, NEW full \in BOOLEAN, SinkCompletes(r, full), UNCHANGED upsets
      PROVE  Sound(r)
    BY <1>3, CompletesSound
<1>4. CASE UNCHANGED deliveryVars
  <2>1. ViewsInv' BY <1>4 DEF DeliveryInv, ViewsInv, deliveryVars, viewsVars, outside, control, ViewsTypes,
          Good, RegistryInv, RegistryBut, Granted, AccountInv, AccountBut, RequestsOK, RequestOK, EnrollOK,
          ChargeOK, ViewOK, WorkOK, Barred, OpenJoined, StaticOpen, Open
  <2>2. UNCHANGED <<broker, jobs, del, holding, upsets>> BY <1>4 DEF deliveryVars, viewsVars
  <2>3. DeliveryInv' BY <2>1, <2>2 DEF DeliveryInv
  <2>4. ASSUME NEW x \in Reads PROVE ~(del'[x].left < del[x].left) BY <2>2, LeftFacts
  <2> QED BY <2>3, <2>4
<1>5. CASE \E r \in Reads : Sound(r) BY <1>5 DEF Sound
<1> QED BY <1>1, <1>2, <1>3, <1>4, <1>5 DEF DeliveryNext

\* The invariant of views and deliveries is inductive.
LEMMA DeliveryInvHolds == DeliverySpec => []DeliveryInv
<1>1. DeliveryInit => DeliveryInv BY DeliveryStarts
<1>2. DeliveryInv /\ [DeliveryNext]_deliveryVars => DeliveryInv' BY DeliveryStep
<1> QED BY <1>1, <1>2, PTL DEF DeliverySpec

\* A binding is in one enrollment at a time as long as any work on it may run, and a
\* channel has one grant (enroll in multi-view-views.ts).
THEOREM EnrolledOnceAlways == DeliverySpec => []EnrolledOnce
<1>1. DeliveryInv => EnrolledOnce BY ViewsOnce DEF DeliveryInv
<1> QED BY <1>1, DeliveryInvHolds, PTL

\* The accounts of reads and of the copies of their results are exact in both directions,
\* whatever is revoked meanwhile (ReadResourceBudget and the delivery of read-view-delivery.ts).
THEOREM AccountsHeldAlways == DeliverySpec => []AccountsHeld
<1>1. ASSUME DeliveryInv PROVE AccountsHeld
  <2>1. WorkIsCharged /\ NothingLeaks BY <1>1, ViewsCharged DEF DeliveryInv
  <2>2. CopyIsCharged
    <3> SUFFICES ASSUME NEW r \in holding
                 PROVE  r \in Charged(broker.budget) /\ broker.budget.entries[r].delivery
        BY DEF CopyIsCharged
    <3>1. r \in Reads /\ DelOK(broker.budget, jobs[r], del[r], holding, r)
        BY <1>1 DEF DeliveryInv
    <3>2. jobs[r].phase = "leased" /\ broker.budget.entries[r].delivery
        BY <3>1 DEF DelOK, NotStarted
    <3>3. ChargeOK(broker.budget, jobs[r], r) BY <1>1, <3>1, RequestFacts DEF DeliveryInv, Requests
    <3> QED BY <3>2, <3>3 DEF ChargeOK
  <2>3. DeliveryTypeOK
    <3>1. broker \in Broker BY <1>1, GoodFields DEF DeliveryInv, ViewsInv
    <3> QED BY <1>1, <3>1 DEF DeliveryTypeOK, ViewsTypeOK, DeliveryInv, ViewsInv, ViewsTypes
  <2> QED BY <2>1, <2>2, <2>3 DEF AccountsHeld, ChargesHeld
<1> QED BY <1>1, DeliveryInvHolds, PTL

\* A copy leaves the broker only while every approval it rests on stands (the boundaries of
\* read-view-delivery.ts, and what the lease of session.ts asks at each).
THEOREM DeliveryConsentedAlways == DeliverySpec => DeliveryConsented
<1>1. DeliveryInv /\ [DeliveryNext]_deliveryVars
          => [\A r \in Reads : del'[r].left < del[r].left => Consented(r)]_deliveryVars
    BY DeliveryStep
<1> QED BY <1>1, DeliveryInvHolds, PTL DEF DeliverySpec, DeliveryConsented

==============================================================================
