-------------------------- MODULE SmallPartsProofs --------------------------
(***************************************************************************)
(* Three parts that share no state, one section each:                       *)
(*                                                                          *)
(* ReaderScope, for every set of processes and exit statuses and for every  *)
(* number of openings and disturbances: the journal charges what exists and *)
(* can be read by the next owner, and nothing is killed or received but the *)
(* owner's own reader.                                                      *)
(*                                                                          *)
(* ReadHello, for any number of generations and of changes of the world: a  *)
(* handshake says what it says to the one that was meant, lets go of every  *)
(* lock, and a client that believes it is right.                            *)
(*                                                                          *)
(* ConversationSwitch, for any number of writers and calls: off blocks what *)
(* comes after it, and no writer leaves a file that does not parse.         *)
(***************************************************************************)
EXTENDS ReaderScope, ReadHello, ConversationSwitch, TLAPS

----------------------------------------------------------------------------
(* ReaderScope: the owner's scope and its journal.                          *)

Instances == [proc : Procs \cup {None}, rec : Records \cup {None}, started : BOOLEAN,
              recovered : BOOLEAN, poisoned : BOOLEAN, fd : Leaves, child : BOOLEAN,
              waited : BOOLEAN, in : Methods]
Kids == [state : {"none", "running", "zombie", "reaped"}, parent : Procs \cup {None},
         inside : BOOLEAN, code : Codes \cup {Killed, None},
         by : {"none", "wait", "poll", "other"}, told : BOOLEAN,
         returncode : Codes \cup {0, Killed, None}, locked : BOOLEAN]

\* A record that the methods may have written.
Sound(r) ==
    /\ r.phase = "idle" => r = Idle(r.owner)
    /\ r.phase # "idle" => r.leaf /\ (r.phase = "intent" <=> r.identity = "none")
    /\ r.phase \notin {"admitting", "admitted", "retired"} /\ r.identity # "theirs"
    /\ r.phase \in {"intent", "pinned", "prepared"} => ~r.pending /\ ~r.process /\ ~r.recovered
    /\ r.phase = "spawn_intent" => r.pending
    /\ r.phase \in {"spawn_bound", "recovery"} => ~r.pending
    /\ ~(r.pending /\ r.process)

\* A record that charges its owner with a reader that may exist.
Charges(r) == r.pending \/ r.process

\* The process may use the leaf: it made it, or its maker is dead.
Entitled(p) == maker # None /\ (p = maker \/ life[maker] = "dead")

\* What the journal says against what exists.
DebtInv ==
    /\ file = "missing" => journal = <<>>
    /\ \A i \in DOMAIN journal : Sound(journal[i])
    /\ maker # None => /\ journal # <<>> /\ Last(journal).phase # "idle"
                       /\ life[maker] # "unborn" /\ Entitled(Last(journal).owner)
    /\ kid.state # "none" => journal # <<>> /\ Charges(Last(journal))
    /\ dir = "ours" => maker # None

\* What the instance knows against what the journal says.
InstanceInv ==
    /\ inst.proc = None => ~inst.started /\ inst.in = "none" /\ inst.fd = "none"
    /\ inst.proc # None =>
          /\ life[inst.proc] = "up" /\ file # "missing"
          /\ inst.rec \in Records /\ Sound(inst.rec)
          /\ ~inst.poisoned => file = "whole" /\ journal # <<>> /\ Last(journal) = inst.rec
          /\ inst.rec.pending => journal # <<>> /\ Charges(Last(journal))
          /\ ~inst.started /\ inst.rec.phase = "idle" => maker = None /\ kid.state = "none"
    /\ inst.in # "none" => ~inst.poisoned
    /\ inst.in = "mkdir" => inst.rec.phase = "intent" /\ inst.rec.owner = inst.proc /\ maker = None
    /\ inst.in = "pinning" => inst.rec.phase = "intent" /\ inst.fd = "ours"
    /\ inst.in = "limiting" => inst.rec.phase = "pinned"
    /\ inst.fd # "none" => inst.fd = "ours" /\ Entitled(inst.proc)

\* A status has one way into a receipt.
Statuses == Codes \cup {Killed}
Received == kid.state = "reaped" /\ kid.by = "wait" /\ kid.returncode = kid.code /\ kid.code \in Statuses
ReceiptInv ==
    /\ kid.state = "zombie" => kid.code \in Statuses
    /\ inst.in = "consumed" => receipts = <<>> /\ Received
    /\ receipts # <<>> => Len(receipts) = 1 /\ Received /\ receipts[1] = kid.code

KillInv == KillsOwn /\ (killed # {} => maker # None)

ScopeInv == TypeOK /\ DebtInv /\ InstanceInv /\ ReceiptInv /\ KillInv /\ HistoryAccepted

-----------------------------------------------------------------------------
(* Lemmas on the records and on the journal.                                 *)

\* An instance with a few fields changed is an instance, and the others are kept.
LEMMA InstanceMoved ==
    ASSUME NEW i \in Instances, NEW m \in Methods
    PROVE  \E j \in Instances :
           /\ j = [i EXCEPT !.in = m]
           /\ j.in = m /\ j.proc = i.proc /\ j.rec = i.rec /\ j.started = i.started
           /\ j.recovered = i.recovered /\ j.poisoned = i.poisoned /\ j.fd = i.fd /\ j.child = i.child
<1> DEFINE e == [i EXCEPT !.in = m]
<1>1. /\ e \in Instances /\ e.in = m /\ e.proc = i.proc /\ e.rec = i.rec /\ e.started = i.started
      /\ e.recovered = i.recovered /\ e.poisoned = i.poisoned /\ e.fd = i.fd /\ e.child = i.child
  BY DEF Instances
<1>2. e = [i EXCEPT !.in = m]
  OBVIOUS
<1> HIDE DEF e
<1> QED BY <1>1, <1>2

\* A record added at the end is the last one, and the others stay where they are.
LEMMA RecordAdded ==
    ASSUME NEW j \in Seq(Records), NEW r \in Records
    PROVE  /\ Append(j, r) \in Seq(Records) /\ Append(j, r) # <<>> /\ Last(Append(j, r)) = r
           /\ Len(j) \in Nat /\ Len(Append(j, r)) = Len(j) + 1
           /\ DOMAIN Append(j, r) = 1..(Len(j) + 1) /\ DOMAIN j = 1..Len(j)
           /\ Append(j, r)[Len(j) + 1] = r
           /\ \A i \in DOMAIN j : Append(j, r)[i] = j[i]
           /\ j # <<>> => Len(j) > 0 /\ Last(j) = j[Len(j)] /\ Last(j) \in Records
<1>1. /\ Append(j, r) \in Seq(Records) /\ Len(j) \in Nat /\ Len(Append(j, r)) = Len(j) + 1
      /\ DOMAIN Append(j, r) = 1..(Len(j) + 1) /\ DOMAIN j = 1..Len(j)
      /\ Append(j, r)[Len(j) + 1] = r
      /\ \A i \in DOMAIN j : Append(j, r)[i] = j[i]
  OBVIOUS
<1>2. Append(j, r) # <<>> /\ Last(Append(j, r)) = r
  BY <1>1 DEF Last
<1>3. j # <<>> => Len(j) > 0 /\ Last(j) = j[Len(j)] /\ Last(j) \in Records
  BY DEF Last
<1> QED BY <1>1, <1>2, <1>3

\* A journal that is accepted still is after a record that may follow its last one.
LEMMA AcceptedLonger ==
    ASSUME NEW j \in Seq(Records), NEW r \in Records, j # <<>>, Accepted(j), Follows(Last(j), r)
    PROVE  Accepted(Append(j, r))
<1>1. /\ Append(j, r) # <<>> /\ Append(j, r)[1] = j[1] /\ j[1] = Idle(j[1].owner)
  BY RecordAdded DEF Accepted
<1>2. ASSUME NEW i \in 2..Len(Append(j, r))
      PROVE  Follows(Append(j, r)[i - 1], Append(j, r)[i])
  <2>1. CASE i \in 2..Len(j)
    <3>1. i \in DOMAIN j /\ i - 1 \in DOMAIN j /\ Follows(j[i - 1], j[i])
      BY <2>1, RecordAdded DEF Accepted
    <3> QED BY <3>1, RecordAdded
  <2>2. CASE i = Len(j) + 1
    <3>1. i - 1 = Len(j) /\ Len(j) \in DOMAIN j
      BY <2>2, RecordAdded
    <3>2. Append(j, r)[i - 1] = Last(j) /\ Append(j, r)[i] = r
      BY <2>2, <3>1, RecordAdded
    <3> QED BY <3>2
  <2> QED BY <1>2, <2>1, <2>2, RecordAdded
<1> QED BY <1>1, <1>2 DEF Accepted

-----------------------------------------------------------------------------
(* What a method does to the journal.                                        *)

\* The instance is what it was for its lock, its records and its leaf.
Keeps(i) ==
    /\ i \in Instances /\ i.proc = inst.proc /\ ~i.poisoned
    /\ i.fd # "none" => i.fd = "ours" /\ Entitled(inst.proc)

\* Everything but the instance and the journal stays.
scopeUnchanged == UNCHANGED <<life, boot, bootOf, worldVars, kid, receipts, killed, left>>

\* A record that may follow, written, refused or torn, keeps the invariant: the instance
\* goes on after a whole record, and is poisoned after a write that failed.
LEMMA Written ==
    ASSUME ScopeInv, Ready \/ inst.in # "none", NEW record \in Records, Sound(record), Follows(inst.rec, record),
           Charges(inst.rec) => Charges(record),
           maker # None => Entitled(record.owner),
           NEW ok, Keeps(ok), ok.in \in {"none", "mkdir", "limiting"},
           ok.in = "mkdir" => record.phase = "intent" /\ record.owner = inst.proc /\ maker = None,
           ok.in = "limiting" => record.phase = "pinned",
           NEW failed, Keeps(failed), failed.rec = inst.rec,
           ~failed.started => ~inst.started,
           Appends(record, ok, failed), scopeUnchanged
    PROVE  ScopeInv'
<1> USE DEF scopeUnchanged, worldVars
<1>1. /\ TypeOK /\ DebtInv /\ InstanceInv /\ ReceiptInv /\ KillInv /\ HistoryAccepted
      /\ journal \in Seq(Records) /\ record \in Records
  BY DEF ScopeInv, TypeOK
<1>2. /\ inst.proc # None /\ ~inst.poisoned /\ file = "whole" /\ journal # <<>> /\ Last(journal) = inst.rec
      /\ inst.rec \in Records
  BY <1>1 DEF InstanceInv, Ready
<1>3. record.phase # "idle"
  BY DEF Follows, Allowed
<1>4. DEFINE more == Append(journal, record)
<1>5. /\ more \in Seq(Records) /\ more # <<>> /\ Last(more) = record
      /\ \A i \in DOMAIN more : more[i] = record \/ \E k \in DOMAIN journal : more[i] = journal[k]
  <2>1. \A i \in DOMAIN more : i \in DOMAIN journal \/ i = Len(journal) + 1
    BY <1>1, RecordAdded
  <2> QED BY <1>1, <2>1, RecordAdded
<1>6. Accepted(more)
  BY <1>1, <1>2, AcceptedLonger DEF HistoryAccepted
<1> HIDE DEF more
<1>7. \A i \in DOMAIN more : Sound(more[i])
  BY <1>1, <1>5 DEF DebtInv
<1>8. kid.state # "none" => Charges(record)
  BY <1>1, <1>2 DEF DebtInv
<1>9. CASE journal' = more /\ inst' = [ok EXCEPT !.rec = record] /\ UNCHANGED file
  <2>1. /\ inst' \in Instances /\ inst'.proc = inst.proc /\ ~inst'.poisoned /\ inst'.rec = record
        /\ inst'.fd = ok.fd /\ inst'.in = ok.in
    BY <1>9 DEF Keeps, Instances
  <2>2. TypeOK'
    BY <1>1, <1>5, <1>9, <2>1 DEF TypeOK, Instances
  <2>3. DebtInv'
    BY <1>1, <1>2, <1>3, <1>5, <1>7, <1>8, <1>9 DEF DebtInv, Entitled
  <2>4. InstanceInv'
    <3>1. record.pending => Charges(record)
      BY DEF Charges
    <3> QED BY <1>1, <1>2, <1>3, <1>5, <1>9, <2>1, <3>1 DEF InstanceInv, Entitled, Keeps
  <2>5. ReceiptInv'
    BY <1>1, <2>1 DEF ReceiptInv, Received
  <2>6. HistoryAccepted' /\ KillInv'
    BY <1>1, <1>6, <1>9 DEF HistoryAccepted, KillInv, KillsOwn
  <2> QED BY <2>2, <2>3, <2>4, <2>5, <2>6 DEF ScopeInv
<1>10. CASE /\ inst' = [failed EXCEPT !.poisoned = TRUE, !.in = "none"]
            /\ \/ UNCHANGED <<journal, file>>
               \/ journal' = more /\ UNCHANGED file
               \/ file' = "torn" /\ UNCHANGED journal
  <2>1. /\ inst' \in Instances /\ inst'.proc = inst.proc /\ inst'.poisoned /\ inst'.rec = inst.rec
        /\ inst'.fd = failed.fd /\ inst'.in = "none" /\ inst'.started = failed.started
    BY <1>10 DEF Keeps, Instances, Methods
  <2>2. PICK j \in Seq(Records) :
          /\ j = journal' /\ (j = journal \/ j = more)
          /\ file' = "torn" \/ (file' = "whole" /\ j = journal) \/ (file' = "whole" /\ j = more)
    BY <1>1, <1>2, <1>5, <1>10
  <2>3. TypeOK'
    BY <1>1, <2>1, <2>2 DEF TypeOK, Instances
  <2>4. /\ j # <<>> /\ (\A i \in DOMAIN j : Sound(j[i]))
        /\ (Charges(inst.rec) => Charges(Last(j))) /\ (maker # None => Entitled(Last(j).owner) /\ Last(j).phase # "idle")
    BY <1>1, <1>2, <1>3, <1>5, <1>7, <2>2 DEF DebtInv
  <2>5. DebtInv'
    BY <1>1, <1>2, <2>2, <2>4 DEF DebtInv, Entitled
  <2>6. InstanceInv'
    <3>1. inst.rec.pending => Charges(inst.rec)
      BY DEF Charges
    <3> QED BY <1>1, <1>2, <2>1, <2>2, <2>4, <3>1 DEF InstanceInv, Entitled, Keeps
  <2>7. ReceiptInv'
    BY <1>1, <2>1 DEF ReceiptInv, Received
  <2>8. HistoryAccepted' /\ KillInv'
    BY <1>1, <1>2, <1>6, <2>2 DEF HistoryAccepted, KillInv, KillsOwn
  <2> QED BY <2>3, <2>5, <2>6, <2>7, <2>8 DEF ScopeInv
<1>11. CASE inst' = [failed EXCEPT !.in = "none"] /\ UNCHANGED <<journal, file>>
  <2>1. /\ inst' \in Instances /\ inst'.proc = inst.proc /\ ~inst'.poisoned /\ inst'.rec = inst.rec
        /\ inst'.fd = failed.fd /\ inst'.in = "none" /\ inst'.started = failed.started
    BY <1>11 DEF Keeps, Instances, Methods
  <2>2. TypeOK'
    BY <1>1, <1>11, <2>1 DEF TypeOK, Instances
  <2>3. DebtInv'
    BY <1>1, <1>11 DEF DebtInv, Entitled
  <2>4. InstanceInv'
    BY <1>1, <1>2, <1>11, <2>1 DEF InstanceInv, Entitled, Keeps
  <2>5. ReceiptInv'
    BY <1>1, <2>1 DEF ReceiptInv, Received
  <2>6. HistoryAccepted' /\ KillInv'
    BY <1>1, <1>11 DEF HistoryAccepted, KillInv, KillsOwn
  <2> QED BY <2>2, <2>3, <2>4, <2>5, <2>6 DEF ScopeInv
<1> QED BY <1>9, <1>10, <1>11 DEF Appends, more

\* A member that changed is one of six.
LEMMA Differences ==
    ASSUME NEW a \in Records, NEW b \in Records, NEW f \in Changed(a, b)
    PROVE  \/ f = "owner" /\ a.owner # b.owner
           \/ f = "leaf" /\ a.leaf # b.leaf
           \/ f = "identity" /\ a.identity # b.identity
           \/ f = "process" /\ a.process # b.process
           \/ f = "pending" /\ a.pending # b.pending
           \/ f = "recovered" /\ a.recovered # b.recovered
<1>1. DOMAIN b = {"phase", "owner", "leaf", "identity", "process", "pending", "recovered"}
  BY DEF Records
<1>2. f \in DOMAIN b /\ f # "phase" /\ a[f] # b[f]
  BY DEF Changed
<1> QED BY <1>1, <1>2

\* An instance that has begun is one.
LEMMA InstanceBegun ==
    ASSUME NEW i \in Instances
    PROVE  \E j \in Instances :
           /\ j = [i EXCEPT !.started = TRUE]
           /\ j.started /\ j.proc = i.proc /\ j.rec = i.rec /\ j.recovered = i.recovered
           /\ j.poisoned = i.poisoned /\ j.fd = i.fd /\ j.child = i.child /\ j.in = i.in
<1> DEFINE e == [i EXCEPT !.started = TRUE]
<1>1. /\ e \in Instances /\ e.started /\ e.proc = i.proc /\ e.rec = i.rec /\ e.recovered = i.recovered
      /\ e.poisoned = i.poisoned /\ e.fd = i.fd /\ e.child = i.child /\ e.in = i.in
  BY DEF Instances
<1>2. e = [i EXCEPT !.started = TRUE]
  OBVIOUS
<1> HIDE DEF e
<1> QED BY <1>1, <1>2

\* prepare writes its intent, with the journal of an idle scope before it.
LEMMA PrepareKeeps == ASSUME ScopeInv, Prepare PROVE ScopeInv'
<1>1. /\ TypeOK /\ inst \in Instances /\ InstanceInv /\ DebtInv /\ Ready /\ inst.rec.phase = "idle" /\ ~inst.started
      /\ inst.rec \in Records /\ inst.rec = Idle(inst.rec.owner) /\ maker = None /\ kid.state = "none"
      /\ inst.proc \in Procs
  BY DEF ScopeInv, TypeOK, Instances, InstanceInv, Prepare, Ready, Sound
<1>2. /\ inst.rec.identity = "none" /\ inst.rec.process = FALSE /\ inst.rec.pending = FALSE
      /\ inst.rec.recovered = FALSE
  BY <1>1 DEF Idle
<1> DEFINE begun == [inst EXCEPT !.started = TRUE]
           intent == [Appended("intent") EXCEPT !.leaf = TRUE, !.owner = inst.proc]
<1>3. PICK r \in Records : /\ r = intent /\ r.phase = "intent" /\ r.leaf = TRUE /\ r.owner = inst.proc /\ r.identity = "none"
                           /\ r.process = FALSE /\ r.pending = FALSE /\ r.recovered = FALSE
  <2>1. ASSUME NEW a \in Records, NEW p \in Procs
        PROVE  LET b == [[a EXCEPT !.phase = "intent"] EXCEPT !.leaf = TRUE, !.owner = p] IN
               /\ b \in Records /\ b.phase = "intent" /\ b.leaf = TRUE /\ b.owner = p /\ b.identity = a.identity
               /\ b.process = a.process /\ b.pending = a.pending /\ b.recovered = a.recovered
    BY DEF Records, Phases
  <2>2. /\ intent \in Records /\ intent.phase = "intent" /\ intent.leaf = TRUE /\ intent.owner = inst.proc
        /\ intent.identity = inst.rec.identity /\ intent.process = inst.rec.process
        /\ intent.pending = inst.rec.pending /\ intent.recovered = inst.rec.recovered
    BY <1>1, <2>1, Zenon DEF Appended
  <2> HIDE DEF intent
  <2> QED BY <1>2, <2>2
<1>4. Sound(r) /\ ~Charges(r)
  BY <1>3 DEF Sound, Charges
<1>5. Follows(inst.rec, r)
  <2>1. Changed(inst.rec, r) \subseteq {"leaf", "identity", "process", "owner", "recovered"}
    <3>1. inst.rec.pending = r.pending
      BY <1>2, <1>3
    <3> QED BY <1>1, <3>1, Differences
  <2> QED BY <1>1, <1>3, <2>1 DEF Follows, Allowed, MayChange
<1>6. ~Charges(inst.rec)
  BY <1>1 DEF Charges, Idle
<1>7. PICK f \in Instances : f = begun /\ f.proc = inst.proc /\ ~f.poisoned /\ f.fd = inst.fd /\ f.rec = inst.rec /\ f.started
  BY <1>1, InstanceBegun DEF Ready
<1>8. PICK k \in Instances : /\ k = [f EXCEPT !.in = "mkdir"] /\ k.in = "mkdir"
                             /\ k.proc = f.proc /\ k.poisoned = f.poisoned /\ k.fd = f.fd
  <2>1. "mkdir" \in Methods
    BY DEF Methods
  <2> QED BY <2>1, InstanceMoved, ZenonT(40)
<1>9. Keeps(f) /\ Keeps(k)
  BY <1>1, <1>7, <1>8 DEF Keeps, InstanceInv
<1>10. Appends(r, k, f) /\ scopeUnchanged
  BY <1>3, <1>7, <1>8 DEF Prepare, scopeUnchanged
<1> QED BY <1>1, <1>3, <1>4, <1>5, <1>6, <1>7, <1>8, <1>9, <1>10, Written

\* What an instance that is ready, or in the middle of a method, knows.
LEMMA AtWork ==
    ASSUME ScopeInv, Ready \/ inst.in # "none"
    PROVE  /\ TypeOK /\ DebtInv /\ InstanceInv
           /\ inst \in Instances /\ inst.proc \in Procs /\ inst.rec \in Records /\ Sound(inst.rec)
           /\ ~inst.poisoned /\ journal # <<>> /\ Last(journal) = inst.rec /\ file = "whole" /\ Keeps(inst)
           /\ maker # None => Entitled(inst.rec.owner)
           /\ inst.rec.phase = "idle" => maker = None
<1>1. TypeOK /\ DebtInv /\ InstanceInv /\ inst \in Instances
  BY DEF ScopeInv, TypeOK, Instances
<1>2. inst.proc # None /\ ~inst.poisoned
  BY <1>1 DEF Ready, InstanceInv
<1>3. inst.proc \in Procs
  BY <1>1, <1>2 DEF Instances
<1>4. inst.rec \in Records /\ Sound(inst.rec) /\ journal # <<>> /\ Last(journal) = inst.rec /\ file = "whole"
  BY <1>1, <1>2 DEF InstanceInv
<1>5. Keeps(inst)
  BY <1>1, <1>2 DEF InstanceInv, Keeps
<1>6. /\ maker # None => Entitled(inst.rec.owner)
      /\ inst.rec.phase = "idle" => maker = None
  BY <1>1, <1>4 DEF DebtInv
<1> QED BY <1>1, <1>2, <1>3, <1>4, <1>5, <1>6

\* A record with the next phase, the identity, a pending or a bound spawn, is one.
LEMMA RecordMoved ==
    ASSUME NEW a \in Records, NEW q \in Phases, NEW x \in Leaves
    PROVE  /\ \E b \in Records :
                /\ b = [a EXCEPT !.phase = q]
                /\ b.phase = q /\ b.owner = a.owner /\ b.leaf = a.leaf /\ b.identity = a.identity
                /\ b.process = a.process /\ b.pending = a.pending /\ b.recovered = a.recovered
           /\ \E b \in Records :
                /\ b = [a EXCEPT !.identity = x]
                /\ b.phase = a.phase /\ b.owner = a.owner /\ b.leaf = a.leaf /\ b.identity = x
                /\ b.process = a.process /\ b.pending = a.pending /\ b.recovered = a.recovered
<1>1. ASSUME NEW e, e = [a EXCEPT !.phase = q]
      PROVE  /\ e \in Records
             /\ e.phase = q /\ e.owner = a.owner /\ e.leaf = a.leaf /\ e.identity = a.identity
             /\ e.process = a.process /\ e.pending = a.pending /\ e.recovered = a.recovered
  BY <1>1 DEF Records
<1>2. ASSUME NEW e, e = [a EXCEPT !.identity = x]
      PROVE  /\ e \in Records
             /\ e.phase = a.phase /\ e.owner = a.owner /\ e.leaf = a.leaf /\ e.identity = x
             /\ e.process = a.process /\ e.pending = a.pending /\ e.recovered = a.recovered
  BY <1>2 DEF Records
<1> QED BY <1>1, <1>2, Zenon

\* The made leaf is recorded with its identity.
LEMMA LeafPinnedKeeps == ASSUME ScopeInv, LeafPinned PROVE ScopeInv'
<1>1. /\ TypeOK /\ InstanceInv /\ inst \in Instances /\ inst.proc \in Procs /\ inst.rec \in Records /\ Sound(inst.rec)
      /\ inst.in = "pinning" /\ Keeps(inst) /\ (maker # None => Entitled(inst.rec.owner))
  BY AtWork DEF LeafPinned
<1>2. inst.rec.phase = "intent" /\ inst.fd = "ours"
  BY <1>1 DEF InstanceInv
<1>3. PICK a \in Records :
        /\ a = Appended("pinned")
        /\ a.phase = "pinned" /\ a.owner = inst.rec.owner /\ a.leaf = inst.rec.leaf /\ a.identity = inst.rec.identity
        /\ a.process = inst.rec.process /\ a.pending = inst.rec.pending /\ a.recovered = inst.rec.recovered
  <2>1. "pinned" \in Phases /\ "ours" \in Leaves
    BY DEF Phases, Leaves
  <2> QED BY <1>1, <2>1, RecordMoved, ZenonT(40) DEF Appended
<1>4. PICK r \in Records :
        /\ r = [a EXCEPT !.identity = inst.fd]
        /\ r.phase = a.phase /\ r.owner = a.owner /\ r.leaf = a.leaf /\ r.identity = inst.fd
        /\ r.process = a.process /\ r.pending = a.pending /\ r.recovered = a.recovered
  <2>1. "pinned" \in Phases /\ inst.fd \in Leaves
    BY <1>2 DEF Phases, Leaves
  <2> QED BY <2>1, RecordMoved, ZenonT(40)
<1>5. Sound(r) /\ (Charges(inst.rec) => Charges(r))
  BY <1>1, <1>2, <1>3, <1>4 DEF Sound, Charges
<1>6. Follows(inst.rec, r)
  <2>1. Changed(inst.rec, r) \subseteq {"identity"}
    <3>1. /\ r.owner = inst.rec.owner /\ r.leaf = inst.rec.leaf /\ r.process = inst.rec.process
          /\ r.pending = inst.rec.pending /\ r.recovered = inst.rec.recovered /\ inst.rec \in Records
      BY <1>1, <1>3, <1>4
    <3> QED BY <3>1, Differences
  <2> QED BY <1>1, <1>2, <1>3, <1>4, <2>1 DEF Follows, Allowed, MayChange, Sound
<1>7. PICK k \in Instances : /\ k = [inst EXCEPT !.in = "limiting"] /\ k.in = "limiting"
                             /\ k.proc = inst.proc /\ k.poisoned = inst.poisoned /\ k.fd = inst.fd
  <2>1. "limiting" \in Methods
    BY DEF Methods
  <2> QED BY <1>1, <2>1, InstanceMoved, ZenonT(40)
<1>8. Keeps(k)
  BY <1>1, <1>7 DEF Keeps
<1>9. Appends(r, k, inst) /\ scopeUnchanged
  BY <1>3, <1>4, <1>7 DEF LeafPinned, scopeUnchanged
<1>10. maker # None => Entitled(r.owner)
  BY <1>1, <1>3, <1>4
<1> QED BY <1>1, <1>3, <1>4, <1>5, <1>6, <1>7, <1>8, <1>9, <1>10, Written

\* A record with the next phase may follow when nothing else of it changes.
LEMMA PhaseMoves ==
    ASSUME ScopeInv, Ready \/ inst.in # "none",
           NEW q \in {"prepared", "killing"},
           q = "prepared" => inst.rec.phase = "pinned",
           q = "killing" => inst.rec.phase \notin {"idle", "intent", "retired", "killing", "recovery"},
           NEW ok, Keeps(ok), ok.in = "none",
           Appends(Appended(q), ok, inst), scopeUnchanged
    PROVE  ScopeInv'
<1>1. /\ TypeOK /\ InstanceInv /\ inst \in Instances /\ inst.rec \in Records /\ Sound(inst.rec)
      /\ Keeps(inst) /\ (maker # None => Entitled(inst.rec.owner))
  BY AtWork
<1>2. PICK r \in Records :
        /\ r = Appended(q)
        /\ r.phase = q /\ r.owner = inst.rec.owner /\ r.leaf = inst.rec.leaf /\ r.identity = inst.rec.identity
        /\ r.process = inst.rec.process /\ r.pending = inst.rec.pending /\ r.recovered = inst.rec.recovered
  <2>1. q \in Phases /\ "ours" \in Leaves
    BY DEF Phases, Leaves
  <2> QED BY <1>1, <2>1, RecordMoved, ZenonT(40) DEF Appended
<1>3. Sound(r) /\ (Charges(inst.rec) => Charges(r)) /\ (maker # None => Entitled(r.owner))
  BY <1>1, <1>2 DEF Sound, Charges
<1>4. Follows(inst.rec, r)
  <2>1. Changed(inst.rec, r) \subseteq {}
    BY <1>1, <1>2, Differences
  <2>2. r.phase \in DOMAIN Allowed /\ inst.rec.phase \in Allowed[r.phase]
    <3>1. CASE q = "prepared"
      BY <1>2, <3>1 DEF Allowed
    <3>2. CASE q = "killing"
      BY <1>1, <1>2, <3>2 DEF Allowed, Sound, Records, Phases
    <3> QED BY <3>1, <3>2
  <2> QED BY <1>1, <1>2, <2>1, <2>2 DEF Follows, Sound
<1>5. Appends(r, ok, inst)
  BY <1>2
<1> QED BY <1>1, <1>2, <1>3, <1>4, <1>5, Written

\* The reservation of a spawn is pending, the bound one is a process.
LEMMA ReserveSpawnKeeps == ASSUME ScopeInv, ReserveSpawn PROVE ScopeInv'
<1>1. /\ TypeOK /\ InstanceInv /\ inst \in Instances /\ inst.rec \in Records /\ Sound(inst.rec) /\ Ready
      /\ inst.in = "none" /\ inst.rec.phase = "prepared"
      /\ Keeps(inst) /\ (maker # None => Entitled(inst.rec.owner))
  BY AtWork DEF ReserveSpawn, Ready
<1> DEFINE reserved == [Appended("spawn_intent") EXCEPT !.pending = TRUE]
<1>2. ASSUME NEW r, r = reserved
      PROVE  /\ r \in Records /\ r.phase = "spawn_intent" /\ r.pending = TRUE
             /\ r.owner = inst.rec.owner /\ r.leaf = inst.rec.leaf /\ r.identity = inst.rec.identity
             /\ r.process = inst.rec.process /\ r.recovered = inst.rec.recovered
  BY <1>1, <1>2 DEF Records, Appended, Phases
<1>3. PICK r : r = reserved
  OBVIOUS
<1> HIDE DEF reserved
<1>4. /\ r \in Records /\ r.phase = "spawn_intent" /\ r.pending = TRUE
      /\ r.owner = inst.rec.owner /\ r.leaf = inst.rec.leaf /\ r.identity = inst.rec.identity
      /\ r.process = inst.rec.process /\ r.recovered = inst.rec.recovered
  BY <1>2, <1>3
<1>5. Sound(r) /\ Charges(r) /\ (maker # None => Entitled(r.owner))
  BY <1>1, <1>4 DEF Sound, Charges
<1>6. Follows(inst.rec, r)
  <2>1. Changed(inst.rec, r) \subseteq {"pending"}
    BY <1>1, <1>4, Differences
  <2> QED BY <1>1, <1>4, <2>1 DEF Follows, Allowed, MayChange, Sound
<1>7. Appends(r, inst, inst) /\ scopeUnchanged
  BY <1>3 DEF ReserveSpawn, scopeUnchanged, reserved
<1> QED BY <1>1, <1>4, <1>5, <1>6, <1>7, Written

\* The child is in its record, and nothing is pending.
LEMMA BindChildKeeps == ASSUME ScopeInv, BindChild PROVE ScopeInv'
<1>1. /\ TypeOK /\ InstanceInv /\ inst \in Instances /\ inst.rec \in Records /\ Sound(inst.rec) /\ Ready
      /\ inst.in = "none" /\ inst.rec.phase = "spawn_intent"
      /\ Keeps(inst) /\ (maker # None => Entitled(inst.rec.owner))
  BY AtWork DEF BindChild, Ready
<1> DEFINE charged == [Appended("spawn_bound") EXCEPT !.process = TRUE, !.pending = FALSE]
           bound == [inst EXCEPT !.child = TRUE]
<1>2. ASSUME NEW r, r = charged
      PROVE  /\ r \in Records /\ r.phase = "spawn_bound" /\ r.pending = FALSE /\ r.process = TRUE
             /\ r.owner = inst.rec.owner /\ r.leaf = inst.rec.leaf /\ r.identity = inst.rec.identity
             /\ r.recovered = inst.rec.recovered
  BY <1>1, <1>2 DEF Records, Appended, Phases
<1>3. ASSUME NEW k, k = bound
      PROVE  /\ k \in Instances /\ k.proc = inst.proc /\ k.poisoned = inst.poisoned /\ k.fd = inst.fd
             /\ k.rec = inst.rec /\ k.started = inst.started /\ k.in = inst.in
  BY <1>1, <1>3 DEF Instances
<1>4. PICK r, k : r = charged /\ k = bound
  OBVIOUS
<1> HIDE DEF charged, bound
<1>5. /\ r \in Records /\ r.phase = "spawn_bound" /\ r.pending = FALSE /\ r.process = TRUE
      /\ r.owner = inst.rec.owner /\ r.leaf = inst.rec.leaf /\ r.identity = inst.rec.identity
      /\ r.recovered = inst.rec.recovered
  BY <1>2, <1>4
<1>6. Keeps(k) /\ k.rec = inst.rec /\ k.started = inst.started /\ k.in = "none"
  BY <1>1, <1>3, <1>4 DEF Keeps
<1>7. Sound(r) /\ Charges(r) /\ (maker # None => Entitled(r.owner))
  BY <1>1, <1>5 DEF Sound, Charges
<1>8. Follows(inst.rec, r)
  <2>1. Changed(inst.rec, r) \subseteq {"process", "pending"}
    BY <1>1, <1>5, Differences
  <2> QED BY <1>1, <1>5, <2>1 DEF Follows, Allowed, MayChange, Sound
<1>9. Appends(r, k, k) /\ scopeUnchanged
  BY <1>4 DEF BindChild, scopeUnchanged, charged, bound
<1> QED BY <1>1, <1>5, <1>6, <1>7, <1>8, <1>9, Written

\* A step that leaves the journal and the directories: the instance may move on in its
\* method, and the reader may change, as long as it does not come out of nothing.
LEMMA Moves ==
    ASSUME ScopeInv, TypeOK', ReceiptInv', KillInv',
           inst'.proc = inst.proc, inst'.rec = inst.rec, inst'.poisoned = inst.poisoned, inst'.fd = inst.fd,
           ~inst'.started => ~inst.started \/ inst.rec.phase # "idle",
           inst'.proc = None => ~inst'.started,
           inst'.in \in {"mkdir", "pinning", "limiting"} => inst'.in = inst.in,
           inst'.in # "none" => ~inst.poisoned /\ inst.proc # None,
           kid'.state # "none" => kid.state # "none",
           UNCHANGED <<life, journalVars, worldVars>>
    PROVE  ScopeInv'
<1> USE DEF journalVars, worldVars
<1>1. DebtInv /\ InstanceInv /\ HistoryAccepted
  BY DEF ScopeInv
<1>2. DebtInv'
  BY <1>1 DEF DebtInv, Entitled
<1>3. InstanceInv'
  BY <1>1 DEF InstanceInv, Entitled
<1>4. HistoryAccepted'
  BY <1>1 DEF HistoryAccepted
<1> QED BY <1>2, <1>3, <1>4 DEF ScopeInv

\* A method that only changes where the instance is.
LEMMA InstanceMoves ==
    ASSUME ScopeInv, NEW m \in Methods, m \notin {"mkdir", "pinning", "limiting", "consumed"},
           NEW i \in Instances, inst' = i, i.in = m,
           i.proc = inst.proc, i.rec = inst.rec, i.poisoned = inst.poisoned, i.fd = inst.fd,
           ~i.started => ~inst.started \/ inst.rec.phase # "idle",
           i.proc = None => ~i.started,
           m # "none" => ~inst.poisoned /\ inst.proc # None,
           UNCHANGED <<life, boot, journalVars, worldVars, kid, receipts, killed, left>>
    PROVE  ScopeInv'
<1>1. TypeOK'
  BY DEF ScopeInv, TypeOK, Instances, journalVars, worldVars
<1>2. ReceiptInv' /\ KillInv'
  BY DEF ScopeInv, ReceiptInv, Received, KillInv, KillsOwn, worldVars
<1> QED BY <1>1, <1>2, Moves

\* The limits are kept, or the method fails.
LEMMA LeafLimitedKeeps == ASSUME ScopeInv, LeafLimited PROVE ScopeInv'
<1>1. /\ InstanceInv /\ inst \in Instances /\ inst.in = "limiting" /\ inst.rec.phase = "pinned" /\ Keeps(inst)
      /\ inst.proc # None /\ ~inst.poisoned
  BY AtWork DEF LeafLimited, InstanceInv
<1>2. PICK k \in Instances : /\ k = [inst EXCEPT !.in = "none"] /\ k.in = "none" /\ k.started = inst.started
                             /\ k.proc = inst.proc /\ k.poisoned = inst.poisoned /\ k.fd = inst.fd /\ k.rec = inst.rec
  <2>1. "none" \in Methods
    BY DEF Methods
  <2> QED BY <1>1, <2>1, InstanceMoved, ZenonT(40)
<1>3. Keeps(k)
  BY <1>1, <1>2 DEF Keeps
<1>4. CASE Appends(Appended("prepared"), k, inst) /\ scopeUnchanged
  BY <1>1, <1>2, <1>3, <1>4, PhaseMoves
<1>5. CASE inst' = k /\ UNCHANGED <<journal, file>> /\ scopeUnchanged
  <2>1. "none" \in Methods
    BY DEF Methods
  <2>2. UNCHANGED <<life, boot, journalVars, worldVars, kid, receipts, killed, left>>
    BY <1>5 DEF scopeUnchanged, journalVars
  <2> QED BY <1>1, <1>2, <1>5, <2>1, <2>2, InstanceMoves
<1> QED BY <1>2, <1>4, <1>5 DEF LeafLimited, scopeUnchanged

\* A kill is through the pinned leaf of this instance: its own, or one whose maker is dead.
LEMMA KillKeeps == ASSUME ScopeInv, Kill PROVE ScopeInv'
<1>1. /\ TypeOK /\ InstanceInv /\ DebtInv /\ inst \in Instances /\ inst.proc \in Procs /\ Ready /\ Pinned /\ inst.in = "none"
      /\ Keeps(inst) /\ KillInv /\ ReceiptInv
      /\ inst.rec.phase \notin {"idle", "intent", "retired"}
  BY AtWork DEF Kill, Ready, ScopeInv
<1>2. CASE Appends(Appended("killing"), inst, inst) /\ inst.rec.phase \notin {"killing", "recovery"} /\ UNCHANGED <<kid, killed>>
  BY <1>1, <1>2, PhaseMoves DEF Kill, scopeUnchanged
<1>3. CASE Kills /\ UNCHANGED <<journal, file, inst>>
  <2>1. inst.fd = "ours" /\ Entitled(inst.proc)
    BY <1>1 DEF Pinned, Keeps
  <2>2. UNCHANGED <<life, boot, journalVars, inst, worldVars, receipts, left>>
    BY <1>3 DEF Kill, journalVars
  <2> DEFINE hit == [leaf |-> inst.fd, by |-> inst.proc, orphan |-> maker # None /\ life[maker] = "dead"]
  <2>3. /\ hit \in [leaf : Leaves, by : Procs, orphan : BOOLEAN]
        /\ hit.leaf = "ours" /\ (hit.by = maker \/ hit.orphan)
    BY <1>1, <2>1 DEF Leaves, Entitled
  <2>4. killed' = killed \cup {hit}
    BY <1>3 DEF Kills
  <2> HIDE DEF hit
  <2>5. KillInv'
    BY <1>1, <2>1, <2>2, <2>3, <2>4 DEF KillInv, KillsOwn, worldVars, Entitled
  <2>6. /\ kid' \in Kids /\ (kid.state = "none" => kid'.state = "none")
        /\ kid' = kid \/ (kid.state = "running" /\ (kid'.state = "zombie" => kid'.code = Killed))
    <3>1. kid \in Kids
      BY <1>1 DEF TypeOK, Kids
    <3>2. CASE kid' = kid
      BY <3>1, <3>2
    <3>3. CASE kid' = Exited(kid, Killed) /\ kid.state = "running"
      <4>1. ASSUME NEW k, k = [kid EXCEPT !.state = "zombie", !.code = Killed]
            PROVE  k \in Kids /\ k.code = Killed /\ k.state = "zombie"
        BY <3>1, <4>1 DEF Kids
      <4>2. ASSUME NEW k, k = [kid EXCEPT !.state = "reaped", !.code = Killed, !.by = "other"]
            PROVE  k \in Kids /\ k.code = Killed /\ k.state = "reaped"
        BY <3>1, <4>2 DEF Kids
      <4>3. \/ kid' = [kid EXCEPT !.state = "zombie", !.code = Killed]
            \/ kid' = [kid EXCEPT !.state = "reaped", !.code = Killed, !.by = "other"]
        BY <3>3 DEF Exited
      <4> QED BY <3>3, <4>1, <4>2, <4>3
    <3> QED BY <1>3, <3>2, <3>3 DEF Kills
  <2>7. TypeOK'
    BY <1>1, <2>2, <2>3, <2>4, <2>6 DEF TypeOK, Kids, journalVars, worldVars
  <2>8. ReceiptInv'
    BY <1>1, <2>2, <2>6 DEF ReceiptInv, Received, Statuses
  <2>9. inst.proc # None /\ ~inst.poisoned
    BY <1>1 DEF Ready
  <2> QED BY <1>1, <2>2, <2>5, <2>6, <2>7, <2>8, <2>9, Moves
<1> QED BY <1>2, <1>3 DEF Kill

\* The recorded owner is dead, and so is the maker of the leaf.
LEMMA RecoverKeeps == ASSUME ScopeInv, Recover PROVE ScopeInv'
<1>1. /\ TypeOK /\ InstanceInv /\ DebtInv /\ inst \in Instances /\ inst.proc \in Procs /\ inst.rec \in Records
      /\ Sound(inst.rec) /\ ~inst.poisoned /\ Keeps(inst) /\ (maker # None => Entitled(inst.rec.owner)) /\ inst.in = "none"
      /\ inst.rec.phase \notin {"idle", "retired"} /\ ~inst.rec.pending /\ ~Lives(inst.rec.owner) /\ inst.rec.identity # "none"
      /\ inst.fd = "none" /\ inst.proc # None
  BY AtWork DEF Recover, Ready
<1>2. PICK f \in Instances : /\ f = [inst EXCEPT !.started = TRUE] /\ f.started /\ f.proc = inst.proc /\ f.rec = inst.rec
                             /\ f.poisoned = inst.poisoned /\ f.fd = inst.fd /\ f.in = inst.in
  BY <1>1, InstanceBegun, Zenon
<1>3. maker # None => Entitled(inst.proc)
  <2>1. maker # None => life[maker] = "dead"
    BY <1>1 DEF TypeOK, DebtInv, Entitled, Lives
  <2> QED BY <2>1 DEF Entitled
<1>4. CASE dir = inst.rec.identity
  <2>1. dir = "ours" /\ maker # None
    BY <1>1, <1>4 DEF Sound, Records, Leaves, DebtInv
  <2> DEFINE taken == [f EXCEPT !.fd = dir]
             mine == [taken EXCEPT !.recovered = TRUE]
             taking == [Appended("recovery") EXCEPT !.owner = inst.proc, !.recovered = TRUE]
  <2>2. ASSUME NEW k, k = taken
        PROVE  k \in Instances /\ k.proc = f.proc /\ k.rec = f.rec /\ k.poisoned = f.poisoned /\ k.fd = dir /\ k.started = f.started
    BY <1>2, <2>1, <2>2 DEF Instances, Leaves
  <2>3. ASSUME NEW t, t = taken, NEW k, k = mine
        PROVE  k \in Instances /\ k.proc = f.proc /\ k.poisoned = f.poisoned /\ k.fd = dir /\ k.in = f.in
    BY <1>2, <2>1, <2>3 DEF Instances, Leaves
  <2>4. ASSUME NEW r, r = taking
        PROVE  /\ r \in Records /\ r.phase = "recovery" /\ r.owner = inst.proc /\ r.recovered = TRUE
               /\ r.leaf = inst.rec.leaf /\ r.identity = inst.rec.identity
               /\ r.process = inst.rec.process /\ r.pending = inst.rec.pending
    BY <1>1, <2>4 DEF Records, Appended, Phases
  <2>5. PICK t, k, r : t = taken /\ k = mine /\ r = taking
    OBVIOUS
  <2>6. Appends(r, k, t) /\ scopeUnchanged
    BY <1>2, <1>4, <2>5 DEF Recover, scopeUnchanged
  <2> HIDE DEF taken, mine, taking
  <2>7. Keeps(t) /\ Keeps(k) /\ t.rec = inst.rec /\ t.started /\ k.in = "none"
    BY <1>1, <1>2, <1>3, <2>1, <2>2, <2>3, <2>5 DEF Keeps
  <2>8. /\ r \in Records /\ r.phase = "recovery" /\ r.owner = inst.proc /\ r.recovered = TRUE
        /\ r.leaf = inst.rec.leaf /\ r.identity = inst.rec.identity
        /\ r.process = inst.rec.process /\ r.pending = inst.rec.pending
    BY <2>4, <2>5
  <2>9. Sound(r) /\ (Charges(inst.rec) => Charges(r)) /\ (maker # None => Entitled(r.owner))
    BY <1>1, <1>3, <2>8 DEF Sound, Charges
  <2>10. Follows(inst.rec, r)
    <3>1. Changed(inst.rec, r) \subseteq {"owner", "recovered"}
      BY <1>1, <2>8, Differences
    <3>2. inst.rec.phase \in Allowed["recovery"]
      BY <1>1 DEF Allowed, Sound, Records, Phases
    <3> QED BY <1>1, <2>8, <3>1, <3>2 DEF Follows, Allowed, MayChange, Sound
  <2>11. Ready
    BY DEF Recover
  <2> QED BY <2>6, <2>7, <2>8, <2>9, <2>10, <2>11, Written
<1>5. CASE dir # inst.rec.identity
  <2>1. inst' = f /\ UNCHANGED <<life, boot, journalVars, worldVars, kid, receipts, killed, left>>
    BY <1>2, <1>5 DEF Recover, journalVars
  <2>2. "none" \in Methods /\ inst.started \in BOOLEAN
    BY <1>1 DEF Methods, Instances
  <2> QED BY <1>1, <1>2, <2>1, <2>2, InstanceMoves
<1> QED BY <1>4, <1>5

\* The leaf is made by the process whose intent is recorded, and nobody else's can be.
LEMMA LeafMadeKeeps == ASSUME ScopeInv, LeafMade PROVE ScopeInv'
<1>1. /\ TypeOK /\ InstanceInv /\ DebtInv /\ ReceiptInv /\ KillInv /\ HistoryAccepted
      /\ inst \in Instances /\ inst.proc \in Procs /\ inst.rec \in Records
      /\ inst.in = "mkdir" /\ ~inst.poisoned /\ inst.proc # None
  BY AtWork DEF LeafMade, ScopeInv, InstanceInv
<1>2. /\ inst.rec.phase = "intent" /\ inst.rec.owner = inst.proc /\ maker = None /\ life[inst.proc] = "up"
      /\ journal # <<>> /\ Last(journal) = inst.rec /\ killed = {} /\ dir # "ours" /\ inst.fd = "none"
  BY <1>1 DEF InstanceInv, DebtInv, KillInv, Entitled
<1>3. PICK i \in Instances :
        /\ i = inst' /\ i.proc = inst.proc /\ i.rec = inst.rec /\ i.poisoned = inst.poisoned /\ i.started = inst.started
        /\ \/ i.in = "none" /\ i.fd = inst.fd
           \/ i.in = "pinning" /\ i.fd = "ours" /\ dir' = "ours" /\ maker' = inst.proc
  <2>1. ASSUME NEW i, i = [inst EXCEPT !.in = "pinning", !.fd = "ours"]
        PROVE  /\ i \in Instances /\ i.proc = inst.proc /\ i.rec = inst.rec /\ i.poisoned = inst.poisoned
               /\ i.started = inst.started /\ i.in = "pinning" /\ i.fd = "ours"
    BY <1>1, <2>1 DEF Instances, Leaves, Methods
  <2>2. ASSUME NEW i, i = [inst EXCEPT !.in = "none"]
        PROVE  /\ i \in Instances /\ i.proc = inst.proc /\ i.rec = inst.rec /\ i.poisoned = inst.poisoned
               /\ i.started = inst.started /\ i.in = "none" /\ i.fd = inst.fd
    BY <1>1, <2>2 DEF Instances, Leaves, Methods
  <2>3. CASE inst' = [inst EXCEPT !.in = "pinning", !.fd = "ours"] /\ dir' = "ours" /\ maker' = inst.proc
    BY <2>1, <2>3
  <2>4. CASE inst' = [inst EXCEPT !.in = "none"]
    BY <2>2, <2>4
  <2> QED BY <2>3, <2>4 DEF LeafMade
<1>4. /\ UNCHANGED <<dir, maker>> \/ (dir' = "ours" /\ maker' = inst.proc)
      /\ UNCHANGED <<life, boot, journalVars, foreign, kid, receipts, killed, left>>
  BY DEF LeafMade
<1>5. TypeOK'
  BY <1>1, <1>3, <1>4 DEF TypeOK, Instances, journalVars, Leaves
<1>6. DebtInv'
  BY <1>1, <1>2, <1>4 DEF DebtInv, Entitled, journalVars
<1>7. InstanceInv'
  BY <1>1, <1>2, <1>3, <1>4 DEF InstanceInv, Entitled, journalVars
<1>8. ReceiptInv' /\ KillInv' /\ HistoryAccepted'
  BY <1>1, <1>2, <1>3, <1>4 DEF ReceiptInv, Received, KillInv, KillsOwn, HistoryAccepted, journalVars
<1> QED BY <1>5, <1>6, <1>7, <1>8 DEF ScopeInv

-----------------------------------------------------------------------------
(* The instances, and the processes around them.                             *)

\* A journal of one idle record is sound and accepted.
LEMMA IdleJournal ==
    ASSUME NEW p \in Procs
    PROVE  /\ Idle(p) \in Records /\ Sound(Idle(p)) /\ Idle(p).phase = "idle" /\ ~Charges(Idle(p)) /\ ~Idle(p).pending
           /\ <<Idle(p)>> \in Seq(Records) /\ <<Idle(p)>> # <<>> /\ Last(<<Idle(p)>>) = Idle(p)
           /\ \A i \in DOMAIN <<Idle(p)>> : <<Idle(p)>>[i] = Idle(p)
           /\ Accepted(<<Idle(p)>>)
<1>1. /\ Idle(p) \in Records /\ Idle(p).phase = "idle" /\ Idle(p).owner = p /\ Idle(p).identity = "none"
      /\ ~Idle(p).pending /\ ~Idle(p).process
  BY DEF Idle, Records, Phases, Leaves
<1>2. PICK r \in Records : r = Idle(p)
  BY <1>1
<1>3. <<r>> \in Seq(Records) /\ <<r>> # <<>> /\ Len(<<r>>) = 1 /\ <<r>>[1] = r /\ DOMAIN <<r>> = {1}
  OBVIOUS
<1>4. Last(<<r>>) = r
  BY <1>3 DEF Last
<1>5. Accepted(<<r>>)
  BY <1>1, <1>2, <1>3 DEF Accepted
<1>6. Sound(r) /\ ~Charges(r)
  BY <1>1, <1>2 DEF Sound, Charges
<1> QED BY <1>1, <1>2, <1>3, <1>4, <1>5, <1>6

\* An instance as it begins.
LEMMA FreshInstance ==
    ASSUME NEW p \in Procs \cup {None}, NEW r \in Records \cup {None}
    PROVE  \E i \in Instances :
              /\ i = Fresh(p, r)
              /\ i.proc = p /\ i.rec = r /\ ~i.started /\ ~i.poisoned /\ i.fd = "none" /\ i.in = "none"
<1> DEFINE e == Fresh(p, r)
<1>1. e \in Instances /\ e.proc = p /\ e.rec = r /\ ~e.started /\ ~e.poisoned /\ e.fd = "none" /\ e.in = "none"
  BY DEF Fresh, Instances, Leaves, Methods
<1>2. e = Fresh(p, r)
  OBVIOUS
<1> HIDE DEF e
<1> QED BY <1>1, <1>2

\* The first record of a journal, written or interrupted.
LEMMA InitializeKeeps == ASSUME ScopeInv, NEW p \in Procs, Initialize(p) PROVE ScopeInv'
<1>1. /\ TypeOK /\ DebtInv /\ InstanceInv /\ ReceiptInv /\ KillInv /\ HistoryAccepted /\ inst \in Instances
      /\ file = "missing" /\ journal = <<>> /\ maker = None /\ kid.state = "none" /\ inst.proc = None
      /\ life[p] = "up" /\ dir # "ours"
  BY DEF ScopeInv, Initialize, DebtInv, InstanceInv, TypeOK, Instances
<1>2. ~inst.started /\ inst.in = "none" /\ inst.fd = "none"
  BY <1>1 DEF InstanceInv
<1>3. PICK j \in Seq(Records) : j = journal' /\ (j = <<>> \/ j = <<Idle(p)>>)
  <2>1. <<>> \in Seq(Records) /\ <<Idle(p)>> \in Seq(Records)
    <3>1. <<>> \in Seq(Records)
      BY <1>1 DEF TypeOK
    <3>2. <<Idle(p)>> \in Seq(Records)
      BY IdleJournal, Zenon
    <3> QED BY <3>1, <3>2
  <2>2. journal' = <<>> \/ journal' = <<Idle(p)>>
    BY DEF Initialize
  <2> QED BY <2>1, <2>2
<1>4. PICK i \in Instances :
        /\ i = inst' /\ ~i.started /\ i.in = "none" /\ i.fd = "none"
        /\ \/ i.proc = None
           \/ i.proc = p /\ i.rec = Idle(p) /\ j = <<Idle(p)>> /\ file' = "whole"
  <2>1. CASE inst' = Fresh(p, Idle(p)) /\ journal' = <<Idle(p)>> /\ file' = "whole"
    BY <1>3, <2>1, FreshInstance, IdleJournal
  <2>2. CASE UNCHANGED inst
    BY <1>1, <1>2, <2>2
  <2> QED BY <2>1, <2>2 DEF Initialize
<1>5. /\ file' \in {"whole", "torn"} /\ bootOf' = boot /\ left' = [left EXCEPT !.opens = @ - 1] /\ left.opens > 0
      /\ UNCHANGED <<life, boot, worldVars, kid, receipts, killed>>
  BY DEF Initialize
<1>6. \A i2 \in DOMAIN j : Sound(j[i2])
  BY <1>3, IdleJournal
<1>7. j # <<>> => Accepted(j) /\ Last(j) = Idle(p)
  BY <1>3, IdleJournal
<1>8. TypeOK'
  <2>1. left' \in [opens : 0..MaxOpens, outside : 0..MaxOutside]
    BY <1>1, <1>5, ScopeAssumption DEF TypeOK
  <2> QED BY <1>1, <1>3, <1>4, <1>5, <2>1 DEF TypeOK, Instances, worldVars
<1>9. DebtInv'
  BY <1>1, <1>3, <1>5, <1>6 DEF DebtInv, Entitled, worldVars
<1>10. InstanceInv'
  BY <1>1, <1>3, <1>4, <1>5, <1>7, IdleJournal DEF InstanceInv, Entitled, worldVars
<1>11. ReceiptInv' /\ KillInv' /\ HistoryAccepted'
  BY <1>1, <1>3, <1>4, <1>5, <1>7 DEF ReceiptInv, Received, KillInv, KillsOwn, HistoryAccepted, worldVars
<1> QED BY <1>8, <1>9, <1>10, <1>11 DEF ScopeInv

\* Whoever opens the journal has read its last record.
LEMMA OpenKeeps == ASSUME ScopeInv, NEW p \in Procs, Open(p) PROVE ScopeInv'
<1>1. /\ TypeOK /\ DebtInv /\ InstanceInv /\ ReceiptInv /\ KillInv /\ HistoryAccepted
      /\ file = "whole" /\ journal # <<>> /\ journal \in Seq(Records) /\ inst.proc = None /\ life[p] = "up"
  BY DEF ScopeInv, Open, TypeOK, Accepted
<1>2. Last(journal) \in Records /\ Sound(Last(journal)) /\ (Last(journal).pending => Charges(Last(journal)))
  <2>1. Last(journal) \in Records /\ Last(journal) = journal[Len(journal)] /\ Len(journal) \in DOMAIN journal
    BY <1>1 DEF Last
  <2> QED BY <1>1, <2>1 DEF DebtInv, Charges
<1>3. PICK i \in Instances :
        /\ i = inst' /\ i.proc = p /\ i.rec = Last(journal) /\ ~i.started /\ ~i.poisoned /\ i.fd = "none" /\ i.in = "none"
  BY <1>2, FreshInstance DEF Open
<1>4. /\ left' = [left EXCEPT !.opens = @ - 1] /\ left.opens > 0
      /\ UNCHANGED <<life, boot, journalVars, worldVars, kid, receipts, killed>>
  BY DEF Open
<1>5. TypeOK'
  <2>1. left' \in [opens : 0..MaxOpens, outside : 0..MaxOutside]
    BY <1>1, <1>4, ScopeAssumption DEF TypeOK
  <2> QED BY <1>1, <1>3, <1>4, <2>1 DEF TypeOK, Instances, journalVars, worldVars
<1>6. DebtInv'
  BY <1>1, <1>4 DEF DebtInv, Entitled, journalVars, worldVars
<1>7. InstanceInv'
  <2>1. Last(journal).phase = "idle" => maker = None /\ kid.state = "none"
    BY <1>1, <1>2 DEF DebtInv, Charges, Sound, Idle
  <2> QED BY <1>1, <1>2, <1>3, <1>4, <2>1 DEF InstanceInv, Entitled, journalVars, worldVars
<1>8. ReceiptInv' /\ KillInv' /\ HistoryAccepted'
  BY <1>1, <1>3, <1>4 DEF ReceiptInv, Received, KillInv, KillsOwn, HistoryAccepted, journalVars, worldVars
<1> QED BY <1>5, <1>6, <1>7, <1>8 DEF ScopeInv

\* The lock goes: nobody has the journal, and nothing of it is forgotten.
LEMMA InstanceGone ==
    ASSUME ScopeInv, inst' = NoInstance, UNCHANGED <<journalVars, maker, receipts, killed, left>>,
           life' \in [Procs -> {"unborn", "up", "dead"}], boot' \in {0, 1},
           \A p \in Procs : /\ life[p] # "unborn" => life'[p] # "unborn"
                            /\ life[p] = "dead" => life'[p] = "dead",
           dir' = dir \/ dir' = "none", foreign' \in BOOLEAN,
           kid' = kid \/ /\ kid.state \in {"running", "zombie"}
                         /\ kid' = [kid EXCEPT !.state = "reaped", !.by = "other"]
    PROVE  ScopeInv'
<1> USE DEF journalVars
<1>1. TypeOK /\ DebtInv /\ InstanceInv /\ ReceiptInv /\ KillInv /\ HistoryAccepted /\ kid \in Kids
  BY DEF ScopeInv, TypeOK, Kids
<1>2. PICK i \in Instances : /\ i = inst' /\ i.proc = None /\ ~i.started /\ ~i.poisoned /\ i.fd = "none" /\ i.in = "none"
  BY FreshInstance DEF NoInstance
<1>3. PICK k \in Kids : k = kid' /\ (k = kid \/ (kid.state \in {"running", "zombie"} /\ k.state = "reaped"))
  <2>1. ASSUME NEW k, k = [kid EXCEPT !.state = "reaped", !.by = "other"]
        PROVE  k \in Kids /\ k.state = "reaped"
    BY <1>1, <2>1 DEF Kids
  <2> QED BY <1>1, <2>1
<1>4. maker # None => maker \in Procs /\ (life[maker] = "dead" => life'[maker] = "dead")
  BY <1>1 DEF TypeOK
<1>5. TypeOK'
  BY <1>1, <1>2, <1>3 DEF TypeOK, Instances, Kids, Leaves
<1>6. DebtInv'
  BY <1>1, <1>3, <1>4 DEF DebtInv, Entitled
<1>7. InstanceInv'
  BY <1>1, <1>2 DEF InstanceInv
<1>8. ReceiptInv'
  <2>1. receipts # <<>> => kid' = kid
    BY <1>1 DEF ReceiptInv, Received
  <2> QED BY <1>1, <1>2, <1>3, <2>1 DEF ReceiptInv, Received
<1>9. KillInv' /\ HistoryAccepted'
  BY <1>1 DEF KillInv, KillsOwn, HistoryAccepted
<1> QED BY <1>5, <1>6, <1>7, <1>8, <1>9 DEF ScopeInv

\* A process that dies takes its lock with it.
LEMMA DiesKeeps == ASSUME ScopeInv, NEW p \in Procs, Dies(p) PROVE ScopeInv'
<1>1. /\ TypeOK /\ DebtInv /\ InstanceInv /\ ReceiptInv /\ KillInv /\ HistoryAccepted /\ kid \in Kids /\ inst \in Instances
  BY DEF ScopeInv, TypeOK, Kids, Instances
<1>2. /\ life' = [life EXCEPT ![p] = "dead"] /\ life[p] = "up"
      /\ life' \in [Procs -> {"unborn", "up", "dead"}] /\ boot' \in {0, 1}
      /\ \A q \in Procs : /\ life[q] # "unborn" => life'[q] # "unborn"
                          /\ life[q] = "dead" => life'[q] = "dead"
                          /\ q # p => life'[q] = life[q]
      /\ UNCHANGED <<boot, journalVars, worldVars, receipts, killed, left>>
      /\ kid' = kid \/ /\ kid.state = "zombie"
                       /\ kid' = [kid EXCEPT !.state = "reaped", !.by = "other"]
  BY <1>1 DEF Dies, TypeOK
<1>3. CASE inst.proc = p
  BY <1>1, <1>2, <1>3, InstanceGone DEF Dies, worldVars, TypeOK
<1>4. CASE inst.proc # p
  <2>1. UNCHANGED inst
    BY <1>4 DEF Dies
  <2>2. PICK k \in Kids : k = kid' /\ (k = kid \/ (kid.state = "zombie" /\ k.state = "reaped"))
    <3>1. ASSUME NEW k, k = [kid EXCEPT !.state = "reaped", !.by = "other"]
          PROVE  k \in Kids /\ k.state = "reaped"
      BY <1>1, <3>1 DEF Kids
    <3> QED BY <1>1, <1>2, <3>1
  <2>3. maker # None => maker \in Procs /\ (life[maker] = "dead" => life'[maker] = "dead")
    BY <1>1, <1>2 DEF TypeOK
  <2>4. TypeOK'
    BY <1>1, <1>2, <2>1, <2>2 DEF TypeOK, Kids, journalVars, worldVars
  <2>5. DebtInv'
    BY <1>1, <1>2, <2>2, <2>3 DEF DebtInv, Entitled, journalVars, worldVars
  <2>6. InstanceInv'
    <3>1. inst.proc # None => life'[inst.proc] = "up"
      BY <1>1, <1>2, <1>4 DEF InstanceInv, Instances
    <3>2. kid'.state = "none" <=> kid.state = "none"
      BY <2>2
    <3> QED BY <1>1, <1>2, <2>1, <2>3, <3>1, <3>2 DEF InstanceInv, Entitled, journalVars, worldVars
  <2>7. ReceiptInv'
    <3>1. receipts # <<>> \/ inst.in = "consumed" => kid' = kid
      BY <1>1, <1>2 DEF ReceiptInv, Received
    <3> QED BY <1>1, <1>2, <2>1, <2>2, <3>1 DEF ReceiptInv, Received
  <2>8. KillInv' /\ HistoryAccepted'
    <3>1. KillInv'
      BY <1>1, <1>2 DEF KillInv, KillsOwn, worldVars
    <3> QED BY <1>1, <1>2, <3>1 DEF HistoryAccepted, journalVars
  <2> QED BY <2>4, <2>5, <2>6, <2>7, <2>8 DEF ScopeInv
<1> QED BY <1>3, <1>4

\* A restart of the machine is the death of every process, and of the leaf.
LEMMA RestartsKeeps == ASSUME ScopeInv, Restarts PROVE ScopeInv'
<1>1. TypeOK
  BY DEF ScopeInv
<1>2. /\ life' \in [Procs -> {"unborn", "up", "dead"}] /\ boot' \in {0, 1}
      /\ \A p \in Procs : /\ life[p] # "unborn" => life'[p] # "unborn"
                          /\ life[p] = "dead" => life'[p] = "dead"
  BY <1>1 DEF Restarts, TypeOK
<1> QED BY <1>2, InstanceGone DEF Restarts

\* Closing gives the lock away.
LEMMA CloseKeeps == ASSUME ScopeInv, Close PROVE ScopeInv'
<1>1. TypeOK
  BY DEF ScopeInv
<1> QED BY <1>1, InstanceGone DEF Close, TypeOK, worldVars

\* A checkpoint needs an instance without debt, and then there is none.
LEMMA CheckpointKeeps == ASSUME ScopeInv, Checkpoint PROVE ScopeInv'
<1>1. /\ TypeOK /\ DebtInv /\ InstanceInv /\ ReceiptInv /\ KillInv /\ HistoryAccepted
      /\ inst \in Instances /\ inst.proc \in Procs /\ inst.proc # None /\ inst.in = "none" /\ ~inst.poisoned
      /\ ~inst.started /\ inst.rec.phase = "idle" /\ file = "whole"
  BY AtWork DEF ScopeInv, Checkpoint, Ready
<1>2. maker = None /\ kid.state = "none" /\ inst.rec \in Records /\ Sound(inst.rec) /\ dir # "ours"
  BY <1>1 DEF InstanceInv, DebtInv
<1>3. PICK p \in Procs : p = inst.proc
  BY <1>1
<1>4. PICK j \in Seq(Records) : j = journal' /\ (j = <<>> \/ j = <<Idle(p)>>)
  <2>1. <<>> \in Seq(Records)
    OBVIOUS
  <2>2. <<Idle(p)>> \in Seq(Records)
    BY IdleJournal, Zenon
  <2>3. journal' = <<>> \/ journal' = <<Idle(p)>>
    BY <1>3 DEF Checkpoint
  <2> QED BY <2>1, <2>2, <2>3
<1>5. PICK i \in Instances :
        /\ i = inst' /\ i.proc = p /\ i.started = inst.started /\ i.in = inst.in /\ i.fd = inst.fd
        /\ \/ i.poisoned /\ i.rec = inst.rec
           \/ i.rec = Idle(p) /\ j = <<Idle(p)>> /\ file' = "whole"
  <2>1. ASSUME NEW i, i = [inst EXCEPT !.rec = Idle(p)]
        PROVE  /\ i \in Instances /\ i.proc = p /\ i.started = inst.started /\ i.in = inst.in /\ i.fd = inst.fd
               /\ i.rec = Idle(p)
    <3>1. Idle(p) \in Records
      BY IdleJournal
    <3> QED BY <1>1, <1>3, <2>1, <3>1 DEF Instances
  <2>2. ASSUME NEW i, i = [inst EXCEPT !.poisoned = TRUE]
        PROVE  /\ i \in Instances /\ i.proc = p /\ i.started = inst.started /\ i.in = inst.in /\ i.fd = inst.fd
               /\ i.rec = inst.rec /\ i.poisoned
    BY <1>1, <1>3, <2>2 DEF Instances
  <2>3. CASE inst' = [inst EXCEPT !.rec = Idle(p)] /\ journal' = <<Idle(p)>> /\ UNCHANGED file
    BY <1>1, <1>4, <2>1, <2>3
  <2>4. CASE inst' = [inst EXCEPT !.poisoned = TRUE]
    BY <2>2, <2>4
  <2> QED BY <1>3, <2>3, <2>4 DEF Checkpoint
<1>6. /\ file' \in {"whole", "torn"}
      /\ UNCHANGED <<life, boot, bootOf, worldVars, kid, receipts, killed, left>>
  BY <1>1 DEF Checkpoint
<1>7. \A k \in DOMAIN j : Sound(j[k])
  BY <1>4, IdleJournal
<1>8. j # <<>> => Accepted(j) /\ Last(j) = Idle(p)
  BY <1>4, IdleJournal
<1>9. TypeOK'
  BY <1>1, <1>4, <1>5, <1>6 DEF TypeOK, Instances, worldVars
<1>10. DebtInv'
  BY <1>1, <1>2, <1>4, <1>6, <1>7 DEF DebtInv, Entitled, worldVars
<1>11. InstanceInv'
  <2>1. inst.rec.pending => FALSE
    BY <1>1, <1>2 DEF Sound, Idle
  <2>2. life[p] = "up" /\ (i.fd # "none" => FALSE)
    BY <1>1, <1>2, <1>3, <1>5 DEF InstanceInv, Entitled
  <2>3. Sound(Idle(p)) /\ Idle(p) \in Records /\ ~Idle(p).pending
    BY IdleJournal
  <2>4. /\ i.in = "none" /\ i.fd = "none" /\ i.proc = p /\ p # None /\ maker' = None /\ kid'.state = "none"
        /\ life'[p] = "up" /\ file' # "missing" /\ ~i.started
    BY <1>1, <1>2, <1>3, <1>5, <1>6, <2>2 DEF worldVars
  <2>5. CASE i.poisoned /\ i.rec = inst.rec
    BY <1>2, <1>5, <2>1, <2>4, <2>5 DEF InstanceInv
  <2>6. CASE i.rec = Idle(p) /\ j = <<Idle(p)>> /\ file' = "whole"
    BY <1>4, <1>5, <1>8, <2>3, <2>4, <2>6 DEF InstanceInv
  <2> QED BY <1>5, <2>5, <2>6
<1>12. ReceiptInv' /\ KillInv' /\ HistoryAccepted'
  BY <1>1, <1>4, <1>5, <1>6, <1>8 DEF ReceiptInv, Received, KillInv, KillsOwn, HistoryAccepted, worldVars
<1> QED BY <1>9, <1>10, <1>11, <1>12 DEF ScopeInv

\* A reader is started only while its spawn is charged.
LEMMA SpawnedKeeps == ASSUME ScopeInv, Spawned PROVE ScopeInv'
<1>1. /\ TypeOK /\ DebtInv /\ InstanceInv /\ ReceiptInv /\ KillInv /\ HistoryAccepted /\ kid \in Kids /\ inst \in Instances
      /\ inst.started /\ inst.rec.pending /\ kid.state = "none"
  BY DEF ScopeInv, TypeOK, Kids, Instances, Spawned
<1>2. inst.proc # None /\ journal # <<>> /\ Charges(Last(journal))
  BY <1>1 DEF InstanceInv
<1>3. PICK k \in Kids : k = kid' /\ k.state = "running"
  <2>1. PICK told, inside \in BOOLEAN :
          kid' = [kid EXCEPT !.state = "running", !.parent = inst.proc,
                             !.inside = inside /\ dir = "ours", !.told = told]
    BY DEF Spawned
  <2>2. inst.proc \in Procs /\ (inside /\ dir = "ours") \in BOOLEAN
    BY <1>1, <1>2 DEF Instances
  <2>3. ASSUME NEW k, NEW x \in BOOLEAN, NEW q \in Procs,
               k = [kid EXCEPT !.state = "running", !.parent = q, !.inside = x, !.told = told]
        PROVE  k \in Kids /\ k.state = "running"
    BY <1>1, <2>3 DEF Kids
  <2> QED BY <2>1, <2>2, <2>3, Zenon
<1>4. UNCHANGED <<life, boot, journalVars, inst, worldVars, receipts, killed, left>>
  BY DEF Spawned
<1>5. TypeOK'
  BY <1>1, <1>3, <1>4 DEF TypeOK, Kids, journalVars, worldVars
<1>6. DebtInv'
  BY <1>1, <1>2, <1>4 DEF DebtInv, Entitled, journalVars, worldVars
<1>7. InstanceInv'
  BY <1>1, <1>2, <1>4 DEF InstanceInv, Entitled, journalVars, worldVars
<1>8. ReceiptInv' /\ KillInv' /\ HistoryAccepted'
  BY <1>1, <1>3, <1>4 DEF ReceiptInv, Received, KillInv, KillsOwn, HistoryAccepted, journalVars, worldVars
<1> QED BY <1>5, <1>6, <1>7, <1>8 DEF ScopeInv

-----------------------------------------------------------------------------
(* Waiting for the reader.                                                   *)

\* A step of the reader, of its wait or of somebody who reaps it.
LEMMA ReaderMoves ==
    ASSUME ScopeInv, NEW k \in Kids, kid' = k, k.state # "none" => kid.state # "none",
           NEW i \in Instances, inst' = i,
           i.proc = inst.proc, i.rec = inst.rec, i.poisoned = inst.poisoned, i.fd = inst.fd, i.started = inst.started,
           i.in = inst.in \/ (inst.in # "none" /\ i.in \notin {"mkdir", "pinning", "limiting"}),
           receipts' \in Seq(Codes \cup {0, Killed}), ReceiptInv', UNCHANGED waitUnchanged
    PROVE  ScopeInv'
<1> USE DEF waitUnchanged
<1>1. TypeOK /\ InstanceInv /\ KillInv
  BY DEF ScopeInv
<1>2. TypeOK'
  BY <1>1 DEF TypeOK, Instances, Kids, journalVars, worldVars
<1>3. KillInv'
  BY <1>1 DEF KillInv, KillsOwn, worldVars
<1>4. /\ inst.in # "none" => ~inst.poisoned /\ inst.proc # None
      /\ inst.proc = None => ~inst.started
  BY <1>1 DEF InstanceInv
<1>5. /\ ~inst'.started => ~inst.started \/ inst.rec.phase # "idle"
      /\ inst'.proc = None => ~inst'.started
      /\ inst'.in \in {"mkdir", "pinning", "limiting"} => inst'.in = inst.in
      /\ inst'.in # "none" => ~inst.poisoned /\ inst.proc # None
      /\ kid'.state # "none" => kid.state # "none"
  BY <1>4
<1> QED BY <1>2, <1>3, <1>5, Moves

\* The reader or its state with one or two members changed.
LEMMA KidFacts ==
    ASSUME ScopeInv
    PROVE  /\ TypeOK /\ kid \in Kids /\ inst \in Instances /\ ReceiptInv /\ InstanceInv
           /\ receipts \in Seq(Codes \cup {0, Killed})
           /\ ~Received => receipts = <<>>
BY DEF ScopeInv, TypeOK, Kids, Instances, ReceiptInv

\* wait_root: begun once by an instance, and everything it took is given back.
LEMMA WaitBeginsKeeps == ASSUME ScopeInv, WaitBegins PROVE ScopeInv'
<1>1. inst \in Instances /\ InstanceInv /\ ~inst.poisoned /\ inst.proc # None
  BY KidFacts DEF WaitBegins, Ready
<1>2. ASSUME NEW i, i = [inst EXCEPT !.waited = TRUE, !.in = "locking"]
      PROVE  /\ i \in Instances /\ i.in = "locking" /\ i.proc = inst.proc /\ i.rec = inst.rec
             /\ i.poisoned = inst.poisoned /\ i.fd = inst.fd /\ i.started = inst.started
  BY <1>1, <1>2 DEF Instances, Methods, Waits
<1>3. PICK i : i = [inst EXCEPT !.waited = TRUE, !.in = "locking"]
  OBVIOUS
<1>4. inst' = i /\ UNCHANGED <<life, boot, journalVars, worldVars, kid, receipts, killed, left>>
  BY <1>3 DEF WaitBegins, waitUnchanged
<1>5. "locking" \in Methods /\ inst.started \in BOOLEAN
  BY <1>1 DEF Methods, Waits, Instances
<1>6. /\ i \in Instances /\ i.in = "locking" /\ i.proc = inst.proc /\ i.rec = inst.rec
      /\ i.poisoned = inst.poisoned /\ i.fd = inst.fd /\ i.started = inst.started
  BY <1>2, <1>3
<1>7. ~i.started => ~inst.started
  BY <1>6
<1> QED BY <1>1, <1>4, <1>5, <1>6, <1>7, InstanceMoves

\* The lock of Popen, the zombie observed, and its status consumed by this wait alone.
LEMMA WaitLocksKeeps == ASSUME ScopeInv, WaitLocks PROVE ScopeInv'
<1>1. kid \in Kids /\ inst \in Instances /\ ReceiptInv /\ inst.in = "locking"
      /\ receipts \in Seq(Codes \cup {0, Killed}) /\ UNCHANGED <<waitUnchanged, receipts>>
  BY KidFacts DEF WaitLocks
<1>2. ASSUME NEW k, k = [kid EXCEPT !.locked = TRUE]
      PROVE  /\ k \in Kids /\ k.state = kid.state /\ k.by = kid.by /\ k.code = kid.code /\ k.returncode = kid.returncode
  BY <1>1, <1>2 DEF Kids
<1>3. PICK k : k = kid' /\ k = [kid EXCEPT !.locked = TRUE]
  BY DEF WaitLocks
<1>4. /\ k \in Kids /\ k.state = kid.state /\ k.by = kid.by /\ k.code = kid.code /\ k.returncode = kid.returncode
  BY <1>2, <1>3
<1>5. PICK i \in Instances : /\ i = [inst EXCEPT !.in = "watching"] /\ i.in = "watching" /\ i.started = inst.started
                             /\ i.proc = inst.proc /\ i.poisoned = inst.poisoned /\ i.fd = inst.fd /\ i.rec = inst.rec
  <2>1. "watching" \in Methods
    BY DEF Methods, Waits
  <2> QED BY <1>1, <2>1, InstanceMoved, ZenonT(40)
<1>6. inst' = i
  BY <1>5 DEF WaitLocks
<1>7. ReceiptInv'
  BY <1>1, <1>3, <1>4, <1>5, <1>6 DEF ReceiptInv, Received
<1> QED BY <1>1, <1>3, <1>4, <1>5, <1>6, <1>7, ReaderMoves

\* WNOWAIT changes nothing of the reader.
LEMMA WaitObservesKeeps == ASSUME ScopeInv, WaitObserves PROVE ScopeInv'
<1>1. kid \in Kids /\ inst \in Instances /\ ReceiptInv /\ inst.in = "watching"
      /\ receipts \in Seq(Codes \cup {0, Killed}) /\ UNCHANGED <<waitUnchanged, kid, receipts>>
  BY KidFacts DEF WaitObserves
<1>2. PICK i \in Instances : /\ i = [inst EXCEPT !.in = "observed"] /\ i.in = "observed" /\ i.started = inst.started
                             /\ i.proc = inst.proc /\ i.poisoned = inst.poisoned /\ i.fd = inst.fd /\ i.rec = inst.rec
  <2>1. "observed" \in Methods
    BY DEF Methods, Waits
  <2> QED BY <1>1, <2>1, InstanceMoved, ZenonT(40)
<1>3. inst' = i
  BY <1>2 DEF WaitObserves
<1>4. ReceiptInv'
  BY <1>1, <1>2, <1>3 DEF ReceiptInv, Received
<1>5. PICK k \in Kids : k = kid
  BY <1>1
<1>6. kid' = k /\ (k.state # "none" => kid.state # "none")
  BY <1>1, <1>5
<1> QED BY <1>1, <1>2, <1>3, <1>4, <1>6, ReaderMoves

\* The consuming wait takes the status of a zombie, of which there is no receipt yet.
LEMMA WaitConsumesKeeps == ASSUME ScopeInv, WaitConsumes PROVE ScopeInv'
<1>1. kid \in Kids /\ inst \in Instances /\ ReceiptInv /\ inst.in = "observed" /\ kid.state = "zombie"
      /\ receipts \in Seq(Codes \cup {0, Killed}) /\ UNCHANGED <<waitUnchanged, receipts>>
      /\ kid.code \in Statuses /\ receipts = <<>>
  BY KidFacts DEF WaitConsumes, ReceiptInv, Received
<1>2. ASSUME NEW k, k = [kid EXCEPT !.state = "reaped", !.by = "wait", !.returncode = kid.code]
      PROVE  /\ k \in Kids /\ k.state = "reaped" /\ k.by = "wait" /\ k.code = kid.code /\ k.returncode = kid.code
  BY <1>1, <1>2 DEF Kids, Statuses
<1>3. PICK k : k = kid' /\ k = [kid EXCEPT !.state = "reaped", !.by = "wait", !.returncode = kid.code]
  BY DEF WaitConsumes
<1>4. k \in Kids /\ k.state = "reaped" /\ k.by = "wait" /\ k.code = kid.code /\ k.returncode = kid.code
  BY <1>2, <1>3
<1>5. PICK i \in Instances : /\ i = [inst EXCEPT !.in = "consumed"] /\ i.in = "consumed" /\ i.started = inst.started
                             /\ i.proc = inst.proc /\ i.poisoned = inst.poisoned /\ i.fd = inst.fd /\ i.rec = inst.rec
  <2>1. "consumed" \in Methods
    BY DEF Methods, Waits
  <2> QED BY <1>1, <2>1, InstanceMoved, ZenonT(40)
<1>6. inst' = i
  BY <1>5 DEF WaitConsumes
<1>7. ReceiptInv'
  BY <1>1, <1>3, <1>4 DEF ReceiptInv, Received
<1> QED BY <1>1, <1>3, <1>4, <1>5, <1>6, <1>7, ReaderMoves

\* A wait ends with the receipt of what it consumed, or with none.
LEMMA WaitEndsKeeps == ASSUME ScopeInv, WaitReturns \/ WaitFails PROVE ScopeInv'
<1>1. kid \in Kids /\ inst \in Instances /\ ReceiptInv /\ inst.in \in Waits
      /\ receipts \in Seq(Codes \cup {0, Killed}) /\ UNCHANGED waitUnchanged
  BY KidFacts DEF WaitReturns, WaitFails, Waits
<1>2. ASSUME NEW k, k = [kid EXCEPT !.locked = FALSE]
      PROVE  /\ k \in Kids /\ k.state = kid.state /\ k.by = kid.by /\ k.code = kid.code /\ k.returncode = kid.returncode
  BY <1>1, <1>2 DEF Kids
<1>3. PICK k : k = kid' /\ (k = kid \/ k = [kid EXCEPT !.locked = FALSE])
  BY DEF WaitReturns, WaitFails
<1>4. /\ k \in Kids /\ k.state = kid.state /\ k.by = kid.by /\ k.code = kid.code /\ k.returncode = kid.returncode
  BY <1>1, <1>2, <1>3
<1>5. PICK i \in Instances : /\ i = [inst EXCEPT !.in = "none"] /\ i.in = "none" /\ i.started = inst.started
                             /\ i.proc = inst.proc /\ i.poisoned = inst.poisoned /\ i.fd = inst.fd /\ i.rec = inst.rec
  <2>1. "none" \in Methods
    BY DEF Methods
  <2> QED BY <1>1, <2>1, InstanceMoved, ZenonT(40)
<1>6. inst' = i /\ inst.in # "none"
  BY <1>1, <1>5 DEF WaitReturns, WaitFails, Waits
<1>7. ReceiptInv' /\ receipts' \in Seq(Codes \cup {0, Killed})
  <2>1. CASE UNCHANGED receipts
    BY <1>1, <1>3, <1>4, <1>5, <1>6, <2>1 DEF ReceiptInv, Received
  <2>2. CASE inst.in = "consumed" /\ receipts' = Append(receipts, kid.returncode)
    <3>1. receipts = <<>> /\ Received /\ kid.returncode \in Codes \cup {0, Killed}
      BY <1>1, <2>2 DEF ReceiptInv, Received, Statuses
    <3>2. PICK x \in Codes \cup {0, Killed} : x = kid.returncode
      BY <3>1
    <3>3. Append(<<>>, x) = <<x>> /\ <<x>> \in Seq(Codes \cup {0, Killed}) /\ Len(<<x>>) = 1 /\ <<x>>[1] = x
      OBVIOUS
    <3>4. receipts' = <<x>>
      BY <2>2, <3>1, <3>2, <3>3
    <3> QED BY <1>3, <1>4, <1>5, <1>6, <3>1, <3>2, <3>3, <3>4 DEF ReceiptInv, Received
  <2> QED BY <2>1, <2>2 DEF WaitReturns, WaitFails
<1> QED BY <1>1, <1>3, <1>4, <1>5, <1>6, <1>7, ReaderMoves

\* Whoever else polls or reaps takes no status of a wait, and the reader exits once.
LEMMA ReaderChangesKeeps ==
    ASSUME ScopeInv, Polled \/ ReapedElsewhere \/ ReaderExits
    PROVE  ScopeInv'
<1>1. kid \in Kids /\ inst \in Instances /\ ReceiptInv
      /\ receipts \in Seq(Codes \cup {0, Killed}) /\ UNCHANGED <<waitUnchanged, inst, receipts>>
  BY KidFacts DEF Polled, ReapedElsewhere, ReaderExits
<1>2. ~Received /\ kid.state # "none"
  BY <1>1, ScopeAssumption DEF Polled, ReapedElsewhere, ReaderExits, Received, Statuses
<1>3. PICK k \in Kids : k = kid' /\ (k.state = "zombie" => k.code \in Statuses)
  <2>1. ASSUME NEW k, k = [kid EXCEPT !.state = "reaped", !.by = "poll", !.returncode = kid.code]
        PROVE  k \in Kids /\ k.state = "reaped"
    BY <1>1, <2>1 DEF Kids
  <2>2. ASSUME NEW k, k = [kid EXCEPT !.returncode = 0]
        PROVE  k \in Kids /\ k.state = kid.state
    BY <1>1, <2>2 DEF Kids
  <2>3. ASSUME NEW k, k = [kid EXCEPT !.state = "reaped", !.by = "other"]
        PROVE  k \in Kids /\ k.state = "reaped"
    BY <1>1, <2>3 DEF Kids
  <2>4. ASSUME NEW code \in Codes, NEW k, k = [kid EXCEPT !.state = "zombie", !.code = code]
        PROVE  k \in Kids /\ k.code = code
    BY <1>1, <2>4 DEF Kids
  <2>5. ASSUME NEW code \in Codes, NEW k, k = [kid EXCEPT !.state = "reaped", !.code = code, !.by = "other"]
        PROVE  k \in Kids /\ k.state = "reaped"
    BY <1>1, <2>5 DEF Kids
  <2>6. CASE Polled
    <3>1. \/ kid' = [kid EXCEPT !.state = "reaped", !.by = "poll", !.returncode = kid.code]
          \/ kid.state = "reaped" /\ kid' = [kid EXCEPT !.returncode = 0]
      BY <2>6 DEF Polled
    <3> QED BY <2>1, <2>2, <3>1
  <2>7. CASE ReapedElsewhere
    BY <2>3, <2>7 DEF ReapedElsewhere
  <2>8. CASE ReaderExits
    <3>1. PICK code \in Codes : kid' = Exited(kid, code)
      BY <2>8 DEF ReaderExits
    <3>2. \/ kid' = [kid EXCEPT !.state = "zombie", !.code = code]
          \/ kid' = [kid EXCEPT !.state = "reaped", !.code = code, !.by = "other"]
      BY <3>1 DEF Exited
    <3>3. PICK k : k = kid'
      OBVIOUS
    <3>4. k \in Kids /\ (k.state = "zombie" => k.code = code)
      <4>1. CASE kid' = [kid EXCEPT !.state = "zombie", !.code = code]
        BY <2>4, <3>3, <4>1
      <4>2. CASE kid' = [kid EXCEPT !.state = "reaped", !.code = code, !.by = "other"]
        BY <2>5, <3>3, <4>2
      <4> QED BY <3>2, <4>1, <4>2
    <3> QED BY <3>3, <3>4 DEF Statuses
  <2> QED BY <2>6, <2>7, <2>8
<1>4. ReceiptInv'
  BY <1>1, <1>2, <1>3 DEF ReceiptInv
<1>5. PICK i \in Instances : i = inst
  BY <1>1
<1>6. inst' = i
  BY <1>1, <1>5
<1> QED BY <1>1, <1>2, <1>3, <1>4, <1>5, <1>6, ReaderMoves

-----------------------------------------------------------------------------
(* The world.                                                                *)

\* A birth, and what others do to the directories.
LEMMA WorldKeeps == ASSUME ScopeInv, (\E p \in Procs : Born(p)) \/ Disturbed PROVE ScopeInv'
<1>1. TypeOK /\ DebtInv /\ InstanceInv /\ ReceiptInv /\ KillInv /\ HistoryAccepted
  BY DEF ScopeInv
<1>2. UNCHANGED <<boot, journalVars, inst, maker, kid, receipts, killed>>
  BY DEF Born, Disturbed, worldVars
<1>3. /\ life' \in [Procs -> {"unborn", "up", "dead"}] /\ dir' \in Leaves /\ foreign' \in BOOLEAN
      /\ left' \in [opens : 0..MaxOpens, outside : 0..MaxOutside]
      /\ dir' = "ours" => dir = "ours"
      /\ \A q \in Procs : life[q] # "unborn" => life'[q] = life[q]
  <2>1. CASE \E p \in Procs : Born(p)
    BY <1>1, <2>1 DEF Born, worldVars, TypeOK
  <2>2. CASE Disturbed
    <3>1. left' \in [opens : 0..MaxOpens, outside : 0..MaxOutside]
      BY <1>1, <2>2, ScopeAssumption, SMTT(40) DEF Disturbed, TypeOK
    <3> QED BY <1>1, <2>2, <3>1 DEF Disturbed, TypeOK, Leaves
  <2> QED BY <2>1, <2>2
<1>4. /\ maker # None => maker \in Procs /\ life[maker] # "unborn"
      /\ inst.proc # None => inst.proc \in Procs /\ life[inst.proc] = "up"
  BY <1>1 DEF TypeOK, DebtInv, InstanceInv
<1>5. TypeOK'
  BY <1>1, <1>2, <1>3 DEF TypeOK, journalVars
<1>6. DebtInv'
  BY <1>1, <1>2, <1>3, <1>4 DEF DebtInv, Entitled, journalVars
<1>7. InstanceInv'
  BY <1>1, <1>2, <1>3, <1>4 DEF InstanceInv, Entitled, journalVars
<1>8. ReceiptInv' /\ KillInv' /\ HistoryAccepted'
  BY <1>1, <1>2 DEF ReceiptInv, Received, KillInv, KillsOwn, HistoryAccepted, journalVars
<1> QED BY <1>5, <1>6, <1>7, <1>8 DEF ScopeInv

-----------------------------------------------------------------------------
(* The theorems.                                                             *)

\* The invariant holds at the start.
LEMMA ScopeStarts == ASSUME Init PROVE ScopeInv
<1>1. PICK i \in Instances : /\ i = inst /\ i.proc = None /\ ~i.started /\ ~i.poisoned /\ i.fd = "none" /\ i.in = "none"
  BY FreshInstance DEF Init, NoInstance
<1>2. kid \in Kids /\ kid.state = "none"
  BY DEF Init, Kids
<1>3. TypeOK
  BY <1>1, <1>2, ScopeAssumption DEF Init, TypeOK, Instances, Kids, Leaves
<1>4. DebtInv /\ InstanceInv
  BY <1>1, <1>2 DEF Init, DebtInv, InstanceInv
<1>5. ReceiptInv /\ KillInv /\ HistoryAccepted
  BY <1>1, <1>2 DEF Init, ReceiptInv, KillInv, KillsOwn, HistoryAccepted
<1> QED BY <1>3, <1>4, <1>5 DEF ScopeInv

\* And every step keeps it.
LEMMA ScopeKept == ASSUME ScopeInv, [Next]_vars PROVE ScopeInv'
<1>1. CASE UNCHANGED vars
  BY <1>1 DEF vars, journalVars, worldVars, ScopeInv, TypeOK, DebtInv, InstanceInv, Entitled, ReceiptInv, Received,
              KillInv, KillsOwn, HistoryAccepted
<1>2. ASSUME NEW p \in Procs, Initialize(p) \/ Open(p) \/ Born(p) \/ Dies(p) PROVE ScopeInv'
  BY <1>2, InitializeKeeps, OpenKeeps, WorldKeeps, DiesKeeps
<1>3. CASE Close \/ Checkpoint \/ Prepare \/ LeafMade \/ LeafPinned \/ LeafLimited
  BY <1>3, CloseKeeps, CheckpointKeeps, PrepareKeeps, LeafMadeKeeps, LeafPinnedKeeps, LeafLimitedKeeps
<1>4. CASE ReserveSpawn \/ Spawned \/ BindChild \/ Kill \/ Recover
  BY <1>4, ReserveSpawnKeeps, SpawnedKeeps, BindChildKeeps, KillKeeps, RecoverKeeps
<1>5. CASE WaitBegins \/ WaitStep
  BY <1>5, WaitBeginsKeeps, WaitLocksKeeps, WaitObservesKeeps, WaitConsumesKeeps, WaitEndsKeeps DEF WaitStep
<1>6. CASE Polled \/ ReapedElsewhere \/ ReaderExits \/ Restarts \/ Disturbed
  BY <1>6, ReaderChangesKeeps, RestartsKeeps, WorldKeeps
<1> QED BY <1>1, <1>2, <1>3, <1>4, <1>5, <1>6 DEF Next

\* The scope keeps its invariant in every behaviour: the journal charges what exists,
\* the instance knows what the journal says, and a status has one way into a receipt.
THEOREM ScopeInvariant == Spec => []ScopeInv
<1>1. Init => ScopeInv
  BY ScopeStarts
<1>2. ScopeInv /\ [Next]_vars => ScopeInv'
  BY ScopeKept
<1> QED BY <1>1, <1>2, PTL DEF Spec

\* Through crashes of the owner at every write, a restart of the machine and any number
\* of openings, debt is never cleared while its cause may be there, and the next owner
\* can read every journal that is whole (native/reader_scope.py: _append, _load, recover).
THEOREM JournalIsTrue == Spec => []JournalTrue
<1>1. ScopeInv => JournalTrue
  <2>1. ASSUME ScopeInv PROVE TypeOK /\ HistoryAccepted /\ DebtInv /\ InstanceInv
    BY <2>1 DEF ScopeInv
  <2>2. ASSUME ScopeInv PROVE DebtKept
    BY <2>1, <2>2 DEF DebtKept, HasDebt, DebtInv, InstanceInv, Charges
  <2> QED BY <2>1, <2>2 DEF JournalTrue
<1> QED BY <1>1, ScopeInvariant, PTL

\* No kill hits the leaf of somebody who may be there, and a receipt is the reader's own
\* status, consumed by the wait that returns it (kill, wait_root).
THEOREM OnlyTheOwn == Spec => []OwnOnly
<1>1. ScopeInv => OwnOnly
  <2>1. ASSUME ScopeInv PROVE KillsOwn /\ ReceiptTrue
    <3>1. KillsOwn /\ ReceiptInv
      BY <2>1 DEF ScopeInv, KillInv
    <3>2. CASE receipts = <<>>
      <4>1. Len(<<>>) = 0
        OBVIOUS
      <4> QED BY <3>1, <3>2, <4>1 DEF ReceiptTrue
    <3>3. CASE receipts # <<>>
      <4>1. Len(receipts) = 1 /\ Received /\ receipts[1] = kid.code
        BY <3>1, <3>3 DEF ReceiptInv
      <4>2. Len(receipts) <= 1
        BY <4>1
      <4> QED BY <3>1, <4>1, <4>2, Zenon DEF Received, ReceiptTrue
    <3> QED BY <3>2, <3>3
  <2> QED BY <2>1 DEF OwnOnly
<1> QED BY <1>1, ScopeInvariant, PTL

----------------------------------------------------------------------------
(* ReadHello: one handshake.                                                *)

Started  == {"start", "connect", "qualify", "lock", "hello"}
Believed == {"relock", "final", "cleanup", "last", "true"}
Staged   == {"lock", "final", "send"}

\* One stranger and the client at most are in the backlog; the client connects once.
BacklogTrue ==
    /\ \A i, j \in DOMAIN backlog : i < j => (backlog[i] = "client" <=> backlog[j] # "client")
    /\ client.step \in {"start", "connect"} =>
          server.peer # "client" /\ \A i \in DOMAIN backlog : backlog[i] # "client"

\* A lock is the call's between the two steps that need it.
LocksMatch ==
    /\ auth["client"].lock = "call" <=> client.step \in {"hello", "final"}
    /\ auth["server"].lock = "call" <=> server.step \in {"final", "send"}

\* An authority that stands is the last one given: none comes back.
GensGrow ==
    /\ \A s \in Sides : auth[s].gen \in {auth[s].last, Nil}
    /\ client.epoch # Nil => client.epoch <= auth["client"].last

\* What a request was staged with, and what the server holds when it sends.
StageTrue ==
    /\ server.step \in Staged => server.peer = "client" /\ server.grant # Nil /\ wire.hello
    /\ server.step = "send" => auth["server"].gen = server.grant

\* One acknowledgement, after the hello, by a server that has finished.
AckTrue ==
    /\ ack # Nil => wire.hello /\ server.step \in {"close"} \cup Done
    /\ wire.reply # "none" => server.step \in {"close"} \cup Done
    /\ wire.reply = "ack" <=> ack # Nil
    /\ server.step \in {"close", "true"} => ack # Nil

\* The hello comes after the checks, and the belief after the answer.
HelloTrue ==
    /\ client.step \in Started => ~wire.hello
    /\ client.step \notin {"start", "refused"} \/ wire.hello => client.epoch # Nil
    /\ client.step \in Believed => ack # Nil /\ ack.epoch = client.epoch

\* An epoch that stands now stood when the server acknowledged.
EpochTrue == ack # Nil /\ auth["client"].gen = client.epoch => ack.epoch = client.epoch

HelloInv ==
    /\ HelloTypeOK /\ HelloMeant /\ AckMeant
    /\ BacklogTrue /\ LocksMatch /\ GensGrow /\ StageTrue /\ AckTrue /\ HelloTrue /\ EpochTrue

----------------------------------------------------------------------------
Authority == [gen : 1 .. MaxGens \cup {Nil}, last : 1 .. MaxGens, lock : {"free", "call", "owner"}]

\* A lock that changes hands changes nothing else.
LEMMA LockMoves ==
    ASSUME auth \in [Sides -> Authority], NEW s \in Sides, NEW l \in {"free", "call", "owner"},
           auth' = [auth EXCEPT ![s].lock = l]
    PROVE  /\ auth' \in [Sides -> Authority]
           /\ auth'[s].lock = l
           /\ \A o \in Sides : auth'[o].gen = auth[o].gen /\ auth'[o].last = auth[o].last
           /\ \A o \in Sides \ {s} : auth'[o].lock = auth[o].lock
<1>1. auth[s] \in Authority /\ auth[s] = [gen |-> auth[s].gen, last |-> auth[s].last, lock |-> auth[s].lock]
  BY DEF Authority
<1>r. ASSUME NEW r \in Authority
      PROVE [r EXCEPT !.lock = l] = [gen |-> r.gen, last |-> r.last, lock |-> l]
  BY DEF Authority
<1>2. auth' = [auth EXCEPT ![s] = [gen |-> auth[s].gen, last |-> auth[s].last, lock |-> l]]
  BY <1>1, <1>r, Zenon
<1>3. [gen |-> auth[s].gen, last |-> auth[s].last, lock |-> l] \in Authority
  BY <1>1 DEF Authority
<1> QED BY <1>1, <1>2, <1>3

\* A side that lets go of its lock frees it, and leaves an owner's alone.
LEMMA LockReturned ==
    ASSUME auth \in [Sides -> Authority], NEW s \in Sides, Unlocks(s)
    PROVE  /\ auth' \in [Sides -> Authority]
           /\ auth'[s].lock = IF auth[s].lock = "call" THEN "free" ELSE auth[s].lock
           /\ \A o \in Sides : auth'[o].gen = auth[o].gen /\ auth'[o].last = auth[o].last
           /\ \A o \in Sides \ {s} : auth'[o].lock = auth[o].lock
<1>1. PICK l \in {"free", "call", "owner"} :
          /\ l = IF auth[s].lock = "call" THEN "free" ELSE auth[s].lock
          /\ auth' = [auth EXCEPT ![s].lock = l]
  BY DEF Unlocks, Authority
<1> QED BY <1>1, LockMoves

\* The end of a connection is the end and nothing else.
LEMMA WireEnds ==
    ASSUME HelloTypeOK, NEW b \in BOOLEAN, wire' = [wire EXCEPT !.ended = b]
    PROVE  /\ wire' \in [to : {"none", "server", "other"}, hello : BOOLEAN,
                         reply : {"none", "part", "ack"}, ended : BOOLEAN]
           /\ wire'.to = wire.to /\ wire'.hello = wire.hello /\ wire'.reply = wire.reply
BY DEF HelloTypeOK

\* A side's next step is its step and nothing else.
LEMMA ClientSteps ==
    ASSUME HelloTypeOK, NEW step \in Started \cup Believed \cup {"wait", "refused"}, ClientGoes(step)
    PROVE  /\ client' \in [step : {"start", "connect", "qualify", "lock", "hello", "wait", "relock", "final",
                                  "cleanup", "last", "true", "refused"},
                           pin : {"server", "other", Nil}, epoch : 1 .. MaxGens \cup {Nil}]
           /\ client'.step = step /\ client'.epoch = client.epoch /\ client'.pin = client.pin
BY DEF HelloTypeOK, ClientGoes, Started, Believed

\* So for the server.
LEMMA ServerSteps ==
    ASSUME HelloTypeOK, NEW step \in Staged \cup Done \cup {"start", "accept", "read", "close"},
           ServerGoes(step)
    PROVE  /\ server' \in [step : {"start", "accept", "read", "lock", "final", "send", "close", "true", "refused"},
                           pin : {"server", "other", Nil}, peer : Callers \cup {Nil},
                           grant : 1 .. MaxGens \cup {Nil}]
           /\ server'.step = step /\ server'.grant = server.grant
           /\ server'.peer = server.peer /\ server'.pin = server.pin
BY DEF HelloTypeOK, ServerGoes, Staged, Done

\* The world takes nothing from the invariant: it owns no step of either side, and
\* what an owner gives anew is newer than what it gave before.
LEMMA WorldStands == ASSUME HelloInv, World PROVE HelloInv'
<1> USE HelloAssumption DEF HelloInv
<1>0. auth \in [Sides -> Authority]
  BY DEF HelloTypeOK, Authority
<1>1. CASE OtherComes
  BY <1>1 DEF OtherComes, Upset, HelloTypeOK, HelloMeant, AckMeant, BacklogTrue, LocksMatch,
              GensGrow, StageTrue, AckTrue, HelloTrue, EpochTrue
<1>2. CASE Replaced
  BY <1>2 DEF Replaced, Upset, HelloTypeOK, HelloMeant, AckMeant, BacklogTrue, LocksMatch,
              GensGrow, StageTrue, AckTrue, HelloTrue, EpochTrue
<1>3. ASSUME NEW s \in Sides, ProcessDies(s) PROVE HelloInv'
  <2>1. PICK b \in BOOLEAN : wire' = [wire EXCEPT !.ended = b]
    BY <1>3 DEF ProcessDies, HelloTypeOK
  <2>2. up' \in [Sides -> BOOLEAN] /\ upsets' \in 0 .. MaxUpsets
    BY <1>3 DEF ProcessDies, Upset, HelloTypeOK
  <2>3. /\ wire' \in [to : {"none", "server", "other"}, hello : BOOLEAN,
                     reply : {"none", "part", "ack"}, ended : BOOLEAN]
        /\ wire'.to = wire.to /\ wire'.hello = wire.hello /\ wire'.reply = wire.reply
        /\ UNCHANGED <<place, other, over, auth, backlog, client, server, ack>>
    BY <1>3, <2>1, WireEnds DEF ProcessDies
  <2>4. HelloTypeOK'
    BY <2>2, <2>3 DEF HelloTypeOK
  <2> QED
    BY <2>3, <2>4 DEF HelloMeant, AckMeant, BacklogTrue, LocksMatch,
              GensGrow, StageTrue, AckTrue, HelloTrue, EpochTrue
<1>4. ASSUME NEW s \in Sides, Expires(s) PROVE HelloInv'
  BY <1>4 DEF Expires, HelloTypeOK, HelloMeant, AckMeant, BacklogTrue, LocksMatch,
              GensGrow, StageTrue, AckTrue, HelloTrue, EpochTrue
<1>5. CASE StrangerConnects
  <2>1. PICK who \in Strangers : backlog' = Append(backlog, who)
    BY <1>5 DEF StrangerConnects
  <2>2. \A i \in DOMAIN backlog : backlog[i] = "client"
    BY <1>5 DEF StrangerConnects, HelloTypeOK, Callers
  <2>3. Len(backlog) <= 1
    BY <2>2 DEF BacklogTrue, HelloTypeOK
  <2>4. /\ backlog' \in Seq(Callers) /\ Len(backlog') = Len(backlog) + 1
        /\ \A i \in DOMAIN backlog : backlog'[i] = backlog[i]
        /\ backlog'[Len(backlog')] = who
    BY <2>1 DEF HelloTypeOK, Callers
  <2>5. BacklogTrue'
    BY <1>5, <2>2, <2>3, <2>4 DEF StrangerConnects, BacklogTrue, HelloTypeOK, Strangers
  <2> QED
    BY <1>5, <2>3, <2>4, <2>5 DEF StrangerConnects, Upset, HelloTypeOK, HelloMeant, AckMeant, LocksMatch,
              GensGrow, StageTrue, AckTrue, HelloTrue, EpochTrue
<1>6. ASSUME NEW s \in Sides, OwnerLocks(s) PROVE HelloInv'
  BY <1>6, <1>0, LockMoves DEF OwnerLocks, Sides, HelloTypeOK, HelloMeant, AckMeant, BacklogTrue, LocksMatch,
              GensGrow, StageTrue, AckTrue, HelloTrue, EpochTrue, Authority
<1>7. ASSUME NEW s \in Sides, OwnerActs(s) PROVE HelloInv'
  <2>0. auth[s] \in Authority /\ s \in Sides
    BY <1>0
  <2>r. ASSUME NEW r \in Authority
        PROVE [r EXCEPT !.gen = Nil] = [gen |-> Nil, last |-> r.last, lock |-> r.lock]
    BY DEF Authority
  <2>g. ASSUME NEW r \in Authority, NEW g \in 1 .. MaxGens
        PROVE [r EXCEPT !.gen = g] = [gen |-> g, last |-> r.last, lock |-> r.lock]
    BY DEF Authority
  <2>l. ASSUME NEW r \in Authority, NEW g \in 1 .. MaxGens
        PROVE [r EXCEPT !.last = g] = [gen |-> r.gen, last |-> g, lock |-> r.lock]
    BY DEF Authority
  <2>u. upsets' \in 0 .. MaxUpsets
    BY <1>7 DEF OwnerActs, Upset, HelloTypeOK
  <2>1. /\ auth' \in [Sides -> Authority]
        /\ auth'[s].lock \in {"owner", "free"}
        /\ \/ auth'[s].gen = auth[s].gen /\ auth'[s].last = auth[s].last
           \/ auth'[s].gen = Nil /\ auth'[s].last = auth[s].last
           \/ auth'[s].gen = auth[s].last + 1 /\ auth'[s].last = auth[s].last + 1
        /\ \A o \in Sides \ {s} : auth'[o] = auth[o]
    <3>1. CASE auth' = [auth EXCEPT ![s].lock = "free"]
      BY <3>1, <1>0, LockMoves
    <3>2. CASE auth' = [auth EXCEPT ![s].gen = Nil]
      <4>1. auth' = [auth EXCEPT ![s] = [gen |-> Nil, last |-> auth[s].last, lock |-> auth[s].lock]]
        BY <2>0, <2>r, <3>2, Zenon
      <4>2. [gen |-> Nil, last |-> auth[s].last, lock |-> auth[s].lock] \in Authority
        BY <2>0 DEF Authority
      <4> QED BY <1>0, <1>7, <4>1, <4>2 DEF OwnerActs
    <3>3. CASE auth[s].last < MaxGens /\ auth' = [auth EXCEPT ![s].gen = auth[s].last + 1, ![s].last = @ + 1]
      <4>1. auth' = [auth EXCEPT ![s] = [gen |-> auth[s].last + 1, last |-> auth[s].last + 1, lock |-> auth[s].lock]]
        <5>1. PICK g \in 1 .. MaxGens : g = auth[s].last + 1
          BY <2>0, <3>3 DEF Authority
        <5> DEFINE first == [auth EXCEPT ![s].gen = g]
        <5>2. first = [auth EXCEPT ![s] = [gen |-> g, last |-> auth[s].last, lock |-> auth[s].lock]]
          BY <2>0, <2>g, Zenon
        <5>3. [gen |-> g, last |-> auth[s].last, lock |-> auth[s].lock] \in Authority
          BY <2>0 DEF Authority
        <5>4. auth' = [first EXCEPT ![s].last = auth[s].last + 1]
          BY <3>3, <5>1, Zenon
        <5> QED BY <1>0, <5>1, <5>2, <5>3, <5>4
      <4>2. [gen |-> auth[s].last + 1, last |-> auth[s].last + 1, lock |-> auth[s].lock] \in Authority
        BY <2>0, <3>3 DEF Authority
      <4> QED BY <1>0, <1>7, <4>1, <4>2 DEF OwnerActs
    <3> QED BY <1>7, <3>1, <3>2, <3>3 DEF OwnerActs
  <2>2. /\ auth[s].lock = "owner"
        /\ UNCHANGED <<place, other, up, over, backlog, wire, client, server, ack>>
    BY <1>7 DEF OwnerActs
  <2>3. GensGrow'
    BY <1>0, <2>0, <2>1, <2>2 DEF GensGrow, HelloTypeOK, Authority, Sides
  <2>4. LocksMatch' /\ StageTrue'
    BY <1>0, <2>0, <2>1, <2>2 DEF LocksMatch, StageTrue, Sides
  <2>5. EpochTrue'
    BY <1>0, <2>0, <2>1, <2>2 DEF EpochTrue, GensGrow, AckTrue, HelloTrue, HelloTypeOK, Authority, Sides
  <2>6. HelloTypeOK'
    BY <2>1, <2>2, <2>u DEF HelloTypeOK, Authority
  <2> QED
    BY <2>2, <2>3, <2>4, <2>5, <2>6 DEF HelloMeant, AckMeant, BacklogTrue, AckTrue, HelloTrue
<1> QED BY <1>1, <1>2, <1>3, <1>4, <1>5, <1>6, <1>7, <1>0 DEF World

\* A step of the client that leaves the wire alone keeps the invariant when its lock
\* fits the step, and a step of belief has its reason.
LEMMA ClientMoves ==
    ASSUME HelloInv, ClientUp, UNCHANGED <<backlog, wire>>,
           NEW step \in (Started \ {"start", "connect"}) \cup Believed \cup {"wait", "refused"}, ClientGoes(step),
           auth' \in [Sides -> Authority],
           \A s \in Sides : auth'[s].gen = auth[s].gen /\ auth'[s].last = auth[s].last,
           auth'["server"].lock = auth["server"].lock,
           auth'["client"].lock = "call" <=> step \in {"hello", "final"},
           step \in Started => client.step \in Started,
           step = "refused" \/ client.step \notin {"start", "refused"},
           step \in Believed => ack # Nil /\ ack.epoch = client.epoch
    PROVE  HelloInv'
<1> USE HelloAssumption DEF HelloInv
<1>1. /\ client' \in [step : {"start", "connect", "qualify", "lock", "hello", "wait", "relock", "final",
                              "cleanup", "last", "true", "refused"},
                       pin : {"server", "other", Nil}, epoch : 1 .. MaxGens \cup {Nil}]
      /\ client'.step = step /\ client'.epoch = client.epoch
      /\ UNCHANGED <<place, other, up, over, upsets, server, ack, backlog, wire>>
  BY ClientSteps DEF ClientUp
<1>2. HelloTypeOK'
  BY <1>1 DEF HelloTypeOK, Authority
<1>3. BacklogTrue' /\ LocksMatch'
  BY <1>1 DEF BacklogTrue, LocksMatch, Sides, Started, Believed
<1>5. HelloTrue'
  BY <1>1 DEF HelloTrue
<1>4. GensGrow' /\ StageTrue' /\ EpochTrue'
  BY <1>1 DEF GensGrow, StageTrue, EpochTrue, Sides
<1> QED BY <1>1, <1>2, <1>3, <1>4, <1>5 DEF HelloMeant, AckMeant, AckTrue

\* The client says hello to the one it verified and believes an answer only with the
\* epoch of its start in force; whatever else it does lets go of its lock.
LEMMA ClientKeeps == ASSUME HelloInv, ClientRuns \/ (ClientUp /\ ClientFails) PROVE HelloInv'
<1> USE HelloAssumption DEF HelloInv
<1>0. /\ ClientUp /\ auth \in [Sides -> Authority] /\ "client" \in Sides /\ "server" \in Sides
      /\ auth["client"].lock \in {"free", "call", "owner"}
      /\ auth["client"].gen \in 1 .. MaxGens \cup {Nil}
      /\ auth["client"].last \in 1 .. MaxGens
  BY DEF HelloTypeOK, Authority, Sides, ClientRuns
<1>1. CASE ClientBegins
  <2>1. /\ client' = [step |-> "connect", pin |-> place, epoch |-> auth["client"].gen]
        /\ client.step = "start" /\ auth["client"].gen # Nil
        /\ UNCHANGED <<place, other, up, over, upsets, server, ack, auth, backlog, wire>>
    BY <1>0, <1>1 DEF ClientBegins, ClientUp
  <2>2. HelloTypeOK'
    BY <1>0, <2>1 DEF HelloTypeOK
  <2>3. ack = Nil /\ ~wire.hello /\ ack' = Nil /\ ~wire'.hello
    BY <2>1 DEF AckTrue, HelloTrue, Started
  <2> QED
    BY <1>0, <2>1, <2>2, <2>3 DEF HelloMeant, AckMeant, BacklogTrue, LocksMatch, GensGrow, StageTrue, AckTrue,
              HelloTrue, EpochTrue, Started, Believed
<1>2. CASE Connects
  <2>1. /\ client.step = "connect" /\ ClientGoes("qualify") /\ place \in {"server", "other"}
        /\ UNCHANGED <<place, other, up, over, upsets, server, ack, auth>>
    BY <1>0, <1>2 DEF Connects, ClientUp, HelloTypeOK
  <2>2. wire' = [to |-> place, hello |-> wire.hello, reply |-> wire.reply, ended |-> wire.ended]
    BY <1>2, <2>1 DEF Connects, HelloTypeOK
  <2>3. ~wire.hello /\ ~wire'.hello /\ wire'.reply = wire.reply
    BY <2>1, <2>2 DEF HelloTrue, Started
  <2>4. /\ client'.step = "qualify" /\ client'.epoch = client.epoch
        /\ client' \in [step : {"start", "connect", "qualify", "lock", "hello", "wait", "relock", "final",
                                "cleanup", "last", "true", "refused"},
                       pin : {"server", "other", Nil}, epoch : 1 .. MaxGens \cup {Nil}]
    BY <2>1, ClientSteps DEF Started
  <2>5. \A i \in DOMAIN backlog : backlog[i] # "client"
    BY <2>1 DEF BacklogTrue
  <2>6. Len(backlog) <= 1
    <3>1. Len(backlog) > 1 => 1 \in DOMAIN backlog /\ 2 \in DOMAIN backlog
      BY DEF HelloTypeOK
    <3> QED BY <2>5, <3>1 DEF BacklogTrue, HelloTypeOK
  <2>7. backlog' \in Seq(Callers) /\ Len(backlog') <= 2 /\ BacklogTrue'
    BY <1>2, <2>4, <2>5, <2>6 DEF Connects, BacklogTrue, HelloTypeOK, Callers
  <2>8. HelloTypeOK'
    BY <2>1, <2>2, <2>4, <2>7 DEF HelloTypeOK
  <2> QED
    BY <2>1, <2>3, <2>4, <2>7, <2>8 DEF HelloMeant, AckMeant, LocksMatch, GensGrow, StageTrue, AckTrue,
              HelloTrue, EpochTrue, Started, Believed
<1>3. CASE Qualifies
  BY <1>0, <1>3, ClientMoves DEF Qualifies, LocksMatch, Started, Believed
<1>4. CASE ClientLocks
  <2>1. PICK step \in {"hello", "final"} :
            /\ ClientGoes(step) /\ auth' = [auth EXCEPT !["client"].lock = "call"]
            /\ UNCHANGED <<backlog, wire>>
            /\ client.step \in {"lock", "relock"} /\ (step = "hello" <=> client.step = "lock")
    BY <1>4 DEF ClientLocks, Locks
  <2>2. step \in Believed => ack # Nil /\ ack.epoch = client.epoch
    BY <2>1 DEF HelloTrue, Believed
  <2>3. /\ auth' \in [Sides -> Authority] /\ auth'["client"].lock = "call"
        /\ \A s \in Sides : auth'[s].gen = auth[s].gen /\ auth'[s].last = auth[s].last
        /\ auth'["server"].lock = auth["server"].lock
    BY <1>0, <2>1, LockMoves DEF Sides
  <2>4. step \in (Started \ {"start", "connect"}) \cup Believed
    BY <2>1 DEF Started, Believed
  <2>5. step \in Started => client.step \in Started
    BY <2>1 DEF Started
  <2> QED BY <1>0, <2>1, <2>2, <2>3, <2>4, <2>5, ClientMoves
<1>5. CASE SaysHello
  <2>1. /\ client.step = "hello" /\ ClientGoes("wait") /\ wire.to = "server" /\ Unlocks("client")
        /\ UNCHANGED <<place, other, up, over, upsets, server, ack, backlog>>
    BY <1>0, <1>5 DEF SaysHello, ClientSure, ClientVerified, Expected, ClientUp
  <2>2. wire' = [to |-> wire.to, hello |-> TRUE, reply |-> wire.reply, ended |-> wire.ended]
    BY <1>5 DEF SaysHello, HelloTypeOK
  <2>3. /\ client'.step = "wait" /\ client'.epoch = client.epoch
        /\ client' \in [step : {"start", "connect", "qualify", "lock", "hello", "wait", "relock", "final",
                                "cleanup", "last", "true", "refused"},
                       pin : {"server", "other", Nil}, epoch : 1 .. MaxGens \cup {Nil}]
    BY <2>1, ClientSteps
  <2>4. /\ auth' \in [Sides -> Authority]
        /\ \A s \in Sides : auth'[s].gen = auth[s].gen /\ auth'[s].last = auth[s].last
        /\ auth'["server"].lock = auth["server"].lock /\ auth'["client"].lock # "call"
    BY <1>0, <2>1, LockReturned DEF Sides
  <2>5. HelloTypeOK'
    BY <2>1, <2>2, <2>3, <2>4 DEF HelloTypeOK, Authority
  <2>6. ack = Nil
    BY <2>1 DEF AckTrue, HelloTrue, Started
  <2>7. wire'.to = "server" /\ wire'.hello /\ wire'.reply = wire.reply
    BY <2>1, <2>2
  <2>8. LocksMatch' /\ StageTrue' /\ GensGrow' /\ BacklogTrue'
    BY <2>1, <2>3, <2>4, <2>7 DEF LocksMatch, StageTrue, GensGrow, BacklogTrue, Sides
  <2> QED
    BY <2>1, <2>3, <2>5, <2>6, <2>7, <2>8 DEF HelloMeant, AckMeant, AckTrue, HelloTrue, EpochTrue, Started, Believed
<1>6. CASE Hears
  <2>1. ack # Nil /\ ack.epoch = client.epoch
    BY <1>6 DEF Hears, ClientSure, Stands, AckTrue, EpochTrue
  <2> QED BY <1>0, <1>6, <2>1, ClientMoves DEF Hears, LocksMatch, Started, Believed
<1>7. CASE Believes
  BY <1>0, <1>7, LockReturned, ClientMoves DEF Believes, LocksMatch, HelloTrue, Started, Believed, Sides
<1>8. CASE CleansUp \/ Returns
  BY <1>0, <1>8, ClientMoves DEF CleansUp, Returns, LocksMatch, HelloTrue, Started, Believed
<1>9. CASE ClientRefuses \/ ClientFails
  BY <1>0, <1>9, LockReturned, ClientMoves DEF ClientRefuses, ClientFails, LocksMatch, HelloTrue, Started, Believed, Sides
<1> QED BY <1>0, <1>1, <1>2, <1>3, <1>4, <1>5, <1>6, <1>7, <1>8, <1>9 DEF ClientRuns

\* A step of the server that says nothing keeps the invariant when its lock fits the
\* step, and what it staged is still what its owner says when it is about to send.
LEMMA ServerMoves ==
    ASSUME HelloInv, ServerUp, UNCHANGED <<backlog, ack>>,
           wire' = wire \/ \E b \in BOOLEAN : wire' = [wire EXCEPT !.ended = b],
           server' \in [step : {"start", "accept", "read", "lock", "final", "send", "close", "true", "refused"},
                       pin : {"server", "other", Nil}, peer : Callers \cup {Nil},
                       grant : 1 .. MaxGens \cup {Nil}],
           server'.peer = server.peer,
           auth' \in [Sides -> Authority],
           \A s \in Sides : auth'[s].gen = auth[s].gen /\ auth'[s].last = auth[s].last,
           auth'["client"].lock = auth["client"].lock,
           auth'["server"].lock = "call" <=> server'.step \in {"final", "send"},
           server'.step \in Staged => server.peer = "client" /\ server'.grant # Nil /\ wire.hello,
           server'.step = "send" => auth["server"].gen = server'.grant,
           server'.step \in {"close"} \cup Done \/ (ack = Nil /\ wire.reply = "none"),
           server'.step \in {"close", "true"} => ack # Nil
    PROVE  HelloInv'
<1> USE HelloAssumption DEF HelloInv
<1>1. /\ wire' \in [to : {"none", "server", "other"}, hello : BOOLEAN,
                    reply : {"none", "part", "ack"}, ended : BOOLEAN]
      /\ wire'.to = wire.to /\ wire'.hello = wire.hello /\ wire'.reply = wire.reply
  <2>1. CASE wire' = wire
    BY <2>1 DEF HelloTypeOK
  <2> QED BY <2>1, WireEnds
<1>2. UNCHANGED <<place, other, up, over, upsets, client, backlog, ack>>
  BY DEF ServerUp
<1>3. HelloTypeOK'
  BY <1>1, <1>2 DEF HelloTypeOK, Authority
<1>4. BacklogTrue' /\ LocksMatch'
  BY <1>2 DEF BacklogTrue, LocksMatch, Sides
<1>5. GensGrow' /\ StageTrue' /\ EpochTrue'
  BY <1>1, <1>2 DEF GensGrow, StageTrue, EpochTrue, Sides
<1>6. AckTrue' /\ HelloTrue'
  BY <1>1, <1>2 DEF AckTrue, HelloTrue
<1> QED BY <1>1, <1>2, <1>3, <1>4, <1>5, <1>6 DEF HelloMeant, AckMeant

\* The server stages what its owner grants to the client that asked, sends under its
\* lock while that grant is in force, and lets go of the lock on every other way.
LEMMA ServerKeeps == ASSUME HelloInv, ServerRuns \/ (ServerUp /\ ServerFails) PROVE HelloInv'
<1> USE HelloAssumption DEF HelloInv
<1>0. /\ ServerUp /\ auth \in [Sides -> Authority] /\ "client" \in Sides /\ "server" \in Sides
      /\ auth["server"].lock \in {"free", "call", "owner"}
      /\ auth["server"].gen \in 1 .. MaxGens \cup {Nil}
      /\ server \in [step : {"start", "accept", "read", "lock", "final", "send", "close", "true", "refused"},
                     pin : {"server", "other", Nil}, peer : Callers \cup {Nil},
                     grant : 1 .. MaxGens \cup {Nil}]
      /\ place \in {"server", "other"}
  BY DEF HelloTypeOK, Authority, Sides, ServerRuns
<1>1. CASE ServerBegins
  <2>1. server' = [step |-> "accept", pin |-> place, peer |-> server.peer, grant |-> server.grant]
    BY <1>0, <1>1 DEF ServerBegins
  <2>2. server.step = "start" /\ UNCHANGED <<auth, backlog, wire, ack>>
    BY <1>1 DEF ServerBegins
  <2> QED
    BY <1>0, <2>1, <2>2, ServerMoves DEF LocksMatch, Staged, Done, AckTrue
<1>2. CASE Accepts
  <2>1. /\ backlog # <<>> /\ backlog' = Tail(backlog) /\ server.step = "accept"
        /\ UNCHANGED <<auth, wire, ack, place, other, up, over, upsets, client>>
    BY <1>0, <1>2 DEF Accepts, ServerUp
  <2>2. Head(backlog) \in Callers /\ Head(backlog) = backlog[1] /\ 1 \in DOMAIN backlog
    BY <2>1 DEF HelloTypeOK
  <2>3. server' = [step |-> "read", pin |-> server.pin, peer |-> Head(backlog), grant |-> server.grant]
    BY <1>0, <1>2 DEF Accepts
  <2>4. backlog' \in Seq(Callers) /\ Len(backlog') = Len(backlog) - 1
    BY <2>1 DEF HelloTypeOK
  <2>5. \A i \in DOMAIN backlog' : i + 1 \in DOMAIN backlog /\ backlog'[i] = backlog[i + 1]
    BY <2>1 DEF HelloTypeOK
  <2>6. BacklogTrue'
    <3>1. \A i, j \in DOMAIN backlog' : i < j => (backlog'[i] = "client" <=> backlog'[j] # "client")
      BY <2>4, <2>5 DEF BacklogTrue, HelloTypeOK
    <3> QED BY <2>1, <2>2, <2>3, <2>5, <3>1 DEF BacklogTrue
  <2>7. HelloTypeOK'
    BY <1>0, <2>1, <2>2, <2>3, <2>4 DEF HelloTypeOK
  <2> QED
    BY <2>1, <2>3, <2>6, <2>7 DEF HelloMeant, AckMeant, LocksMatch, GensGrow, StageTrue, AckTrue,
              HelloTrue, EpochTrue, Staged, Done
<1>3. CASE Reads
  <2>1. /\ server.step = "read" /\ server.peer = "client" /\ wire.hello /\ auth["server"].gen # Nil
        /\ UNCHANGED <<auth, backlog, wire, ack>>
    BY <1>3 DEF Reads, Asked, Authorized
  <2>2. server' = [step |-> "lock", pin |-> server.pin, peer |-> server.peer, grant |-> auth["server"].gen]
    BY <1>0, <1>3, <2>1 DEF Reads, Authorized
  <2> QED
    BY <1>0, <2>1, <2>2, ServerMoves DEF LocksMatch, Staged, Done, AckTrue
<1>4. CASE ServerLocks
  <2>1. /\ server.step = "lock" /\ auth' = [auth EXCEPT !["server"].lock = "call"]
        /\ ServerGoes("final") /\ UNCHANGED <<backlog, wire, ack>>
    BY <1>4 DEF ServerLocks, Locks
  <2>2. server' = [step |-> "final", pin |-> server.pin, peer |-> server.peer, grant |-> server.grant]
    BY <1>0, <2>1 DEF ServerGoes
  <2> QED
    BY <1>0, <2>1, <2>2, LockMoves, ServerMoves DEF StageTrue, Staged, Done, AckTrue, Sides
<1>5. CASE Authorizes
  <2>1. /\ server.step = "final" /\ Granted /\ ServerGoes("send") /\ UNCHANGED <<auth, backlog, wire, ack>>
    BY <1>5 DEF Authorizes
  <2>2. server' = [step |-> "send", pin |-> server.pin, peer |-> server.peer, grant |-> server.grant]
    BY <1>0, <2>1 DEF ServerGoes
  <2> QED
    BY <1>0, <2>1, <2>2, ServerMoves DEF Granted, Authorized, LocksMatch, StageTrue, Staged, Done, AckTrue
<1>6. CASE Sends
  <2>1. PICK reply \in {"part", "ack"} :
            /\ wire' = [wire EXCEPT !.reply = reply, !.ended = reply = "part"]
            /\ ServerGoes(IF reply = "ack" THEN "close" ELSE "refused")
            /\ ack' = IF reply = "part" THEN ack
                      ELSE [to |-> server.peer, staged |-> server.grant, grant |-> auth["server"].gen,
                            epoch |-> auth["client"].gen]
    BY <1>6 DEF Sends
  <2>2. /\ server.step = "send" /\ server.peer = "client" /\ server.grant # Nil /\ wire.hello
        /\ auth["server"].gen = server.grant /\ client.step \notin Done
        /\ ack = Nil /\ wire.reply = "none"
    BY <1>6 DEF Sends, StageTrue, Staged, AckTrue, Gone, Done
  <2>3. /\ Unlocks("server")
        /\ UNCHANGED <<place, other, up, over, upsets, client, backlog>>
    BY <1>0, <1>6 DEF Sends, ServerUp
  <2>4. wire' = [to |-> wire.to, hello |-> wire.hello, reply |-> reply, ended |-> reply = "part"]
    BY <2>1 DEF HelloTypeOK
  <2>5. server' = [step |-> IF reply = "ack" THEN "close" ELSE "refused", pin |-> server.pin,
                   peer |-> server.peer, grant |-> server.grant]
    BY <1>0, <2>1 DEF ServerGoes
  <2>6. /\ auth' \in [Sides -> Authority] /\ auth'["server"].lock # "call"
        /\ \A s \in Sides : auth'[s].gen = auth[s].gen /\ auth'[s].last = auth[s].last
        /\ auth'["client"].lock = auth["client"].lock
    BY <1>0, <2>3, LockReturned DEF Sides
  <2>7. auth["client"].gen \in 1 .. MaxGens \cup {Nil}
    BY <1>0 DEF Authority
  <2>8. /\ ack' \in Acks \cup {Nil}
        /\ AckMeant' /\ (ack' # Nil <=> reply = "ack")
        /\ ack' # Nil => ack'.epoch = auth["client"].gen
    <3>1. CASE reply = "part"
      BY <2>1, <2>2, <3>1 DEF AckMeant
    <3>2. CASE reply = "ack"
      <4>1. ack' = [to |-> "client", staged |-> server.grant, grant |-> server.grant, epoch |-> auth["client"].gen]
        BY <2>1, <2>2, <3>2
      <4>2. ack' \in Acks
        BY <1>0, <2>2, <2>7, <4>1 DEF Acks, Callers
      <4>3. ack' # Nil
        BY <4>2, HelloAssumption
      <4> QED BY <3>2, <4>1, <4>2, <4>3 DEF AckMeant
    <3> QED BY <3>1, <3>2
  <2>9. client.step \notin Started \cup Believed
    BY <2>2 DEF HelloTrue
  <2>10. HelloTypeOK'
    <3>1. wire' \in [to : {"none", "server", "other"}, hello : BOOLEAN,
                     reply : {"none", "part", "ack"}, ended : BOOLEAN]
      BY <2>4 DEF HelloTypeOK
    <3>2. server' \in [step : {"start", "accept", "read", "lock", "final", "send", "close", "true", "refused"},
                     pin : {"server", "other", Nil}, peer : Callers \cup {Nil},
                     grant : 1 .. MaxGens \cup {Nil}]
      BY <1>0, <2>5
    <3> QED BY <2>3, <2>6, <2>8, <3>1, <3>2 DEF HelloTypeOK, Authority
  <2>11. AckTrue' /\ HelloTrue' /\ EpochTrue' /\ HelloMeant'
    BY <2>2, <2>3, <2>4, <2>5, <2>6, <2>8, <2>9 DEF AckTrue, HelloTrue, EpochTrue, HelloMeant, Done, Sides
  <2>12. LocksMatch' /\ StageTrue' /\ GensGrow' /\ BacklogTrue'
    BY <2>2, <2>3, <2>4, <2>5, <2>6 DEF LocksMatch, StageTrue, GensGrow, BacklogTrue, Sides, Staged
  <2> QED BY <2>8, <2>10, <2>11, <2>12
<1>7. CASE Closes
  <2>1. PICK r \in Done : ServerGoes(r)
    BY <1>7 DEF Closes
  <2>2. server' = [step |-> r, pin |-> server.pin, peer |-> server.peer, grant |-> server.grant]
    BY <1>0, <2>1 DEF ServerGoes
  <2>3. /\ server.step = "close" /\ UNCHANGED <<auth, backlog, ack>>
        /\ \E b \in BOOLEAN : wire' = [wire EXCEPT !.ended = b]
    BY <1>7 DEF Closes, Hangs, HelloTypeOK
  <2> QED
    BY <1>0, <2>1, <2>2, <2>3, ServerMoves DEF LocksMatch, Staged, Done, AckTrue
<1>8. CASE ServerRefuses \/ ServerFails
  <2>1. /\ ServerGoes("refused") /\ Unlocks("server") /\ UNCHANGED <<backlog, ack>>
        /\ \E b \in BOOLEAN : wire' = [wire EXCEPT !.ended = b]
    BY <1>8 DEF ServerRefuses, ServerFails, Hangs, HelloTypeOK
  <2>2. server' = [step |-> "refused", pin |-> server.pin, peer |-> server.peer, grant |-> server.grant]
    BY <1>0, <2>1 DEF ServerGoes
  <2> QED
    BY <1>0, <2>1, <2>2, LockReturned, ServerMoves DEF Sides, Staged, Done
<1> QED BY <1>0, <1>1, <1>2, <1>3, <1>4, <1>5, <1>6, <1>7, <1>8 DEF ServerRuns

\* The two processes start with nothing said, nothing locked and one generation.
LEMMA Starts == HelloInit => HelloInv
<1> SUFFICES ASSUME HelloInit PROVE HelloInv
  OBVIOUS
<1> USE HelloAssumption
<1>1. HelloTypeOK
  BY DEF HelloInit, HelloStarts, HelloTypeOK, Sides, Callers
<1>2. BacklogTrue
  BY DEF HelloInit, HelloStarts, BacklogTrue, Callers
<1> QED
  BY <1>1, <1>2 DEF HelloInit, HelloStarts, HelloInv, HelloMeant, AckMeant, LocksMatch, GensGrow,
          StageTrue, AckTrue, HelloTrue, EpochTrue, Started, Believed, Staged, Done, Sides

\* The invariant of the handshake holds of every behaviour.
THEOREM HelloInvariant == HelloSpec => []HelloInv
<1>1. HelloInv /\ [HelloNext]_helloVars => HelloInv'
  <2> SUFFICES ASSUME HelloInv, [HelloNext]_helloVars PROVE HelloInv'
    OBVIOUS
  <2>1. CASE World
    BY <2>1, WorldStands
  <2>2. CASE ClientRuns \/ (ClientUp /\ ClientFails)
    BY <2>2, ClientKeeps
  <2>3. CASE ServerRuns \/ (ServerUp /\ ServerFails)
    BY <2>3, ServerKeeps
  <2>4. CASE UNCHANGED helloVars
    BY <2>4 DEF helloVars, HelloInv, HelloTypeOK, HelloMeant, AckMeant, BacklogTrue, LocksMatch, GensGrow,
          StageTrue, AckTrue, HelloTrue, EpochTrue
  <2> QED BY <2>1, <2>2, <2>3, <2>4 DEF HelloNext
<1> QED BY Starts, <1>1, PTL DEF HelloSpec

\* What either side says is for the one that was meant and covered by its owner at that
\* moment, and no way out keeps the lock (hello_once, OwnedPeer.exchange_one).
THEOREM HandshakeIsSound == HelloSpec => []HandshakeSound
<1>1. HelloInv => HandshakeSound
  BY DEF HelloInv, HandshakeSound, LocksMatch, LocksReturned, Done
<1> QED BY HelloInvariant, <1>1, PTL

\* When the client returns true there was a moment at which both owners stood by what
\* they had said at the start; a server that returns true did acknowledge.
THEOREM BothStoodAtOnce == HelloSpec => []BothStood
<1>1. HelloInv => BothStood
  BY DEF HelloInv, BothStood, AckTrue, AckMeant, HelloTrue, Believed
<1> QED BY HelloInvariant, <1>1, PTL

----------------------------------------------------------------------------
(* ConversationSwitch: the preference of a conversation.                    *)

\* A temporary file is as far as its request is, and goes with the rename.
TempsMatch == \A s \in Setters :
    /\ set[s].step \in {"idle", "asked", "renamed", "status", "answered", "failed"} => temp[s] = "absent"
    /\ set[s].step = "open" => temp[s] = "bad"
    /\ set[s].step = "written" => temp[s] = set[s].mode
    /\ set[s].step # "idle" => set[s].mode \in Modes

\* The history is kept while the off is in force, and only then.
SinceTrue == \A c \in Calls : since[c] # Unset <=> InForce

WholeInv == SwitchWhole /\ TempsMatch

----------------------------------------------------------------------------
\* What a writer does to its own entry and nothing else: the types and the other
\* temporary files stay.
LEMMA SetTypes ==
    ASSUME SwitchTypeOK, NEW s \in Setters, NEW step \in SetSteps,
           NEW mode \in Modes \cup {Unset}, NEW t \in Modes \cup {"absent", "bad"}, NEW f \in Modes \cup {"absent", "bad"},
           set' = [set EXCEPT ![s] = [step |-> step, mode |-> mode]],
           temp' = [temp EXCEPT ![s] = t], pref' = f, Notes, UNCHANGED call
    PROVE  /\ SwitchTypeOK'
           /\ set'[s].step = step /\ set'[s].mode = mode /\ temp'[s] = t
           /\ \A o \in Setters \ {s} : set'[o] = set[o] /\ temp'[o] = temp[o]
<1>1. set' \in [Setters -> [step : SetSteps, mode : Modes \cup {Unset}]]
  BY DEF SwitchTypeOK
<1>2. temp' \in [Setters -> Modes \cup {"absent", "bad"}]
  BY DEF SwitchTypeOK
<1>3. since' \in [Calls -> Steps \cup {Unset}]
  BY DEF SwitchTypeOK, Notes
<1>4. SwitchTypeOK'
  BY <1>1, <1>2, <1>3 DEF SwitchTypeOK
<1>5. set'[s] = [step |-> step, mode |-> mode] /\ temp'[s] = t
  BY DEF SwitchTypeOK
<1>6. \A o \in Setters \ {s} : set'[o] = set[o] /\ temp'[o] = temp[o]
  BY DEF SwitchTypeOK
<1> QED BY <1>4, <1>5, <1>6

\* A change of one request that keeps the file readable keeps the invariant.
LEMMA WholeChange ==
    ASSUME WholeInv, NEW s \in Setters, NEW step \in SetSteps, NEW mode \in Modes,
           NEW t \in Modes \cup {"absent", "bad"}, NEW f \in Modes \cup {"absent", "bad"},
           set' = [set EXCEPT ![s] = [step |-> step, mode |-> mode]],
           temp' = [temp EXCEPT ![s] = t], pref' = f, Notes, UNCHANGED call,
           step \in {"asked", "renamed", "status", "answered", "failed"} => t = "absent",
           step = "open" => t = "bad",
           step = "written" => t = mode,
           step # "idle",
           f = "bad" => pref = "bad" /\ step # "renamed"
                        /\ (step \in {"status", "answered"} => set[s].step \in {"renamed", "status"})
    PROVE  WholeInv'
<1>1. /\ SwitchTypeOK'
      /\ set'[s].step = step /\ set'[s].mode = mode /\ temp'[s] = t
      /\ \A o \in Setters \ {s} : set'[o] = set[o] /\ temp'[o] = temp[o]
  BY SetTypes DEF WholeInv, SwitchWhole
<1>2. TempsMatch'
  BY <1>1 DEF TempsMatch, WholeInv
<1>3. pref' = "bad" => \A o \in Setters : set'[o].step \notin {"renamed", "status", "answered"}
  BY <1>1 DEF WholeInv, SwitchWhole
<1>4. \A o \in Setters : temp'[o] # "absent" => set'[o].step \in {"open", "written", "dead"}
  BY <1>1 DEF WholeInv, SwitchWhole, SetSteps
<1> QED BY <1>1, <1>2, <1>3, <1>4 DEF WholeInv, SwitchWhole

LEMMA WholeSet ==
    ASSUME WholeInv, NEW s \in Setters, Set(s), Notes, UNCHANGED call
    PROVE  WholeInv'
<1>0. /\ pref \in Modes \cup {"absent", "bad"} /\ temp[s] \in Modes \cup {"absent", "bad"}
      /\ temp = [temp EXCEPT ![s] = temp[s]]
      /\ set[s].step # "idle" => set[s].mode \in Modes
      /\ set[s].step \in {"idle", "asked", "renamed", "status"} => temp[s] = "absent"
      /\ set[s].step = "written" => temp[s] = set[s].mode
  BY DEF WholeInv, SwitchWhole, SwitchTypeOK, TempsMatch
<1>00. {"asked", "open", "written", "renamed", "status", "answered", "failed", "dead"} \subseteq SetSteps
       /\ "bad" \notin Modes
  BY DEF SetSteps, Modes
<1>1. CASE Asks(s)
  <2>1. PICK mode \in Modes : set' = [set EXCEPT ![s] = [step |-> "asked", mode |-> mode]]
    BY <1>1 DEF Asks
  <2>2. temp[s] = "absent" /\ temp' = [temp EXCEPT ![s] = "absent"] /\ pref' = pref
    BY <1>1, <1>0 DEF Asks
  <2> QED BY <2>1, <2>2, <1>0, <1>00, WholeChange
<1>2. CASE Opens(s)
  BY <1>2, <1>0, <1>00, WholeChange DEF Opens, SetGoes
<1>3. CASE Writes(s)
  BY <1>3, <1>0, <1>00, WholeChange DEF Writes, SetGoes
<1>4. CASE Renames(s)
  BY <1>4, <1>0, <1>00, WholeChange DEF Renames, SetGoes
<1>5. CASE Removes(s)
  BY <1>5, <1>0, <1>00, WholeChange DEF Removes, SetGoes
<1>6. CASE Answers(s)
  <2>1. PICK step \in {"answered", "failed"} : set' = [set EXCEPT ![s] = [step |-> step, mode |-> set[s].mode]]
    BY <1>6 DEF Answers, SetGoes
  <2> QED BY <1>6, <2>1, <1>0, <1>00, WholeChange DEF Answers
<1>7. CASE SetFails(s)
  BY <1>7, <1>0, <1>00, WholeChange DEF SetFails, SetGoes
<1>8. CASE SetterDies(s)
  <2>1. /\ set[s].mode \in Modes /\ set' = [set EXCEPT ![s] = [step |-> "dead", mode |-> set[s].mode]]
        /\ temp' = [temp EXCEPT ![s] = temp[s]] /\ pref' = pref
    BY <1>8, <1>0 DEF SetterDies, SetGoes
  <2> QED BY <2>1, <1>0, <1>00, WholeChange
<1> QED BY <1>1, <1>2, <1>3, <1>4, <1>5, <1>6, <1>7, <1>8 DEF Set

----------------------------------------------------------------------------
(* Calls                                                                    *)

\* Each step of a call, as a change of its own entry.
LEMMA CallChanges ==
    ASSUME SwitchTypeOK, NEW c \in Calls, Call(c)
    PROVE  /\ call' \in [Calls -> [kind : Kinds \cup {Unset}, step : Steps]]
           /\ \A o \in Calls \ {c} : call'[o] = call[o]
           /\ since' \in [Calls -> Steps \cup {Unset}]
           /\ \A o \in Calls \ {c} : since'[o] = since[o]
           /\ call[c].step # "idle" => call'[c].kind = call[c].kind /\ since'[c] = since[c]
<1>0. /\ call \in [Calls -> [kind : Kinds \cup {Unset}, step : Steps]]
      /\ since \in [Calls -> Steps \cup {Unset}]
  BY DEF SwitchTypeOK
<1>1. CASE Begins(c)
  BY <1>0, <1>1 DEF Begins, Steps
<1>2. CASE ~Begins(c)
  <2>1. since' = since /\ \E step \in Steps : call' = [call EXCEPT ![c] = [kind |-> call[c].kind, step |-> step]]
    BY <1>2 DEF Call, Samples, SendsCall, Guards, Dispatches, Ends, SamplesRead, Delivers, CallGoes, Steps
  <2> QED BY <1>0, <2>1
<1> QED BY <1>1, <1>2

\* The sample of a call fails while the off is in force.
LEMMA Refused == ASSUME InForce PROVE ~Enabled
  BY DEF InForce, Enabled

\* Only the result of a read is sampled.
SampledRead == \A c \in Calls : call[c].step = "sampled" => call[c].kind = "read"

\* The history is true, and what it promises is kept.
BlocksInv == SwitchTypeOK /\ SinceTrue /\ SampledRead /\ OffBlocks

\* What OffBlocks says of one call.
Blocked(k, p, f) ==
    /\ f \in {"start", "first"} => p \in {"start", "first", "refused"}
    /\ f \in {"second", "asked"} /\ k = "act" => p \notin {"guarded", "dispatched", "result", "delivered"}
    /\ f \in {"second", "asked", "dispatched", "result", "error"} /\ k = "read" => p \notin {"sampled", "delivered", "reported"}

\* Where a step takes a call that has begun.
Moved(k, p, q) ==
    \/ p \in {"start", "first"} /\ q \in {"first", "second", "refused"} /\ (InForce => q = "refused")
    \/ p = "second" /\ q = "asked"
    \/ p = "asked" /\ q \in {"dispatched", "guarded", "error"} /\ (k = "act" => q # "dispatched")
         /\ (k = "act" /\ InForce => q = "error")
    \/ p = "guarded" /\ q = "dispatched"
    \/ p = "dispatched" /\ q \in {"result", "error"}
    \/ p \in {"result", "error"} /\ k = "read" /\ q \in {"sampled", "reported", "refused"} /\ (InForce => q = "refused")
    \/ p = "result" /\ k # "read" /\ q = "delivered"
    \/ p = "error" /\ k # "read" /\ q = "reported"
    \/ p = "sampled" /\ q = "delivered"

LEMMA CallMoves ==
    ASSUME SwitchTypeOK, NEW c \in Calls, Call(c), ~Begins(c)
    PROVE  /\ Moved(call[c].kind, call[c].step, call'[c].step)
           /\ call'[c].kind = call[c].kind /\ since' = since
<1>0. \A step : call' = [call EXCEPT ![c] = [kind |-> call[c].kind, step |-> step]]
                  => call'[c].step = step /\ call'[c].kind = call[c].kind
  BY DEF SwitchTypeOK
<1>1. CASE Samples(c)
  BY <1>0, <1>1, Refused DEF Samples, CallGoes, Moved
<1>2. CASE SendsCall(c)
  BY <1>0, <1>2 DEF SendsCall, CallGoes, Moved
<1>3. CASE Guards(c)
  BY <1>0, <1>3, Refused DEF Guards, CallGoes, Moved
<1>4. CASE Dispatches(c)
  BY <1>0, <1>4 DEF Dispatches, CallGoes, Moved
<1>5. CASE Ends(c)
  BY <1>0, <1>5 DEF Ends, CallGoes, Moved
<1>6. CASE SamplesRead(c)
  BY <1>0, <1>6, Refused DEF SamplesRead, CallGoes, Moved
<1>7. CASE Delivers(c)
  BY <1>0, <1>7 DEF Delivers, CallGoes, Moved
<1> QED BY <1>1, <1>2, <1>3, <1>4, <1>5, <1>6, <1>7 DEF Call

LEMMA BlocksCall ==
    ASSUME BlocksInv, NEW c \in Calls, Call(c), UNCHANGED <<pref, temp, set>>
    PROVE  BlocksInv'
<1>0. /\ call' \in [Calls -> [kind : Kinds \cup {Unset}, step : Steps]]
      /\ since' \in [Calls -> Steps \cup {Unset}]
      /\ \A o \in Calls \ {c} : call'[o] = call[o] /\ since'[o] = since[o]
  BY CallChanges DEF BlocksInv
<1>1. SwitchTypeOK'
  BY <1>0 DEF BlocksInv, SwitchTypeOK
<1>2. InForce' <=> InForce
  BY DEF InForce, Status
<1>3. CASE Begins(c)
  <2>1. call'[c].step = "start" /\ since'[c] = IF InForce THEN "start" ELSE Unset
    BY <1>3 DEF Begins, BlocksInv, SwitchTypeOK
  <2>2. SinceTrue'
    BY <1>0, <1>2, <2>1, SwitchAssumption DEF BlocksInv, SinceTrue, Steps
  <2>3. Blocked(call'[c].kind, call'[c].step, since'[c])
    BY <2>1, SwitchAssumption DEF Blocked, Steps
  <2> QED BY <1>0, <1>1, <2>1, <2>2, <2>3 DEF BlocksInv, SampledRead, OffBlocks, Blocked
<1>4. CASE ~Begins(c)
  <2>1. /\ Moved(call[c].kind, call[c].step, call'[c].step)
        /\ call'[c].kind = call[c].kind /\ since' = since
    BY <1>4, CallMoves DEF BlocksInv
  <2>2. SinceTrue'
    BY <1>2, <2>1 DEF BlocksInv, SinceTrue
  <2>3. since[c] # Unset => InForce
    BY DEF BlocksInv, SinceTrue
  <2>4. Blocked(call[c].kind, call[c].step, since[c])
         /\ (call[c].step = "sampled" => call[c].kind = "read")
    BY DEF BlocksInv, SampledRead, OffBlocks, Blocked
  <2>5. Blocked(call[c].kind, call'[c].step, since[c])
    <3>1. CASE since[c] = Unset
      BY <3>1, SwitchAssumption DEF Blocked, Steps
    <3>2. CASE InForce
      BY <3>2, <2>1, <2>4 DEF Blocked, Moved
    <3> QED BY <3>1, <3>2, <2>3
  <2>6. call'[c].step = "sampled" => call'[c].kind = "read"
    BY <2>1 DEF Moved
  <2> QED BY <1>0, <1>1, <2>1, <2>2, <2>5, <2>6 DEF BlocksInv, SampledRead, OffBlocks, Blocked
<1> QED BY <1>3, <1>4

\* A writer moves no call: the history starts where a call is, or ends.
LEMMA BlocksSet ==
    ASSUME BlocksInv, SwitchTypeOK', Notes, UNCHANGED call
    PROVE  BlocksInv'
<1>1. SinceTrue'
  BY SwitchAssumption DEF SinceTrue, Notes, BlocksInv, SwitchTypeOK
<1>2. OffBlocks'
  <2> SUFFICES ASSUME NEW c \in Calls PROVE Blocked(call'[c].kind, call'[c].step, since'[c])
    BY DEF OffBlocks, Blocked
  <2>1. call' = call /\ (since'[c] = Unset \/ since'[c] = call[c].step \/ since'[c] = since[c])
    BY DEF Notes
  <2>2. Blocked(call[c].kind, call[c].step, since[c])
    BY DEF BlocksInv, OffBlocks, Blocked
  <2>3. Blocked(call[c].kind, call[c].step, Unset)
    BY SwitchAssumption DEF Blocked, Steps
  <2>4. Blocked(call[c].kind, call[c].step, call[c].step)
    BY DEF Blocked
  <2> QED BY <2>1, <2>2, <2>3, <2>4
<1>3. SampledRead'
  BY DEF BlocksInv, SampledRead
<1> QED BY <1>1, <1>2, <1>3 DEF BlocksInv

----------------------------------------------------------------------------
\* No writer leaves a file that does not parse, and only the dead leave temporary
\* files (ConversationUsage.set), for any number of writers and calls.
THEOREM FileWhole == SwitchSpec => []SwitchWhole
<1>1. SwitchInit => WholeInv
  BY DEF SwitchInit, WholeInv, SwitchWhole, SwitchTypeOK, TempsMatch, Modes, Kinds, Steps, SetSteps
<1>2. WholeInv /\ [SwitchNext]_switchVars => WholeInv'
  <2> SUFFICES ASSUME WholeInv, [SwitchNext]_switchVars PROVE WholeInv'
    OBVIOUS
  <2>1. CASE \E s \in Setters : Set(s) /\ Notes /\ UNCHANGED call
    BY <2>1, WholeSet
  <2>2. CASE \E c \in Calls : Call(c) /\ UNCHANGED <<pref, temp, set>>
    <3>1. PICK c \in Calls : Call(c) BY <2>2
    <3>2. SwitchTypeOK'
      BY <3>1, <2>2, CallChanges DEF WholeInv, SwitchWhole, SwitchTypeOK
    <3> QED BY <2>2, <3>2 DEF WholeInv, SwitchWhole, TempsMatch
  <2>3. CASE UNCHANGED switchVars
    BY <2>3 DEF switchVars, WholeInv, SwitchWhole, SwitchTypeOK, TempsMatch
  <2> QED BY <2>1, <2>2, <2>3 DEF SwitchNext
<1>3. WholeInv => SwitchWhole
  BY DEF WholeInv
<1> QED BY <1>1, <1>2, <1>3, PTL DEF SwitchSpec

\* Off blocks what comes after it (invoke, callPatient, semanticUsage), for any
\* number of writers and calls.
THEOREM OffHolds == SwitchSpec => []OffBlocks
<1>1. SwitchInit => WholeInv /\ BlocksInv
  BY SwitchAssumption DEF SwitchInit, WholeInv, SwitchWhole, SwitchTypeOK, TempsMatch, Modes, Kinds, Steps, SetSteps,
     BlocksInv, SinceTrue, SampledRead, OffBlocks
<1>2. WholeInv /\ BlocksInv /\ [SwitchNext]_switchVars => WholeInv' /\ BlocksInv'
  <2> SUFFICES ASSUME WholeInv, BlocksInv, [SwitchNext]_switchVars PROVE WholeInv' /\ BlocksInv'
    OBVIOUS
  <2>1. CASE \E s \in Setters : Set(s) /\ Notes /\ UNCHANGED call
    <3>1. WholeInv' BY <2>1, WholeSet
    <3> QED BY <2>1, <3>1, BlocksSet DEF WholeInv, SwitchWhole
  <2>2. CASE \E c \in Calls : Call(c) /\ UNCHANGED <<pref, temp, set>>
    <3>1. BlocksInv' BY <2>2, BlocksCall
    <3> QED BY <2>2, <3>1 DEF WholeInv, SwitchWhole, TempsMatch, BlocksInv
  <2>3. CASE UNCHANGED switchVars
    BY <2>3 DEF switchVars, WholeInv, SwitchWhole, SwitchTypeOK, TempsMatch, BlocksInv, SinceTrue, SampledRead, OffBlocks, InForce, Status
  <2> QED BY <2>1, <2>2, <2>3 DEF SwitchNext
<1>3. BlocksInv => OffBlocks
  BY DEF BlocksInv
<1> QED BY <1>1, <1>2, <1>3, PTL DEF SwitchSpec
=============================================================================
