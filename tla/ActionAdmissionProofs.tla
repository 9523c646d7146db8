------------------------ MODULE ActionAdmissionProofs ------------------------
(***************************************************************************)
(* What the authority path of a session promises, proved for every number of *)
(* requests, narrows and policies (ActionAdmission): each dispatch rests on  *)
(* the policy and the judgement in force, receipts are true, an identity is  *)
(* executed once, and what was revoked is gone from the worker.              *)
(***************************************************************************)
EXTENDS ActionAdmission, TLAPS

\* A job that has begun, one in the queue, and one that still has an action to attempt.
Begun   == {"usage", "consulting", "usage2"} \cup Waiting
Queued  == {"queued", "turn"} \cup Begun
Ahead   == {"queued", "baseline", "usage", "preparing", "consulting", "usage2", "sending"}
\* A call that never executed anything.
Outside == {"absent", "idle", "refused", "conflict", "joined"}

Alone(c) == c \notin Batches /\ Actions[c][1].semantic

-----------------------------------------------------------------------------
(* The queue: each job once, and only the first one has begun.              *)
QueueInv ==
    /\ \A i, j \in DOMAIN tail : i # j => tail[i] # tail[j]
    /\ \A c \in Calls : pc[c] \in Queued <=> \E i \in DOMAIN tail : tail[i] = c
    /\ \A c \in Calls : pc[c] \in Begun => tail # <<>> /\ tail[1] = c

-----------------------------------------------------------------------------
(* One call.                                                                 *)

\* The policy object a job holds, and what it knows of it.
JudgedInv(c) ==
    /\ seen[c] <= version
    /\ pc[c] = "usage2" /\ seen[c] = version => Now(c).class \in allowed
    /\ pc[c] = "usage2" /\ Now(c).class \in Consulted => judged[c] = seen[c]

\* The kind of job that may be where it is.
KindInv(c) ==
    /\ pc[c] \in {"usage", "preparing", "usage2", "revoking", "cancelling"} => Alone(c)
    /\ pc[c] \in {"queued", "baseline", "capturing"} => c \in Batches
    /\ prep[c] = "ready" => pc[c] \in {"consulting", "usage2"} /\ Alone(c) /\ Open
    /\ prep[c] = "sending" => pc[c] = "sending" /\ Alone(c)

\* Receipts come in order, and stop after the first that is not ok.
ReceiptInv(c) ==
    /\ Len(receipts[c]) <= Len(Actions[c])
    /\ pc[c] \in Ahead \/ (pc[c] = "turn" /\ c \notin Batches) => At(c) <= Len(Actions[c])
    /\ pc[c] \in Queued /\ At(c) <= Len(Actions[c]) => \A k \in DOMAIN receipts[c] : receipts[c][k] = "ok"
    /\ pc[c] \in {"absent", "idle", "queued"} => receipts[c] = <<>>
    /\ \A k \in DOMAIN receipts[c] :
          /\ receipts[c][k] = "ok" => k \in DeliveredActions(c)
          /\ receipts[c][k] \in {"refused", "skipped"} => k \notin DeliveredActions(c)
          /\ \A j \in 1..(k - 1) : receipts[c][j] # "ok" => receipts[c][k] = "skipped"

\* What was delivered and journaled is in order and not ahead of the receipts.
DeliveryInv(c) ==
    /\ Increasing(ran[c]) /\ Increasing(journal[c])
    /\ \A i \in DOMAIN ran[c] :
          /\ ran[c][i] <= At(c)
          /\ pc[c] \notin {"sending", "failed"} => ran[c][i] < At(c)
          /\ \E j \in DOMAIN journal[c] : journal[c][j] = ran[c][i]
    /\ \A i \in DOMAIN journal[c] :
          /\ journal[c][i] <= At(c)
          /\ pc[c] \notin {"usage2", "sending", "failed"} => journal[c][i] < At(c)
    /\ pc[c] \in {"usage2", "sending"} => \E j \in DOMAIN journal[c] : journal[c][j] = At(c)
    /\ pc[c] \in Outside \/ (c \notin Batches /\ pc[c] \notin {"sending", "done", "failed"}) => ran[c] = <<>>

\* Whoever got as far as the queue has the identity.
IdentityInv(c) == pc[c] \notin Outside => requests[Id[c]] = c

CallInv(c) == JudgedInv(c) /\ KindInv(c) /\ ReceiptInv(c) /\ DeliveryInv(c) /\ IdentityInv(c)

-----------------------------------------------------------------------------
(* The worker's requests.                                                    *)

\* Where a call is while its request is in the wire.
PlaceOf == [prepare |-> "preparing", send |-> "sending", act |-> "sending",
            baseline |-> "baseline", observe |-> "capturing"]
\* Where a call may be when somebody else cancels its preparation.
Cancellable == {"consulting", "usage2", "sending", "revoking", "cancelling"} \cup Settled

Fits(r) ==
    /\ r.op \in DOMAIN PlaceOf => r.for \in Calls /\ r.by = r.for /\ pc[r.for] = PlaceOf[r.op]
    /\ r.op = "cancel" => /\ r.for \in Calls \ Batches
                          /\ IF r.by \in Calls THEN r.by = r.for /\ pc[r.for] \in {"revoking", "cancelling"}
                             ELSE pc[r.for] \in Cancellable
    /\ r.op \in {"pause", "resume"} => r.by \notin Calls
    /\ r.op = "send" => prep[r.for] = "sending"
    /\ r.op \in {"act", "send"} =>
          IF r.ran THEN r.ok => At(r.for) \in DeliveredActions(r.for)
          ELSE At(r.for) \notin DeliveredActions(r.for)

\* A semantic send is allowed by every narrow that began, or the narrow waits for it.
SendKept(r) ==
    r.op = "send" => \A n \in Narrows :
        \/ npc[n] \in {"absent", "idle"}
        \/ npc[n] = "draining" /\ r.for \in drains[n]
        \/ Now(r.for).class \in Keep[n]

WireInv ==
    /\ \A i \in DOMAIN wire : Fits(wire[i]) /\ SendKept(wire[i])
    /\ \A i, j \in DOMAIN wire : i # j /\ wire[i].by \in Calls => wire[j].by # wire[i].by

\* A narrow that began is in force.
NarrowInv == \A n \in Narrows : npc[n] \in {"draining", "acked"} => allowed \subseteq Keep[n]

\* A preparation in the worker is about to be cancelled, or is the one its job goes on with.
Doomed(c) == \E i \in DOMAIN wire : wire[i].op = "cancel" /\ wire[i].for = c /\ ~wire[i].ran
Meant(c) ==
    \/ \E i \in DOMAIN wire : wire[i].op = "prepare" /\ wire[i].for = c /\ wire[i].ran /\ wire[i].ok
    \/ prep[c] = "ready"
    \/ \E i \in DOMAIN wire : wire[i].op = "send" /\ wire[i].for = c /\ ~wire[i].ran
TokenInv == worker = "up" => \A c \in tokens : Doomed(c) \/ Meant(c)

ActionInv ==
    /\ TypeOK /\ QueueInv /\ (\A c \in Calls : CallInv(c))
    /\ WireInv /\ NarrowInv /\ TokenInv

-----------------------------------------------------------------------------
(* A step of one job.                                                        *)

\* The step leaves everything of call d alone.
Untouched(d) ==
    /\ pc'[d] = pc[d] /\ receipts'[d] = receipts[d] /\ seen'[d] = seen[d] /\ prep'[d] = prep[d]
    /\ ran'[d] = ran[d] /\ journal'[d] = journal[d] /\ judged'[d] = judged[d]

\* What holds of a call that a step leaves alone still does.
LEMMA CallKept ==
    ASSUME NEW d \in Calls, CallInv(d), Untouched(d), UNCHANGED <<state, allowed, version>>,
           pc[d] \notin Outside => requests'[Id[d]] = requests[Id[d]]
    PROVE  CallInv(d)'
<1> USE DEF Untouched, CallInv
<1>1. JudgedInv(d)'
  BY DEF JudgedInv, Now, At
<1>2. KindInv(d)'
  BY DEF KindInv, Open
<1>3. ReceiptInv(d)'
  BY DEF ReceiptInv, At, DeliveredActions
<1>4. DeliveryInv(d)'
  BY DEF DeliveryInv, At, Increasing
<1>5. IdentityInv(d)'
  BY DEF IdentityInv
<1> QED BY <1>1, <1>2, <1>3, <1>4, <1>5

\* A request of a call that a step leaves alone still fits it.
LEMMA FitsKept ==
    ASSUME NEW r \in Requests, Fits(r), SendKept(r), r.for \in Calls => Untouched(r.for),
           UNCHANGED <<npc, drains>>
    PROVE  Fits(r)' /\ SendKept(r)'
<1>1. Fits(r)'
  BY DEF Fits, Untouched, At, DeliveredActions, PlaceOf
<1>2. SendKept(r)'
  BY DEF SendKept, Fits, Untouched, At, Now, PlaceOf
<1> QED BY <1>1, <1>2

\* A cancel of a call's preparation by somebody else still fits when the call moves on.
LEMMA FitsMoved ==
    ASSUME NEW r \in Requests, Fits(r), r.by # r.for, 
           r.for \notin Batches /\ pc[r.for] \in Cancellable => pc'[r.for] \in Cancellable
    PROVE  Fits(r)' /\ SendKept(r)'
<1>1. r.op \notin DOMAIN PlaceOf /\ DOMAIN PlaceOf = {"prepare", "send", "act", "baseline", "observe"}
  BY DEF Fits, PlaceOf
<1> QED BY <1>1 DEF Fits, SendKept

\* A call that waits for nothing has nothing in the wire, and one request at a time
\* when it does.
LEMMA NothingOwn ==
    ASSUME ActionInv, NEW c \in Calls, pc[c] \notin Waiting
    PROVE  \A i \in DOMAIN wire : wire[i].by # c
<1> SUFFICES ASSUME NEW i \in DOMAIN wire, wire[i].by = c PROVE FALSE
  OBVIOUS
<1>1. wire[i] \in Requests /\ Fits(wire[i])
  BY DEF ActionInv, TypeOK, WireInv
<1>2. wire[i].op \in Ops
  BY <1>1 DEF Requests
<1> QED BY <1>1, <1>2 DEF Fits, PlaceOf, Ops, Waiting

\* The rest of a sequence after its first element: of the wire or of the queue.
LEMMA Rest ==
    ASSUME NEW S, NEW w \in Seq(S), w # <<>>
    PROVE  /\ w[1] \in S /\ Head(w) = w[1] /\ 1 \in DOMAIN w
           /\ Tail(w) \in Seq(S) /\ Len(Tail(w)) = Len(w) - 1
           /\ \A i \in DOMAIN Tail(w) : i \in Nat /\ i + 1 \in DOMAIN w /\ i + 1 # 1 /\ Tail(w)[i] = w[i + 1]
           /\ \A i \in DOMAIN w : i # 1 => i - 1 \in DOMAIN Tail(w) /\ Tail(w)[i - 1] = w[i]
<1>1. w[1] \in S /\ Head(w) = w[1] /\ 1 \in DOMAIN w
  OBVIOUS
<1>2. Tail(w) \in Seq(S) /\ Len(Tail(w)) = Len(w) - 1 /\ DOMAIN Tail(w) = 1..(Len(w) - 1) /\ DOMAIN w = 1..Len(w)
  OBVIOUS
<1>3. \A i \in DOMAIN Tail(w) : i \in Nat /\ i + 1 \in DOMAIN w /\ i + 1 # 1 /\ Tail(w)[i] = w[i + 1]
  BY <1>2
<1>4. \A i \in DOMAIN w : i # 1 => i - 1 \in DOMAIN Tail(w) /\ Tail(w)[i - 1] = w[i]
  BY <1>2
<1> QED BY <1>1, <1>2, <1>3, <1>4

\* The first job moves within the queue, or leaves it.
LEMMA QueueMoves ==
    ASSUME TypeOK, QueueInv, NEW c \in Calls, tail # <<>>, tail[1] = c, pc[c] \in Queued,
           \A d \in Calls \ {c} : pc'[d] = pc[d],
           \/ pc'[c] \in Queued /\ tail' = tail
           \/ pc'[c] \notin Queued /\ tail' = Tail(tail)
    PROVE  QueueInv'
<1>0. Begun \subseteq Queued
  BY DEF Queued
<1>1. CASE pc'[c] \in Queued /\ tail' = tail
  BY <1>0, <1>1 DEF QueueInv
<1>2. CASE pc'[c] \notin Queued /\ tail' = Tail(tail)
  <2>0. /\ \A i \in DOMAIN tail' : i + 1 \in DOMAIN tail /\ i + 1 # 1 /\ tail'[i] = tail[i + 1]
        /\ \A i \in DOMAIN tail : i # 1 => i - 1 \in DOMAIN tail' /\ tail'[i - 1] = tail[i]
        /\ 1 \in DOMAIN tail
    <3>1. tail \in Seq(Calls)
      BY DEF TypeOK
    <3>2. /\ \A i \in DOMAIN Tail(tail) : i + 1 \in DOMAIN tail /\ i + 1 # 1 /\ Tail(tail)[i] = tail[i + 1]
          /\ \A i \in DOMAIN tail : i # 1 => i - 1 \in DOMAIN Tail(tail) /\ Tail(tail)[i - 1] = tail[i]
          /\ 1 \in DOMAIN tail
      BY <3>1, Rest
    <3> QED BY <1>2, <3>2, Zenon
  <2>1. \A i, j \in DOMAIN tail' : i # j => tail'[i] # tail'[j]
    BY <2>0 DEF QueueInv
  <2>2. ASSUME NEW d \in Calls PROVE pc'[d] \in Queued <=> \E i \in DOMAIN tail' : tail'[i] = d
    <3>1. CASE d = c
      <4>1. \A i \in DOMAIN tail' : tail'[i] # c
        BY <2>0 DEF QueueInv
      <4> QED BY <1>2, <3>1, <4>1
    <3>2. CASE d # c
      BY <2>0, <3>2 DEF QueueInv
    <3> QED BY <3>1, <3>2
  <2>3. \A d \in Calls : pc'[d] \notin Begun
    BY <1>0, <1>2 DEF QueueInv
  <2> QED BY <2>1, <2>2, <2>3 DEF QueueInv
<1> QED BY <1>1, <1>2

\* What is in the wire behind its first request.
LEMMA RestOfWire ==
    ASSUME TypeOK, wire # <<>>
    PROVE  /\ wire[1] \in Requests /\ Head(wire) = wire[1] /\ 1 \in DOMAIN wire
           /\ Tail(wire) \in Seq(Requests)
           /\ \A i \in DOMAIN Tail(wire) : i \in Nat /\ i + 1 \in DOMAIN wire /\ i + 1 # 1 /\ Tail(wire)[i] = wire[i + 1]
           /\ \A i \in DOMAIN wire : i # 1 => i - 1 \in DOMAIN Tail(wire) /\ Tail(wire)[i - 1] = wire[i]
<1>1. wire \in Seq(Requests)
  BY DEF TypeOK
<1> QED BY <1>1, Rest

\* Behind a call's own request there is no other of it.
LEMMA OwnFirst ==
    ASSUME ActionInv, wire # <<>>, wire[1].by \in Calls
    PROVE  \A i \in DOMAIN Tail(wire) : Tail(wire)[i].by # wire[1].by
BY RestOfWire DEF ActionInv, WireInv

\* So of the queue.
LEMMA RestOfTail ==
    ASSUME TypeOK, tail # <<>>
    PROVE  tail[1] \in Calls /\ Head(tail) = tail[1] /\ Tail(tail) \in Seq(Calls)
<1>1. tail \in Seq(Calls)
  BY DEF TypeOK
<1> QED BY <1>1

\* One more request at the end of the wire.
LEMMA OneMore ==
    ASSUME NEW w \in Seq(Requests), NEW r \in Requests
    PROVE  /\ Append(w, r) \in Seq(Requests)
           /\ DOMAIN Append(w, r) = 1..(Len(w) + 1) /\ DOMAIN w = 1..Len(w) /\ Len(w) \in Nat
           /\ \A i \in DOMAIN w : i \in DOMAIN Append(w, r) /\ Append(w, r)[i] = w[i]
           /\ Len(w) + 1 \in DOMAIN Append(w, r) /\ Append(w, r)[Len(w) + 1] = r
           /\ \A i \in DOMAIN Append(w, r) : i \in DOMAIN w \/ i = Len(w) + 1
OBVIOUS

\* The wire after a step: what was there before, in another order of positions, and
\* perhaps one request more.
WireFrom(w) ==
    \/ w = wire
    \/ wire # <<>> /\ w = Tail(wire)

\* Where each of the requests of w was.
LEMMA WireWas ==
    ASSUME TypeOK, NEW w, WireFrom(w)
    PROVE  /\ w \in Seq(Requests)
           /\ \A i \in DOMAIN w : \E j \in DOMAIN wire : w[i] = wire[j]
           /\ \A i, k \in DOMAIN w : i # k => \E j, l \in DOMAIN wire : j # l /\ w[i] = wire[j] /\ w[k] = wire[l]
<1>1. CASE w = wire
  BY <1>1 DEF TypeOK
<1>2. CASE wire # <<>> /\ w = Tail(wire)
  <2>1. Tail(wire) \in Seq(Requests)
    BY <1>2, RestOfWire
  <2>2. \A i \in DOMAIN Tail(wire) : i \in Nat /\ i + 1 \in DOMAIN wire /\ Tail(wire)[i] = wire[i + 1]
    BY <1>2, RestOfWire
  <2> QED BY <1>2, <2>1, <2>2
<1> QED BY <1>1, <1>2 DEF WireFrom

\* Every request in the next wire fits, and no two are of one call.
LEMMA WireNext ==
    ASSUME wire' \in Seq(Requests),
           \A i \in DOMAIN wire' : \E e \in Requests : wire'[i] = e /\ Fits(e)' /\ SendKept(e)',
           \A i, j \in DOMAIN wire' : i # j /\ wire'[i].by \in Calls => wire'[j].by # wire'[i].by
    PROVE  WireInv'
<1>1. ASSUME NEW i \in DOMAIN wire' PROVE Fits(wire[i])' /\ SendKept(wire[i])'
  <2>1. PICK e \in Requests : wire'[i] = e /\ Fits(e)' /\ SendKept(e)'
    OBVIOUS
  <2>2. Fits(wire[i])'
    BY <2>1 DEF Fits
  <2>3. SendKept(wire[i])'
    BY <2>1 DEF SendKept
  <2> QED BY <2>2, <2>3
<1> QED BY <1>1 DEF WireInv

\* The wire stays right when what stays of it still fits, and what is added fits and
\* is its sender's only one.
LEMMA WireGrows ==
    ASSUME TypeOK, NEW w \in Seq(Requests), NEW r \in Requests,
           \A i \in DOMAIN w : \E e \in Requests : w[i] = e /\ Fits(e)' /\ SendKept(e)',
           \A i, j \in DOMAIN w : i # j /\ w[i].by \in Calls => w[j].by # w[i].by,
           wire' = w \/ /\ wire' = Append(w, r) /\ Fits(r)' /\ SendKept(r)'
                        /\ r.by \in Calls => \A i \in DOMAIN w : w[i].by # r.by
    PROVE  WireInv'
<1>1. CASE wire' = w
  BY <1>1, WireNext
<1>2. CASE wire' = Append(w, r) /\ wire' # w
  <2>1. /\ \A i \in DOMAIN w : i \in DOMAIN wire' /\ wire'[i] = w[i]
        /\ wire'[Len(w) + 1] = r
        /\ \A i \in DOMAIN wire' : i \in DOMAIN w \/ i = Len(w) + 1
        /\ wire' \in Seq(Requests)
    BY <1>2, OneMore
  <2>2. ASSUME NEW i \in DOMAIN wire' PROVE \E e \in Requests : wire'[i] = e /\ Fits(e)' /\ SendKept(e)'
    <3>1. CASE i \in DOMAIN w
      BY <2>1, <3>1
    <3>2. CASE i = Len(w) + 1
      BY <1>2, <2>1, <3>2
    <3> QED BY <2>1, <3>1, <3>2
  <2>3. \A i, j \in DOMAIN wire' : i # j /\ wire'[i].by \in Calls => wire'[j].by # wire'[i].by
    BY <1>2, <2>1
  <2> QED BY <2>1, <2>2, <2>3, WireNext
<1> QED BY <1>1, <1>2

\* A step of one call keeps the wire right, when the call has nothing left in it and asks
\* for one thing at most.
LEMMA WireOfOne ==
    ASSUME ActionInv, NEW c \in Calls, \A d \in Calls \ {c} : Untouched(d), UNCHANGED <<npc, drains>>,
           c \notin Batches /\ pc[c] \in Cancellable => pc'[c] \in Cancellable,
           NEW w, WireFrom(w), \A i \in DOMAIN w : w[i].by # c,
           NEW r \in Requests, r.by = c,
           wire' = w \/ (wire' = Append(w, r) /\ Fits(r)' /\ SendKept(r)')
    PROVE  WireInv'
<1>0. TypeOK /\ WireInv
  BY DEF ActionInv
<1>1. /\ w \in Seq(Requests)
      /\ \A i \in DOMAIN w : \E j \in DOMAIN wire : w[i] = wire[j]
      /\ \A i, k \in DOMAIN w : i # k => \E j, l \in DOMAIN wire : j # l /\ w[i] = wire[j] /\ w[k] = wire[l]
  BY <1>0, WireWas
<1>2. \A i, j \in DOMAIN w : i # j /\ w[i].by \in Calls => w[j].by # w[i].by
  BY <1>0, <1>1 DEF WireInv
<1>3. ASSUME NEW i \in DOMAIN w PROVE \E e \in Requests : w[i] = e /\ Fits(e)' /\ SendKept(e)'
  <2>1. PICK e \in Requests : w[i] = e
    BY <1>1
  <2>2. PICK j \in DOMAIN wire : e = wire[j]
    BY <1>1, <2>1
  <2>3. Fits(wire[j]) /\ SendKept(wire[j])
    BY <1>0 DEF WireInv
  <2>4. Fits(e) /\ SendKept(e)
    BY <2>2, <2>3
  <2>5. e.by # c
    BY <2>1
  <2>6. Fits(e)' /\ SendKept(e)'
    <3>1. CASE e.for = c
      BY <2>4, <2>5, <3>1, FitsMoved
    <3>2. CASE e.for # c
      BY <2>4, <3>2, FitsKept
    <3> QED BY <3>1, <3>2
  <2> QED BY <2>1, <2>6
<1> QED BY <1>0, <1>1, <1>2, <1>3, WireGrows

\* What is behind an answered request is still there after the step.
LEMMA Behind ==
    ASSUME TypeOK, NEW w, WireFrom(w), w = wire \/ wire[1].ran, NEW r \in Requests,
           wire' = w \/ wire' = Append(w, r)
    PROVE  \A i \in DOMAIN wire : i # 1 \/ ~wire[1].ran \/ w = wire => \E j \in DOMAIN wire' : wire'[j] = wire[i]
<1> SUFFICES ASSUME NEW i \in DOMAIN wire, i # 1 \/ ~wire[1].ran \/ w = wire
             PROVE  \E j \in DOMAIN wire' : wire'[j] = wire[i]
  OBVIOUS
<1>1. \E k \in DOMAIN w : w[k] = wire[i]
  <2>1. CASE w = wire
    BY <2>1
  <2>2. CASE w # wire
    <3>1. wire # <<>> /\ w = Tail(wire) /\ i # 1
      BY <2>2 DEF WireFrom
    <3>2. i - 1 \in DOMAIN Tail(wire) /\ Tail(wire)[i - 1] = wire[i]
      BY <3>1, RestOfWire
    <3> QED BY <3>1, <3>2
  <2> QED BY <2>1, <2>2
<1>2. w \in Seq(Requests)
  BY WireWas
<1>3. CASE wire' = w
  BY <1>1, <1>3
<1>4. CASE wire' = Append(w, r)
  BY <1>1, <1>2, <1>4, OneMore
<1> QED BY <1>3, <1>4

\* A cancel that is on its way stays on its way.
LEMMA StillDoomed ==
    ASSUME TypeOK, NEW w, WireFrom(w), w = wire \/ wire[1].ran, NEW r \in Requests,
           wire' = w \/ wire' = Append(w, r), NEW d, Doomed(d)
    PROVE  Doomed(d)'
<1>1. PICK i \in DOMAIN wire : wire[i].op = "cancel" /\ wire[i].for = d /\ ~wire[i].ran
  BY DEF Doomed
<1>2. i # 1 \/ ~wire[1].ran \/ w = wire
  BY <1>1
<1>3. \E j \in DOMAIN wire' : wire'[j] = wire[i]
  BY <1>2, Behind
<1> QED BY <1>1, <1>3 DEF Doomed

\* A step of one call, or the answer to a request that prepared nothing for another,
\* leaves the preparations of the others meant or doomed.
LEMMA TokensOfOne ==
    ASSUME ActionInv, NEW c, \A d \in Calls \ {c} : prep'[d] = prep[d], UNCHANGED <<worker, tokens>>,
           NEW w, WireFrom(w), w = wire \/ (wire[1].ran /\ (wire[1].op = "prepare" => wire[1].for = c)),
           NEW r \in Requests, wire' = w \/ wire' = Append(w, r),
           worker = "up" /\ c \in tokens => Doomed(c)' \/ Meant(c)'
    PROVE  TokenInv'
<1>0. TypeOK /\ TokenInv
  BY DEF ActionInv
<1> SUFFICES ASSUME worker = "up", NEW d \in tokens, d # c PROVE Doomed(d)' \/ Meant(d)'
  BY DEF TokenInv
<1>1. d \in Calls /\ (Doomed(d) \/ Meant(d))
  BY <1>0 DEF TokenInv, TypeOK
<1>2. CASE Doomed(d)
  BY <1>0, <1>2, StillDoomed
<1>3. CASE prep[d] = "ready"
  BY <1>1, <1>3 DEF Meant
<1>4. ASSUME NEW i \in DOMAIN wire,
             \/ wire[i].op = "prepare" /\ wire[i].for = d /\ wire[i].ran /\ wire[i].ok
             \/ wire[i].op = "send" /\ wire[i].for = d /\ ~wire[i].ran
      PROVE Meant(d)'
  <2>1. i # 1 \/ ~wire[1].ran \/ w = wire
    BY <1>4
  <2>2. \E j \in DOMAIN wire' : wire'[j] = wire[i]
    BY <1>0, <2>1, Behind
  <2> QED BY <1>4, <2>2 DEF Meant
<1> QED BY <1>1, <1>2, <1>3, <1>4 DEF Meant

\* A step of the first job keeps the invariant when it does right by that job.
LEMMA JobMoves ==
    ASSUME ActionInv, NEW c \in Calls, \A d \in Calls \ {c} : Untouched(d), TypeOK', CallInv(c)',
           UNCHANGED <<state, allowed, version, requests, npc, drains, worker, tokens>>,
           tail # <<>>, tail[1] = c, pc[c] \in Queued,
           \/ pc'[c] \in Queued /\ tail' = tail
           \/ pc'[c] \notin Queued /\ tail' = Tail(tail),
           c \notin Batches /\ pc[c] \in Cancellable => pc'[c] \in Cancellable,
           NEW w, WireFrom(w), \A i \in DOMAIN w : w[i].by # c,
           w = wire \/ (wire[1].ran /\ wire[1].for = c),
           NEW r \in Requests, r.by = c,
           wire' = w \/ (wire' = Append(w, r) /\ Fits(r)' /\ SendKept(r)'),
           worker = "up" /\ c \in tokens => Doomed(c)' \/ Meant(c)'
    PROVE  ActionInv'
<1>1. QueueInv'
  BY QueueMoves DEF ActionInv, Untouched
<1>2. \A d \in Calls : CallInv(d)'
  BY CallKept DEF ActionInv
<1>3. WireInv'
  BY WireOfOne
<1>4. NarrowInv'
  BY DEF ActionInv, NarrowInv
<1>5. TokenInv'
  <2>1. \A d \in Calls \ {c} : prep'[d] = prep[d]
    BY DEF Untouched
  <2>2. w = wire \/ (wire[1].ran /\ (wire[1].op = "prepare" => wire[1].for = c))
    OBVIOUS
  <2>3. wire' = w \/ wire' = Append(w, r)
    OBVIOUS
  <2> QED BY <2>1, <2>2, <2>3, TokensOfOne
<1> QED BY <1>1, <1>2, <1>3, <1>4, <1>5 DEF ActionInv

-----------------------------------------------------------------------------
(* Receipts, deliveries and journal entries of the call that moves.          *)

\* One more element at the end.
LEMMA Longer ==
    ASSUME NEW S, NEW s \in Seq(S), NEW m \in S
    PROVE  /\ Append(s, m) \in Seq(S) /\ Len(s) \in Nat /\ Len(Append(s, m)) = Len(s) + 1
           /\ DOMAIN Append(s, m) = 1..(Len(s) + 1) /\ DOMAIN s = 1..Len(s)
           /\ \A i \in DOMAIN s : Append(s, m)[i] = s[i]
           /\ Append(s, m)[Len(s) + 1] = m
OBVIOUS

\* A job that leaves the queue with what it has.
LEMMA Leaves ==
    ASSUME NEW c \in Calls, CallInv(c), pc[c] \in Queued, pc'[c] \in {"done", "failed", "refused"},
           UNCHANGED <<version, requests>>, receipts'[c] = receipts[c], seen'[c] = seen[c],
           ran'[c] = ran[c], journal'[c] = journal[c], prep'[c] = "none",
           pc'[c] # "failed" => pc[c] \notin {"usage2", "sending"},
           pc'[c] = "refused" => ran[c] = <<>>
    PROVE  CallInv(c)'
<1> USE DEF CallInv
<1>1. pc[c] \notin Outside
  BY DEF Queued, Begun, Waiting, Outside
<1>2. JudgedInv(c)'
  BY DEF JudgedInv
<1>3. KindInv(c)'
  BY DEF KindInv
<1>4. ReceiptInv(c)'
  BY DEF ReceiptInv, At, DeliveredActions, Queued, Begun, Waiting, Ahead
<1>5. DeliveryInv(c)'
  <2>0. At(c)' = At(c) /\ pc[c] # "failed"
    BY DEF At, Queued, Begun, Waiting
  <2>1. Increasing(ran[c])' /\ Increasing(journal[c])'
    BY DEF DeliveryInv, Increasing
  <2>2. \A i \in DOMAIN ran'[c] :
          /\ ran'[c][i] <= At(c)'
          /\ pc'[c] \notin {"sending", "failed"} => ran'[c][i] < At(c)'
          /\ \E j \in DOMAIN journal'[c] : journal'[c][j] = ran'[c][i]
    BY <2>0 DEF DeliveryInv
  <2>3. \A i \in DOMAIN journal'[c] :
          /\ journal'[c][i] <= At(c)'
          /\ pc'[c] \notin {"usage2", "sending", "failed"} => journal'[c][i] < At(c)'
    BY <2>0 DEF DeliveryInv
  <2> QED BY <2>1, <2>2, <2>3 DEF DeliveryInv, Outside
<1>6. IdentityInv(c)'
  BY <1>1 DEF IdentityInv, Outside
<1> QED BY <1>2, <1>3, <1>4, <1>5, <1>6

\* The types of one call.
LEMMA CallTypes ==
    ASSUME TypeOK, NEW c \in Calls
    PROVE  /\ pc[c] \in Places /\ receipts[c] \in Seq(Marks) /\ seen[c] \in Nat /\ epochAt[c] \in Nat
           /\ prep[c] \in {"none", "ready", "sending"} /\ ran[c] \in Seq(Nat) /\ journal[c] \in Seq(Nat)
           /\ At(c) \in Nat /\ At(c) = Len(receipts[c]) + 1 /\ At(c) > 0
           /\ version \in Nat /\ epoch \in Nat
           /\ Actions[c] \in Seq([class : Classes, semantic : BOOLEAN]) /\ Len(Actions[c]) \in Nat
           /\ Len(Actions[c]) > 0 /\ (c \notin Batches => Len(Actions[c]) = 1)
<1>1. /\ pc[c] \in Places /\ receipts[c] \in Seq(Marks) /\ seen[c] \in Nat /\ epochAt[c] \in Nat
      /\ prep[c] \in {"none", "ready", "sending"} /\ ran[c] \in Seq(Nat) /\ journal[c] \in Seq(Nat)
      /\ version \in Nat /\ epoch \in Nat
  BY DEF TypeOK
<1>2. At(c) \in Nat /\ At(c) = Len(receipts[c]) + 1 /\ At(c) > 0
  BY <1>1 DEF At
<1>3. Actions[c] \in Seq([class : Classes, semantic : BOOLEAN]) /\ Actions[c] # <<>>
  BY ActionAssumption
<1>4. c \notin Batches => Len(Actions[c]) = 1
  BY ActionAssumption
<1>5. Len(Actions[c]) \in Nat /\ Len(Actions[c]) > 0
  BY <1>3
<1> QED BY <1>1, <1>2, <1>3, <1>4, <1>5

\* The outcome of one action is added to the receipts of a job whose earlier ones
\* were all ok.
LEMMA ReceiptAdded ==
    ASSUME TypeOK, NEW c \in Calls, ReceiptInv(c), pc[c] \in Queued, At(c) <= Len(Actions[c]),
           NEW m \in Marks, receipts'[c] = Append(receipts[c], m), ran'[c] = ran[c],
           m = "ok" => At(c) \in DeliveredActions(c),
           m \in {"refused", "skipped"} => At(c) \notin DeliveredActions(c),
           pc'[c] \notin Ahead \cup {"absent", "idle"},
           pc'[c] = "turn" => c \in Batches,
           pc'[c] \in Queued => m = "ok" \/ Len(Actions[c]) = 1
    PROVE  ReceiptInv(c)'
<1>1. /\ Len(receipts'[c]) = Len(receipts[c]) + 1 /\ Len(receipts[c]) \in Nat
      /\ DOMAIN receipts'[c] = 1..(Len(receipts[c]) + 1) /\ DOMAIN receipts[c] = 1..Len(receipts[c])
      /\ \A k \in DOMAIN receipts[c] : receipts'[c][k] = receipts[c][k]
      /\ receipts'[c][At(c)] = m
  <2>1. receipts[c] \in Seq(Marks)
    BY CallTypes
  <2> QED BY <2>1, Longer DEF At
<1>2. At(c) = Len(receipts[c]) + 1 /\ At(c)' = At(c) + 1 /\ Len(Actions[c]) \in Nat
  BY <1>1, CallTypes DEF At
<1>3. \A k \in DOMAIN receipts[c] : receipts[c][k] = "ok"
  BY DEF ReceiptInv
<1>4. DeliveredActions(c)' = DeliveredActions(c)
  BY DEF DeliveredActions
<1>5. Len(receipts'[c]) <= Len(Actions[c])
  BY <1>1, <1>2
<1>6. pc'[c] \in Queued /\ At(c)' <= Len(Actions[c]) => \A k \in DOMAIN receipts'[c] : receipts'[c][k] = "ok"
  <2>1. CASE m = "ok"
    <3>1. \A k \in DOMAIN receipts'[c] : k \in DOMAIN receipts[c] \/ k = At(c)
      BY <1>1, <1>2
    <3> QED BY <1>1, <1>3, <2>1, <3>1
  <2>2. CASE Len(Actions[c]) = 1
    BY <1>1, <1>2, <2>2
  <2> QED BY <2>1, <2>2
<1>7. ASSUME NEW k \in DOMAIN receipts'[c]
      PROVE  /\ receipts'[c][k] = "ok" => k \in DeliveredActions(c)
             /\ receipts'[c][k] \in {"refused", "skipped"} => k \notin DeliveredActions(c)
             /\ \A j \in 1..(k - 1) : receipts'[c][j] # "ok" => receipts'[c][k] = "skipped"
  <2>1. CASE k \in DOMAIN receipts[c]
    BY <1>1, <1>3, <2>1 DEF ReceiptInv
  <2>2. CASE k = At(c)
    BY <1>1, <1>2, <1>3, <2>2
  <2> QED BY <1>1, <1>2, <2>1, <2>2
<1> QED BY <1>4, <1>5, <1>6, <1>7 DEF ReceiptInv, Ahead

\* A batch stops at the action whose turn it was: the rest is not attempted.
LEMMA ReceiptsStopped ==
    ASSUME TypeOK, NEW c \in Calls, ReceiptInv(c), DeliveryInv(c), pc[c] \in Queued, At(c) <= Len(Actions[c]),
           NEW m \in Marks \ {"ok"}, receipts'[c] = Stopped(c, m), ran'[c] = ran[c],
           m \in {"refused", "skipped"} => At(c) \notin DeliveredActions(c),
           pc'[c] = "turn", c \in Batches
    PROVE  ReceiptInv(c)' /\ receipts'[c] \in Seq(Marks) /\ At(c)' = Len(Actions[c]) + 1
<1> DEFINE n == Len(Actions[c])
           s == Stopped(c, m)
<1>0. /\ n \in Nat /\ n > 0 /\ At(c) \in Nat /\ At(c) > 0 /\ receipts[c] \in Seq(Marks)
      /\ At(c) = Len(receipts[c]) + 1 /\ DOMAIN receipts[c] = 1..(At(c) - 1)
  BY CallTypes
<1>1. /\ DOMAIN s = 1..n
      /\ \A k \in 1..n : s[k] = IF k < At(c) THEN receipts[c][k] ELSE IF k = At(c) THEN m ELSE "skipped"
  BY DEF Stopped
<1>2. s \in Seq(Marks) /\ Len(s) = n
  <2>1. \A k \in 1..n : s[k] \in Marks
    BY <1>0, <1>1 DEF Marks
  <2>2. s = [k \in 1..n |-> s[k]]
    BY DEF Stopped
  <2> HIDE DEF s
  <2>3. s \in [1..n -> Marks]
    BY <2>1, <2>2
  <2> QED BY <1>0, <2>3
<1>3. At(c)' = n + 1
  BY <1>2 DEF At
<1>4. \A k \in DOMAIN receipts[c] : receipts[c][k] = "ok" /\ k \in DeliveredActions(c)
  BY DEF ReceiptInv
<1>5. DeliveredActions(c)' = DeliveredActions(c) /\ \A k \in DeliveredActions(c) : k <= At(c)
  BY DEF DeliveredActions, DeliveryInv
<1> HIDE DEF s
<1>6. receipts'[c] = s
  BY DEF s
<1>7. ASSUME NEW k \in 1..n
      PROVE  /\ s[k] = "ok" => k \in DeliveredActions(c)
             /\ s[k] \in {"refused", "skipped"} => k \notin DeliveredActions(c)
             /\ \A j \in 1..(k - 1) : s[j] # "ok" => s[k] = "skipped"
  <2>1. CASE k < At(c)
    <3>1. \A j \in 1..k : j \in 1..n /\ j \in DOMAIN receipts[c] /\ s[j] = receipts[c][j]
      BY <1>0, <1>1, <2>1
    <3>2. \A j \in 1..k : s[j] = "ok"
      BY <1>4, <3>1
    <3> QED BY <1>0, <1>4, <3>1, <3>2
  <2>2. CASE k = At(c)
    BY <1>0, <1>1, <1>4, <2>2
  <2>3. CASE k > At(c)
    BY <1>0, <1>1, <1>5, <2>3
  <2> QED BY <1>0, <2>1, <2>2, <2>3
<1>8. DOMAIN receipts'[c] = 1..n /\ Len(receipts'[c]) = n
  BY <1>1, <1>2, <1>6
<1>9. pc'[c] \notin Ahead \cup {"absent", "idle", "queued"}
  BY DEF Ahead, Waiting
<1> QED BY <1>0, <1>2, <1>3, <1>5, <1>6, <1>7, <1>8, <1>9 DEF ReceiptInv

\* Deliveries and journal entries of a call whose action is settled, or that has only
\* moved to a place where nothing more is expected of them.
LEMMA DeliveriesKept ==
    ASSUME TypeOK, NEW c \in Calls, DeliveryInv(c), ran'[c] = ran[c], journal'[c] = journal[c], At(c)' \in Nat,
           pc'[c] \notin {"usage2", "sending"},
           At(c)' > At(c) \/ (At(c)' = At(c) /\ pc[c] \notin {"usage2", "sending", "failed"}),
           pc'[c] \in Outside \/ (c \notin Batches /\ pc'[c] \notin {"done", "failed"}) => ran[c] = <<>>
    PROVE  DeliveryInv(c)'
<1>0. At(c) \in Nat /\ ran[c] \in Seq(Nat) /\ journal[c] \in Seq(Nat)
  BY CallTypes
<1>1. Increasing(ran[c])' /\ Increasing(journal[c])'
  BY DEF DeliveryInv, Increasing
<1>2. ASSUME NEW i \in DOMAIN ran[c]
      PROVE  ran[c][i] < At(c)' /\ \E j \in DOMAIN journal[c] : journal[c][j] = ran[c][i]
  <2>1. ran[c][i] \in Nat
    BY <1>0
  <2> QED BY <1>0, <2>1 DEF DeliveryInv
<1>3. ASSUME NEW i \in DOMAIN journal[c] PROVE journal[c][i] < At(c)'
  <2>1. journal[c][i] \in Nat
    BY <1>0
  <2> QED BY <1>0, <2>1 DEF DeliveryInv
<1>4. \A i \in DOMAIN ran'[c] :
        /\ ran'[c][i] <= At(c)'
        /\ pc'[c] \notin {"sending", "failed"} => ran'[c][i] < At(c)'
        /\ \E j \in DOMAIN journal'[c] : journal'[c][j] = ran'[c][i]
  <2>1. \A i \in DOMAIN ran[c] : ran[c][i] \in Nat
    BY <1>0
  <2> QED BY <1>2, <2>1
<1>5. \A i \in DOMAIN journal'[c] :
        /\ journal'[c][i] <= At(c)'
        /\ pc'[c] \notin {"usage2", "sending", "failed"} => journal'[c][i] < At(c)'
  <2>1. \A i \in DOMAIN journal[c] : journal[c][i] \in Nat
    BY <1>0
  <2> QED BY <1>3, <2>1
<1> QED BY <1>1, <1>4, <1>5 DEF DeliveryInv

\* The action whose turn it is has not been delivered before it is sent.
LEMMA NotYetDelivered ==
    ASSUME TypeOK, NEW c \in Calls, DeliveryInv(c), pc[c] \notin {"sending", "failed"}
    PROVE  At(c) \notin DeliveredActions(c)
<1>1. At(c) \in Nat /\ ran[c] \in Seq(Nat)
  BY CallTypes
<1>2. \A i \in DOMAIN ran[c] : ran[c][i] < At(c) /\ ran[c][i] \in Nat
  BY <1>1 DEF DeliveryInv
<1> QED BY <1>1, <1>2 DEF DeliveredActions

\* A call whose preparation is in a running worker has got as far as asking for it.
LEMMA TokenPlace ==
    ASSUME ActionInv, worker = "up", NEW c \in tokens
    PROVE  /\ c \in Calls /\ c \notin Batches
           /\ pc[c] \in Cancellable \cup {"preparing"}
           /\ pc[c] \in Settled \cup {"revoking", "cancelling"} => Doomed(c)
           /\ pc[c] \in {"consulting", "usage2"} => Doomed(c) \/ prep[c] = "ready"
<1>0. TypeOK /\ WireInv /\ TokenInv /\ c \in Calls /\ KindInv(c) /\ (Doomed(c) \/ Meant(c))
  BY DEF ActionInv, TokenInv, CallInv, TypeOK
<1>1. CASE Doomed(c)
  <2>1. PICK i \in DOMAIN wire : wire[i].op = "cancel" /\ wire[i].for = c
    BY <1>1 DEF Doomed
  <2>2. Fits(wire[i])
    BY <1>0 DEF WireInv
  <2>3. c \notin Batches /\ pc[c] \in Cancellable
    BY <2>1, <2>2 DEF Fits, Cancellable
  <2> QED BY <1>0, <1>1, <2>3
<1>2. CASE prep[c] = "ready"
  BY <1>0, <1>2 DEF KindInv, Alone, Cancellable, Settled
<1>3. ASSUME NEW i \in DOMAIN wire, wire[i].op \in {"prepare", "send"}, wire[i].for = c
      PROVE pc[c] \in {"preparing", "sending"} /\ c \notin Batches
  <2>1. Fits(wire[i])
    BY <1>0 DEF WireInv
  <2> QED BY <1>0, <1>3, <2>1 DEF Fits, PlaceOf, KindInv, Alone
<1>4. CASE ~Doomed(c) /\ prep[c] # "ready"
  <2>1. \E i \in DOMAIN wire : wire[i].op \in {"prepare", "send"} /\ wire[i].for = c
    BY <1>0, <1>4 DEF Meant
  <2> QED BY <1>0, <1>3, <2>1 DEF Cancellable, Settled
<1> QED BY <1>1, <1>2, <1>4

\* What a job's turn says of it.
LEMMA TurnFacts ==
    ASSUME ActionInv, NEW c \in Calls, NEW place \in Queued, MyTurn(c, place)
    PROVE  /\ TypeOK /\ CallInv(c) /\ pc[c] = place /\ tail # <<>> /\ tail[1] = c
           /\ place \notin Waiting => \A i \in DOMAIN wire : wire[i].by # c
           /\ WireFrom(wire) /\ wire \in Seq(Requests) /\ At(c) \in Nat
<1>1. TypeOK /\ CallInv(c)
  BY DEF ActionInv
<1>2. tail # <<>> /\ pc[c] = place /\ Head(tail) = tail[1] /\ tail[1] = c
  BY <1>1 DEF MyTurn, TypeOK
<1>3. place \notin Waiting => \A i \in DOMAIN wire : wire[i].by # c
  BY <1>2, NothingOwn
<1> QED BY <1>1, <1>2, <1>3, CallTypes DEF WireFrom, TypeOK

\* A request that a job posts is typed.
LEMMA OwnRequest ==
    ASSUME NEW c \in Calls, NEW op \in Ops
    PROVE  /\ Request(op, c, c) \in Requests
           /\ Request(op, c, c).op = op /\ Request(op, c, c).by = c /\ Request(op, c, c).for = c
           /\ Request(op, c, c).ran = FALSE /\ Request(op, c, c).ok = FALSE
BY DEF Request, Requests, Askers

\* What a post does to the wire.
LEMMA Posting ==
    ASSUME NEW w \in Seq(Requests), NEW r \in Requests
    PROVE  /\ Posted(w, r) \in Seq(Requests)
           /\ Posted(w, r) = w \/ Posted(w, r) = Append(w, r)
           /\ worker = "up" => \E i \in DOMAIN Posted(w, r) : Posted(w, r)[i] = r
BY OneMore DEF Posted

\* A refusal keeps the invariant: the receipts say so, nothing of the action was
\* delivered, and the preparation of a lone job is given back before the job ends.
LEMMA Refuses ==
    ASSUME ActionInv, NEW c \in Calls, tail # <<>>, tail[1] = c,
           pc[c] \in {"turn", "usage", "consulting", "usage2", "preparing"}, At(c) <= Len(Actions[c]),
           NEW w, WireFrom(w), \A i \in DOMAIN w : w[i].by # c,
           w = wire \/ (wire[1].ran /\ wire[1].for = c),
           worker = "up" /\ c \in tokens => Doomed(c) \/ prep[c] = "ready",
           ActionRefused(c, w),
           UNCHANGED <<sessionVars, seen, epochAt, epoch, personVars, worker, tokens, ran, historyVars>>
    PROVE  ActionInv'
<1> USE DEF sessionVars, personVars, historyVars
<1>0. /\ TypeOK /\ CallInv(c) /\ ReceiptInv(c) /\ DeliveryInv(c) /\ KindInv(c) /\ JudgedInv(c) /\ IdentityInv(c)
      /\ At(c) \in Nat /\ receipts[c] \in Seq(Marks) /\ At(c) = Len(receipts[c]) + 1
      /\ prep[c] \in {"none", "ready", "sending"}
  BY CallTypes DEF ActionInv, CallInv
<1>1. pc[c] \in Queued /\ pc[c] \notin Outside /\ prep[c] # "sending" /\ pc[c] \notin {"sending", "failed"}
  BY <1>0 DEF Queued, Begun, Waiting, Outside, KindInv
<1>2. At(c) \notin DeliveredActions(c)
  BY <1>0, <1>1, NotYetDelivered
<1>3. w \in Seq(Requests)
  BY <1>0, WireWas
<1>4. CASE c \in Batches
  <2>1. /\ receipts' = [receipts EXCEPT ![c] = Stopped(c, "refused")] /\ pc' = [pc EXCEPT ![c] = "turn"]
        /\ wire' = w /\ UNCHANGED <<tail, prep>>
    BY <1>4 DEF ActionRefused
  <2>2. receipts'[c] = Stopped(c, "refused") /\ pc'[c] = "turn"
    BY <1>0, <2>1 DEF TypeOK
  <2>3. \A d \in Calls \ {c} : Untouched(d)
    BY <1>0, <2>1 DEF TypeOK, Untouched
  <2>4. ReceiptInv(c)' /\ receipts'[c] \in Seq(Marks) /\ At(c)' = Len(Actions[c]) + 1
    BY <1>0, <1>1, <1>2, <1>4, <2>2, ReceiptsStopped DEF Marks
  <2>5. TypeOK'
    <3>1. pc' \in [Calls -> Places]
      BY <1>0, <2>1 DEF TypeOK, Places
    <3>2. receipts' \in [Calls -> Seq(Marks)]
      BY <1>0, <2>1, <2>2, <2>4 DEF TypeOK
    <3> QED BY <1>0, <1>3, <2>1, <3>1, <3>2 DEF TypeOK
  <2>6. DeliveryInv(c)'
    <3>1. At(c)' \in Nat /\ At(c)' > At(c)
      BY <1>0, <2>4, CallTypes
    <3> QED BY <1>0, <1>4, <2>2, <3>1, DeliveriesKept DEF Outside
  <2>7. prep[c] = "none"
    BY <1>0, <1>1, <1>4 DEF KindInv, Alone
  <2>8. KindInv(c)' /\ JudgedInv(c)' /\ IdentityInv(c)'
    BY <1>0, <1>1, <2>1, <2>2, <2>7 DEF KindInv, JudgedInv, IdentityInv
  <2>9. CallInv(c)'
    BY <2>4, <2>6, <2>8 DEF CallInv
  <2>10. worker = "up" => c \notin tokens
    BY <1>4, TokenPlace
  <2>11. pc'[c] \in Queued
    BY <2>2 DEF Queued
  <2>12. Request("act", c, c) \in Requests /\ Request("act", c, c).by = c
    BY OwnRequest DEF Ops
  <2> QED BY <1>1, <1>4, <2>1, <2>3, <2>5, <2>9, <2>10, <2>11, <2>12, JobMoves
<1>5. CASE c \notin Batches
  <2>1. receipts' = [receipts EXCEPT ![c] = Append(@, "refused")] /\ GiveUp(c, w)
    BY <1>5 DEF ActionRefused
  <2>2. receipts'[c] = Append(receipts[c], "refused") /\ receipts' \in [Calls -> Seq(Marks)]
        /\ \A d \in Calls \ {c} : receipts'[d] = receipts[d]
    <3>0. "refused" \in Marks
      BY DEF Marks
    <3>1. PICK rs \in Seq(Marks) : rs = Append(receipts[c], "refused")
      BY <1>0, <3>0, Longer
    <3>2. receipts' = [receipts EXCEPT ![c] = rs]
      BY <2>1, <3>1
    <3> QED BY <1>0, <3>1, <3>2 DEF TypeOK
  <2>3. At(c)' = At(c) + 1
    <3>1. Len(Append(receipts[c], "refused")) = Len(receipts[c]) + 1
      BY <1>0
    <3> QED BY <1>0, <2>2, <3>1 DEF At
  <2>4. Len(Actions[c]) = 1
    BY <1>5, CallTypes, <1>0
  <2>5. PICK p \in {"cancelling", "refused", "failed"} :
            /\ pc' = [pc EXCEPT ![c] = p]
            /\ p = "cancelling" <=> prep[c] = "ready"
            /\ IF p = "cancelling" THEN tail' = tail ELSE tail' = Tail(tail)
    BY <2>1 DEF GiveUp, Finish
  <2>6. /\ prep[c] = "ready" => prep' = [prep EXCEPT ![c] = "none"] /\ wire' = Posted(w, Request("cancel", c, c))
        /\ prep[c] # "ready" => prep' = prep /\ wire' = w
    BY <2>1 DEF GiveUp
  <2>7. pc'[c] = p /\ prep'[c] = "none" /\ pc' \in [Calls -> Places] /\ prep' \in [Calls -> {"none", "ready", "sending"}]
        /\ \A d \in Calls \ {c} : pc'[d] = pc[d] /\ prep'[d] = prep[d]
    <3>1. pc'[c] = p /\ pc' \in [Calls -> Places] /\ \A d \in Calls \ {c} : pc'[d] = pc[d]
      BY <1>0, <2>5 DEF TypeOK, Places, Waiting, Settled
    <3>2. prep' = [prep EXCEPT ![c] = "none"] \/ (prep' = prep /\ prep[c] = "none")
      BY <1>0, <1>1, <2>6
    <3>3. prep'[c] = "none" /\ prep' \in [Calls -> {"none", "ready", "sending"}] /\ \A d \in Calls \ {c} : prep'[d] = prep[d]
      <4>1. CASE prep' = [prep EXCEPT ![c] = "none"]
        BY <1>0, <4>1 DEF TypeOK
      <4>2. CASE prep' = prep /\ prep[c] = "none"
        BY <1>0, <4>2 DEF TypeOK
      <4> QED BY <3>2, <4>1, <4>2
    <3> QED BY <3>1, <3>3
  <2>8. \A d \in Calls \ {c} : Untouched(d)
    BY <2>2, <2>7 DEF Untouched
  <2>9. ran[c] = <<>>
    BY <1>0, <1>1, <1>5 DEF DeliveryInv, Queued, Begun, Waiting
  <2>10. ReceiptInv(c)'
    <3>1. pc'[c] \notin Ahead \cup {"absent", "idle"} /\ pc'[c] # "turn"
      BY <2>5, <2>7 DEF Ahead
    <3> QED BY <1>0, <1>1, <1>2, <2>2, <2>4, <3>1, ReceiptAdded DEF Marks
  <2>11. DeliveryInv(c)'
    BY <1>0, <2>3, <2>5, <2>7, <2>9, DeliveriesKept
  <2>12. KindInv(c)' /\ JudgedInv(c)' /\ IdentityInv(c)'
    BY <1>0, <1>1, <2>5, <2>7 DEF KindInv, JudgedInv, IdentityInv, Outside
  <2>13. CallInv(c)'
    BY <2>10, <2>11, <2>12 DEF CallInv
  <2>14. /\ Request("cancel", c, c) \in Requests /\ Request("cancel", c, c).by = c
         /\ Request("cancel", c, c).op = "cancel" /\ Request("cancel", c, c).for = c
         /\ ~Request("cancel", c, c).ran
    <3>1. "cancel" \in Ops
      BY DEF Ops
    <3> QED BY <3>1, OwnRequest, ZenonT(40)
  <2>15. wire' \in Seq(Requests)
    BY <1>3, <2>6, <2>14, Posting
  <2>16. TypeOK'
    <3>1. tail' \in Seq(Calls)
      <4>1. tail' = tail \/ tail' = Tail(tail)
        BY <2>5
      <4>2. tail \in Seq(Calls) /\ Tail(tail) \in Seq(Calls)
        BY <1>0, RestOfTail DEF TypeOK
      <4> QED BY <4>1, <4>2
    <3> QED BY <1>0, <2>2, <2>7, <2>15, <3>1 DEF TypeOK
  <2>17. \/ pc'[c] \in Queued /\ tail' = tail
         \/ pc'[c] \notin Queued /\ tail' = Tail(tail)
    BY <2>5, <2>7 DEF Queued, Begun, Waiting
  <2>18. pc'[c] \in Cancellable
    BY <2>5, <2>7 DEF Cancellable, Settled
  <2>19. prep[c] = "ready" => Fits(Request("cancel", c, c))' /\ SendKept(Request("cancel", c, c))'
    BY <1>5, <2>5, <2>7, <2>14 DEF Fits, SendKept, PlaceOf
  <2>20. wire' = w \/ (wire' = Append(w, Request("cancel", c, c))
                       /\ Fits(Request("cancel", c, c))' /\ SendKept(Request("cancel", c, c))')
    BY <1>3, <2>6, <2>14, <2>19, Posting
  <2>21. worker = "up" /\ c \in tokens => Doomed(c)' \/ Meant(c)'
    <3> SUFFICES ASSUME worker = "up", c \in tokens PROVE Doomed(c)'
      OBVIOUS
    <3>1. CASE prep[c] = "ready"
      <4>1. \E i \in DOMAIN wire' : wire'[i] = Request("cancel", c, c)
        BY <1>3, <2>6, <2>14, <3>1, Posting
      <4> QED BY <2>14, <4>1 DEF Doomed
    <3>2. CASE prep[c] # "ready"
      <4>1. Doomed(c) /\ wire' = w
        BY <2>6, <3>2
      <4> QED BY <1>0, <2>14, <4>1, StillDoomed
    <3> QED BY <3>1, <3>2
  <2> QED BY <1>1, <2>8, <2>13, <2>14, <2>16, <2>17, <2>18, <2>20, <2>21, JobMoves
<1> QED BY <1>4, <1>5

\* A job goes on to a place where it has delivered and journaled nothing new, with one
\* request to the worker or none.
LEMMA Proceeds ==
    ASSUME ActionInv, NEW c \in Calls, tail # <<>>, tail[1] = c,
           pc[c] \in Queued \ {"usage2", "sending"}, prep[c] = "none",
           NEW p \in {"turn", "baseline", "usage", "preparing", "consulting", "capturing"},
           pc' = [pc EXCEPT ![c] = p],
           p \in {"usage", "preparing"} => Alone(c),
           p \in {"baseline", "capturing"} => c \in Batches,
           p = "turn" \/ p = "capturing" \/ At(c) <= Len(Actions[c]),
           p = "turn" => c \in Batches,
           seen' \in [Calls -> Nat], \A d \in Calls \ {c} : seen'[d] = seen[d], seen'[c] <= version,
           epochAt' \in [Calls -> Nat],
           NEW w, WireFrom(w), \A i \in DOMAIN w : w[i].by # c,
           w = wire \/ (wire[1].ran /\ wire[1].for = c),
           c \notin Batches /\ pc[c] \in Cancellable => p \in Cancellable,
           worker = "up" => c \notin tokens,
           NEW op \in DOMAIN PlaceOf \ {"act", "send"}, p = PlaceOf[op] \/ wire' = w,
           wire' = w \/ wire' = Posted(w, Request(op, c, c)),
           UNCHANGED <<sessionVars, tail, receipts, prepVars, personVars, worker, tokens, ran, historyVars>>
    PROVE  ActionInv'
<1> USE DEF sessionVars, prepVars, personVars, historyVars
<1>0. TypeOK /\ CallInv(c)
  BY DEF ActionInv
<1>1. pc'[c] = p /\ pc' \in [Calls -> Places] /\ \A d \in Calls \ {c} : pc'[d] = pc[d]
  BY <1>0 DEF TypeOK, Places, Waiting
<1>2. \A d \in Calls \ {c} : Untouched(d)
  BY <1>1 DEF Untouched
<1>3. op \in Ops /\ op \notin {"act", "send", "cancel", "pause", "resume"}
  BY DEF PlaceOf, Ops
<1>4. /\ Request(op, c, c) \in Requests /\ Request(op, c, c).by = c
      /\ Request(op, c, c).op = op /\ Request(op, c, c).for = c
  BY <1>3, OwnRequest, ZenonT(40)
<1>5. w \in Seq(Requests)
  BY <1>0, WireWas
<1>6. wire' \in Seq(Requests) /\ (wire' = w \/ wire' = Append(w, Request(op, c, c)))
  <2>1. /\ Posted(w, Request(op, c, c)) \in Seq(Requests)
        /\ Posted(w, Request(op, c, c)) = w \/ Posted(w, Request(op, c, c)) = Append(w, Request(op, c, c))
    BY <1>4, <1>5, Posting
  <2> QED BY <1>5, <2>1
<1>7. TypeOK'
  BY <1>0, <1>1, <1>6 DEF TypeOK
<1>8. pc[c] \notin Outside /\ p \in Queued /\ p \notin Outside
  BY DEF Queued, Begun, Waiting, Outside
<1>9. CallInv(c)'
  <2>1. JudgedInv(c)' /\ KindInv(c)' /\ IdentityInv(c)'
    BY <1>0, <1>1, <1>8 DEF CallInv, JudgedInv, KindInv, IdentityInv, Alone
  <2>2. ReceiptInv(c)'
    <3>1. At(c)' = At(c) /\ DeliveredActions(c)' = DeliveredActions(c)
      BY DEF At, DeliveredActions
    <3>2. p \in Ahead => At(c) <= Len(Actions[c])
      BY DEF Ahead
    <3> QED BY <1>0, <1>1, <1>8, <3>1, <3>2 DEF CallInv, ReceiptInv
  <2>3. DeliveryInv(c)'
    <3>1. At(c)' = At(c) /\ At(c)' \in Nat /\ pc[c] \notin {"usage2", "sending", "failed", "done"}
      BY <1>0, CallTypes DEF At, Queued, Begun, Waiting
    <3>2. c \notin Batches => ran[c] = <<>>
      BY <1>0, <3>1 DEF CallInv, DeliveryInv
    <3> QED BY <1>0, <1>1, <1>8, <3>1, <3>2, DeliveriesKept DEF CallInv
  <2> QED BY <2>1, <2>2, <2>3 DEF CallInv
<1>10. wire' # w => Fits(Request(op, c, c))' /\ SendKept(Request(op, c, c))'
  BY <1>1, <1>3, <1>4 DEF Fits, SendKept
<1> QED BY <1>1, <1>2, <1>4, <1>6, <1>7, <1>8, <1>9, <1>10, JobMoves

\* An allowed action is journaled before it goes on.
LEMMA Journals ==
    ASSUME TypeOK, NEW c \in Calls, DeliveryInv(c), pc[c] \notin {"usage2", "sending", "failed", "done"},
           journal'[c] = Append(journal[c], At(c)), receipts'[c] = receipts[c], ran'[c] = ran[c],
           pc'[c] \in {"usage2", "sending"}
    PROVE  DeliveryInv(c)'
<1>1. At(c)' = At(c) /\ At(c) \in Nat /\ journal[c] \in Seq(Nat) /\ ran[c] \in Seq(Nat)
  BY CallTypes DEF At
<1>2. /\ DOMAIN journal'[c] = 1..(Len(journal[c]) + 1) /\ DOMAIN journal[c] = 1..Len(journal[c])
      /\ Len(journal[c]) \in Nat
      /\ \A i \in DOMAIN journal[c] : journal'[c][i] = journal[c][i]
      /\ journal'[c][Len(journal[c]) + 1] = At(c)
  BY <1>1, Longer
<1>3. /\ \A i \in DOMAIN journal[c] : journal[c][i] < At(c) /\ journal[c][i] \in Nat
      /\ \A i \in DOMAIN ran[c] : ran[c][i] < At(c) /\ ran[c][i] \in Nat
  <2>1. /\ \A i \in DOMAIN journal[c] : journal[c][i] \in Nat
        /\ \A i \in DOMAIN ran[c] : ran[c][i] \in Nat
    BY <1>1
  <2>2. /\ \A i \in DOMAIN journal[c] : journal[c][i] < At(c)
        /\ \A i \in DOMAIN ran[c] : ran[c][i] < At(c)
    BY DEF DeliveryInv
  <2> QED BY <2>1, <2>2
<1>4. Increasing(journal[c])' /\ Increasing(ran[c])'
  BY <1>2, <1>3 DEF DeliveryInv, Increasing
<1>5. \A i \in DOMAIN journal'[c] : journal'[c][i] <= At(c)
  BY <1>1, <1>2, <1>3
<1>6. \E j \in DOMAIN journal'[c] : journal'[c][j] = At(c)
  BY <1>2
<1>7. \A i \in DOMAIN ran[c] : \E j \in DOMAIN journal'[c] : journal'[c][j] = ran[c][i]
  <2>1. \A j \in DOMAIN journal[c] : j \in DOMAIN journal'[c]
    BY <1>2
  <2> QED BY <1>2, <2>1 DEF DeliveryInv
<1>8. \A i \in DOMAIN ran[c] : ran[c][i] <= At(c)
  BY <1>1, <1>3
<1> QED BY <1>1, <1>3, <1>4, <1>5, <1>6, <1>7, <1>8 DEF DeliveryInv, Outside

\* A job ends with what it has: the queue goes on to the next.
LEMMA Ends ==
    ASSUME ActionInv, NEW c \in Calls, tail # <<>>, tail[1] = c, pc[c] \in Queued,
           NEW p \in {"done", "failed", "refused"}, pc' = [pc EXCEPT ![c] = p], tail' = Tail(tail),
           prep' = [prep EXCEPT ![c] = "none"],
           p # "failed" => pc[c] \notin {"usage2", "sending"},
           p = "refused" => ran[c] = <<>>,
           NEW w, WireFrom(w), \A i \in DOMAIN w : w[i].by # c,
           w = wire \/ (wire[1].ran /\ wire[1].for = c), wire' = w,
           worker = "up" /\ c \in tokens => Doomed(c),
           UNCHANGED <<sessionVars, receipts, seen, epochAt, epoch, personVars, worker, tokens, ran, historyVars>>
    PROVE  ActionInv'
<1> USE DEF sessionVars, personVars, historyVars
<1>0. TypeOK /\ CallInv(c)
  BY DEF ActionInv
<1>1. /\ pc'[c] = p /\ pc' \in [Calls -> Places] /\ \A d \in Calls \ {c} : pc'[d] = pc[d]
      /\ prep'[c] = "none" /\ prep' \in [Calls -> {"none", "ready", "sending"}]
      /\ \A d \in Calls \ {c} : prep'[d] = prep[d]
  BY <1>0 DEF TypeOK, Places, Settled
<1>2. \A d \in Calls \ {c} : Untouched(d)
  BY <1>1 DEF Untouched
<1>3. w \in Seq(Requests)
  BY <1>0, WireWas
<1>4. TypeOK'
  <2>1. Tail(tail) \in Seq(Calls)
    BY <1>0, RestOfTail
  <2> QED BY <1>0, <1>1, <1>3, <2>1 DEF TypeOK
<1>5. CallInv(c)'
  BY <1>0, <1>1, Leaves
<1>6. pc'[c] \notin Queued /\ pc'[c] \in Cancellable
  BY <1>1 DEF Queued, Begun, Waiting, Cancellable, Settled
<1>7. Request("act", c, c) \in Requests /\ Request("act", c, c).by = c
  BY OwnRequest DEF Ops
<1>8. worker = "up" /\ c \in tokens => Doomed(c)'
  BY <1>0, <1>7, StillDoomed
<1> QED BY <1>2, <1>4, <1>5, <1>6, <1>7, <1>8, JobMoves

\* A function changed where it already has the value is the same.
LEMMA SamePrep == ASSUME TypeOK, NEW c \in Calls, prep[c] = "none" PROVE prep = [prep EXCEPT ![c] = "none"]
BY DEF TypeOK

\* A closed session prepares nothing.
LEMMA JobClosedKeeps == ASSUME ActionInv, NEW c \in Calls, JobClosed(c) PROVE ActionInv'
<1>1. PICK place \in {"queued", "usage", "consulting", "usage2", "turn"} : MyTurn(c, place)
  BY DEF JobClosed
<1>2. place \in Queued /\ place \notin Waiting
  BY DEF Queued, Begun, Waiting
<1>3. /\ TypeOK /\ CallInv(c) /\ pc[c] = place /\ tail # <<>> /\ tail[1] = c
      /\ \A i \in DOMAIN wire : wire[i].by # c
      /\ WireFrom(wire)
  BY <1>1, <1>2, TurnFacts
<1>4. prep[c] = "none"
  BY <1>3, CallTypes DEF CallInv, KindInv, JobClosed
<1>5. worker = "up" /\ c \in tokens => Doomed(c)
  BY <1>3, <1>4, TokenPlace DEF Cancellable, Settled
<1>6. prep' = [prep EXCEPT ![c] = "none"] /\ wire' = wire
  BY <1>3, <1>4, SamePrep DEF JobClosed, prepVars, workerVars
<1>7. pc' = [pc EXCEPT ![c] = "failed"] /\ tail' = Tail(tail)
  BY DEF JobClosed, Finish
<1> QED BY <1>2, <1>3, <1>5, <1>6, <1>7, Ends DEF JobClosed, prepVars, workerVars

\* A frame before the input is asked for when the policy allows to read.
LEMMA BaselineKeeps == ASSUME ActionInv, NEW c \in Calls, Baseline(c) PROVE ActionInv'
<1>1. /\ TypeOK /\ CallInv(c) /\ pc[c] = "queued" /\ tail # <<>> /\ tail[1] = c
      /\ \A i \in DOMAIN wire : wire[i].by # c
      /\ WireFrom(wire)
  BY TurnFacts DEF Baseline, Queued, Waiting
<1>2. c \in Batches /\ prep[c] = "none" /\ At(c) <= Len(Actions[c]) /\ seen[c] <= version
  BY <1>1, CallTypes DEF CallInv, KindInv, ReceiptInv, Ahead, JudgedInv
<1>3. worker = "up" => c \notin tokens
  BY <1>2, TokenPlace
<1>4. "baseline" \in DOMAIN PlaceOf \ {"act", "send"} /\ PlaceOf["baseline"] = "baseline" /\ pc[c] \in Queued
  BY <1>1 DEF PlaceOf, Queued
<1>5. seen' \in [Calls -> Nat] /\ epochAt' \in [Calls -> Nat] /\ seen'[c] <= version /\ \A d \in Calls : seen'[d] = seen[d]
  BY <1>1, <1>2 DEF Baseline, TypeOK
<1>6. PICK p \in {"baseline", "turn"} :
          /\ pc' = [pc EXCEPT ![c] = p]
          /\ p = "baseline" \/ wire' = wire
          /\ wire' = wire \/ wire' = Posted(wire, Request("baseline", c, c))
  BY DEF Baseline
<1>7. UNCHANGED <<sessionVars, tail, receipts, prepVars, personVars, worker, tokens, ran, historyVars>>
  BY DEF Baseline
<1>8. pc[c] \in Queued \ {"usage2", "sending"} /\ \A d \in Calls \ {c} : seen'[d] = seen[d]
  BY <1>1, <1>4, <1>5
<1>9. CASE wire' = wire
  BY <1>1, <1>2, <1>3, <1>4, <1>5, <1>6, <1>7, <1>8, <1>9, Proceeds DEF prepVars
<1>10. CASE wire' # wire
  <2>1. /\ pc' = [pc EXCEPT ![c] = PlaceOf["baseline"]] /\ wire' = Posted(wire, Request("baseline", c, c))
        /\ PlaceOf["baseline"] \in {"turn", "baseline", "usage", "preparing", "consulting", "capturing"}
        /\ PlaceOf["baseline"] \notin {"usage", "preparing", "turn"}
    BY <1>4, <1>6, <1>10
  <2> QED BY <1>1, <1>2, <1>3, <1>4, <1>5, <1>7, <1>8, <2>1, Proceeds DEF prepVars
<1> QED BY <1>9, <1>10

\* A lone semantic job begins, or ends because the session no longer runs.
LEMMA SemanticStartsKeeps == ASSUME ActionInv, NEW c \in Calls, SemanticStarts(c) PROVE ActionInv'
<1>1. /\ TypeOK /\ CallInv(c) /\ pc[c] = "turn" /\ tail # <<>> /\ tail[1] = c
      /\ \A i \in DOMAIN wire : wire[i].by # c
      /\ WireFrom(wire)
  BY TurnFacts DEF SemanticStarts, Queued, Waiting
<1>2. c \notin Batches /\ prep[c] = "none" /\ At(c) <= Len(Actions[c]) /\ seen[c] <= version
  BY <1>1, CallTypes DEF CallInv, KindInv, ReceiptInv, JudgedInv, SemanticStarts
<1>3. worker = "up" => c \notin tokens
  BY <1>1, TokenPlace DEF Cancellable, Settled
<1>4. CASE ActionRefused(c, wire) /\ state # "running"
  BY <1>1, <1>2, <1>3, <1>4, Refuses DEF SemanticStarts
<1>5. CASE pc' = [pc EXCEPT ![c] = "usage"] /\ UNCHANGED <<tail, receipts, wire, prep>>
  <2>1. Alone(c)
    <3>1. At(c) = 1
      <4>1. Len(Actions[c]) = 1 /\ At(c) \in Nat /\ At(c) > 0
        BY <1>1, <1>2, CallTypes
      <4>2. At(c) <= 1
        BY <1>2, <4>1
      <4> QED BY <4>1, <4>2
    <3> QED BY <1>2, <3>1 DEF SemanticStarts, Alone, Now
  <2>2. "prepare" \in DOMAIN PlaceOf \ {"act", "send"} /\ pc[c] \in Queued
    BY <1>1 DEF PlaceOf, Queued
  <2>3. seen' \in [Calls -> Nat] /\ epochAt' \in [Calls -> Nat] /\ seen'[c] <= version /\ \A d \in Calls : seen'[d] = seen[d]
    BY <1>1, <1>2 DEF SemanticStarts, TypeOK
  <2>4. pc[c] \notin Cancellable
    BY <1>1 DEF Cancellable, Settled
  <2> QED BY <1>1, <1>2, <1>3, <1>5, <2>1, <2>2, <2>3, <2>4, Proceeds DEF SemanticStarts, prepVars
<1> QED BY <1>4, <1>5 DEF SemanticStarts

\* The switch answers: the preparation goes to the worker, or the job gives up.
LEMMA UsageAnsweredKeeps == ASSUME ActionInv, NEW c \in Calls, UsageAnswered(c) PROVE ActionInv'
<1>1. /\ TypeOK /\ CallInv(c) /\ pc[c] = "usage" /\ tail # <<>> /\ tail[1] = c
      /\ \A i \in DOMAIN wire : wire[i].by # c
      /\ WireFrom(wire)
  BY TurnFacts DEF UsageAnswered, Queued, Begun, Waiting
<1>2. Alone(c) /\ prep[c] = "none" /\ At(c) <= Len(Actions[c]) /\ seen[c] <= version
  BY <1>1, CallTypes DEF CallInv, KindInv, ReceiptInv, JudgedInv, Ahead
<1>3. worker = "up" => c \notin tokens
  BY <1>1, TokenPlace DEF Cancellable, Settled
<1>4. CASE ActionRefused(c, wire) /\ UNCHANGED <<seen, epochAt>>
  BY <1>1, <1>2, <1>3, <1>4, Refuses DEF UsageAnswered
<1>5. CASE /\ seen' = [seen EXCEPT ![c] = version] /\ epochAt' = [epochAt EXCEPT ![c] = epoch]
           /\ wire' = Posted(wire, Request("prepare", c, c)) /\ pc' = [pc EXCEPT ![c] = "preparing"]
           /\ UNCHANGED <<tail, receipts, prep>>
  <2>2. "prepare" \in DOMAIN PlaceOf \ {"act", "send"} /\ PlaceOf["prepare"] = "preparing" /\ pc[c] \in Queued
    BY <1>1 DEF PlaceOf, Queued, Begun
  <2>3. /\ seen' \in [Calls -> Nat] /\ epochAt' \in [Calls -> Nat] /\ seen'[c] <= version
        /\ \A d \in Calls \ {c} : seen'[d] = seen[d]
    <3>1. version \in Nat /\ epoch \in Nat /\ seen \in [Calls -> Nat] /\ epochAt \in [Calls -> Nat]
      BY <1>1 DEF TypeOK
    <3>2. seen'[c] = version
      BY <1>5, <3>1
    <3> QED BY <1>5, <3>1, <3>2
  <2>4. pc[c] \notin Cancellable
    BY <1>1 DEF Cancellable, Settled
  <2> QED BY <1>1, <1>2, <1>3, <1>5, <2>2, <2>3, <2>4, Proceeds, ZenonT(40) DEF UsageAnswered, prepVars
<1> QED BY <1>4, <1>5 DEF UsageAnswered

\* An allowed plain action is journaled and handed to the worker.
LEMMA SendsPlain ==
    ASSUME ActionInv, NEW c \in Calls, tail # <<>>, tail[1] = c, pc[c] \in {"turn", "consulting"},
           prep[c] = "none", At(c) <= Len(Actions[c]), \A i \in DOMAIN wire : wire[i].by # c,
           worker = "up" /\ c \in tokens => Doomed(c), Journaled(c), SendPlain(c),
           seen' \in [Calls -> Nat], \A d \in Calls \ {c} : seen'[d] = seen[d], seen'[c] <= version,
           judged' \in [Calls -> Nat \cup {None}], \A d \in Calls \ {c} : judged'[d] = judged[d],
           UNCHANGED <<sessionVars, tail, receipts, epochAt, prepVars, personVars, worker, tokens, ran>>
    PROVE  ActionInv'
<1> USE DEF sessionVars, prepVars, personVars
<1>0. TypeOK /\ CallInv(c) /\ DeliveryInv(c) /\ At(c) \in Nat /\ wire \in Seq(Requests)
  BY CallTypes DEF ActionInv, CallInv, TypeOK
<1>1. pc'[c] = "sending" /\ pc' \in [Calls -> Places] /\ \A d \in Calls \ {c} : pc'[d] = pc[d]
  BY <1>0 DEF TypeOK, Places, Waiting, SendPlain
<1>2. /\ journal'[c] = Append(journal[c], At(c)) /\ journal' \in [Calls -> Seq(Nat)]
      /\ \A d \in Calls \ {c} : journal'[d] = journal[d]
  <2>1. journal \in [Calls -> Seq(Nat)] /\ Append(journal[c], At(c)) \in Seq(Nat)
    BY <1>0, CallTypes, Longer DEF TypeOK
  <2> QED BY <2>1 DEF Journaled
<1>3. \A d \in Calls \ {c} : Untouched(d)
  BY <1>1, <1>2 DEF Untouched
<1>4. /\ Request("act", c, c) \in Requests /\ Request("act", c, c).by = c /\ Request("act", c, c).for = c
      /\ Request("act", c, c).op = "act" /\ ~Request("act", c, c).ran
  BY OwnRequest DEF Ops
<1>5. wire' \in Seq(Requests) /\ (wire' = wire \/ wire' = Append(wire, Request("act", c, c)))
  BY <1>0, <1>4, Posting DEF SendPlain
<1>6. TypeOK'
  BY <1>0, <1>1, <1>2, <1>5 DEF TypeOK
<1>7. At(c)' = At(c) /\ DeliveredActions(c)' = DeliveredActions(c)
  BY DEF At, DeliveredActions
<1>8. pc[c] \in Queued /\ pc'[c] \in Queued /\ pc'[c] \in Cancellable /\ pc[c] \notin Outside \cup {"sending", "failed", "usage2", "done"}
  BY <1>1 DEF Queued, Begun, Waiting, Cancellable, Outside
<1>9. CallInv(c)'
  <2>1. JudgedInv(c)' /\ KindInv(c)'
    BY <1>1 DEF JudgedInv, KindInv
  <2>2. IdentityInv(c)'
    BY <1>0, <1>8 DEF CallInv, IdentityInv
  <2>3. ReceiptInv(c)'
    BY <1>0, <1>1, <1>7, <1>8 DEF CallInv, ReceiptInv
  <2>4. DeliveryInv(c)'
    BY <1>0, <1>1, <1>2, <1>8, Journals
  <2> QED BY <2>1, <2>2, <2>3, <2>4 DEF CallInv
<1>10. Fits(Request("act", c, c))' /\ SendKept(Request("act", c, c))'
  <2>1. At(c)' \notin DeliveredActions(c)'
    BY <1>0, <1>7, <1>8, NotYetDelivered
  <2> QED BY <1>1, <1>4, <2>1 DEF Fits, SendKept, PlaceOf
<1>11. worker = "up" /\ c \in tokens => Doomed(c)'
  BY <1>0, <1>4, <1>5, StillDoomed DEF WireFrom
<1> QED BY <1>3, <1>4, <1>5, <1>6, <1>8, <1>9, <1>10, <1>11, JobMoves DEF WireFrom

\* The turn of a plain action: judged on the policy now.
LEMMA PlainTurnKeeps == ASSUME ActionInv, NEW c \in Calls, PlainTurn(c) PROVE ActionInv'
<1>1. /\ TypeOK /\ CallInv(c) /\ pc[c] = "turn" /\ tail # <<>> /\ tail[1] = c
      /\ \A i \in DOMAIN wire : wire[i].by # c
      /\ WireFrom(wire)
  BY TurnFacts DEF PlainTurn, Queued, Waiting
<1>2. prep[c] = "none" /\ At(c) <= Len(Actions[c]) /\ seen[c] <= version /\ version \in Nat
  BY <1>1, CallTypes DEF CallInv, KindInv, JudgedInv, PlainTurn
<1>3. worker = "up" => c \notin tokens
  BY <1>1, TokenPlace DEF Cancellable, Settled
<1>4. CASE ActionRefused(c, wire) /\ UNCHANGED <<seen, journal>>
  BY <1>1, <1>2, <1>3, <1>4, Refuses DEF PlainTurn, historyVars
<1>5. CASE /\ seen' = [seen EXCEPT ![c] = version] /\ pc' = [pc EXCEPT ![c] = "consulting"]
           /\ UNCHANGED <<tail, receipts, wire, prep, journal>>
  <2>1. "prepare" \in DOMAIN PlaceOf \ {"act", "send"} /\ pc[c] \in Queued \ {"usage2", "sending"}
    BY <1>1 DEF PlaceOf, Queued
  <2>2. seen' \in [Calls -> Nat] /\ seen'[c] = version /\ (\A d \in Calls \ {c} : seen'[d] = seen[d])
    BY <1>1, <1>2, <1>5 DEF TypeOK
  <2>3. pc[c] \notin Cancellable /\ seen'[c] <= version
    BY <1>1, <1>2, <2>2 DEF Cancellable, Settled
  <2>4. epochAt' \in [Calls -> Nat]
    BY <1>1 DEF PlainTurn, TypeOK
  <2> QED BY <1>1, <1>2, <1>3, <1>5, <2>1, <2>2, <2>3, <2>4, Proceeds DEF PlainTurn, prepVars, historyVars
<1>6. CASE Journaled(c) /\ SendPlain(c) /\ UNCHANGED <<tail, receipts, seen, prep>>
  <2>1. seen' \in [Calls -> Nat] /\ judged' \in [Calls -> Nat \cup {None}] /\ UNCHANGED judged
    BY <1>1, <1>6 DEF TypeOK, PlainTurn
  <2> QED BY <1>1, <1>2, <1>3, <1>6, <2>1, SendsPlain DEF PlainTurn, prepVars
<1> QED BY <1>4, <1>5, <1>6 DEF PlainTurn

\* The rest of a batch is not attempted once the session no longer runs.
LEMMA BatchPausedKeeps == ASSUME ActionInv, NEW c \in Calls, BatchPaused(c) PROVE ActionInv'
<1> USE DEF sessionVars, prepVars, personVars, workerVars, historyVars
<1>1. /\ TypeOK /\ CallInv(c) /\ pc[c] = "turn" /\ tail # <<>> /\ tail[1] = c
      /\ \A i \in DOMAIN wire : wire[i].by # c
      /\ WireFrom(wire) /\ pc[c] \in Queued /\ pc[c] \notin Outside
  BY TurnFacts DEF BatchPaused, Queued, Waiting, Outside
<1>2. At(c) \notin DeliveredActions(c) /\ At(c) \in Nat
  BY <1>1, NotYetDelivered, CallTypes DEF CallInv
<1>3. receipts'[c] = Stopped(c, "skipped") /\ \A d \in Calls \ {c} : receipts'[d] = receipts[d]
  BY <1>1 DEF BatchPaused, TypeOK
<1>4. ReceiptInv(c)' /\ receipts'[c] \in Seq(Marks) /\ At(c)' = Len(Actions[c]) + 1
  BY <1>1, <1>2, <1>3, ReceiptsStopped DEF BatchPaused, CallInv, Marks
<1>5. At(c)' \in Nat /\ At(c)' > At(c)
  BY <1>1, <1>2, <1>4, CallTypes DEF BatchPaused
<1>6. CallInv(c)'
  <2>1. DeliveryInv(c)'
    BY <1>1, <1>5, DeliveriesKept DEF BatchPaused, CallInv, Outside
  <2>2. KindInv(c)' /\ JudgedInv(c)' /\ IdentityInv(c)'
    BY <1>1 DEF BatchPaused, CallInv, KindInv, JudgedInv, IdentityInv, Alone, Open
  <2> QED BY <1>4, <2>1, <2>2 DEF CallInv
<1>7. TypeOK'
  <2>1. receipts' \in [Calls -> Seq(Marks)]
    BY <1>1, <1>3, <1>4 DEF BatchPaused, TypeOK
  <2> QED BY <1>1, <2>1 DEF BatchPaused, TypeOK
<1>8. \A d \in Calls \ {c} : Untouched(d)
  BY <1>3 DEF BatchPaused, Untouched
<1>9. worker = "up" => c \notin tokens
  BY TokenPlace DEF BatchPaused
<1>10. Request("act", c, c) \in Requests /\ Request("act", c, c).by = c
  BY OwnRequest DEF Ops
<1> QED BY <1>1, <1>6, <1>7, <1>8, <1>9, <1>10, JobMoves DEF BatchPaused

\* The final capture of a batch, when the policy allows to read, or the answer.
LEMMA BatchEndsKeeps == ASSUME ActionInv, NEW c \in Calls, BatchEnds(c) PROVE ActionInv'
<1>1. /\ TypeOK /\ CallInv(c) /\ pc[c] = "turn" /\ tail # <<>> /\ tail[1] = c
      /\ \A i \in DOMAIN wire : wire[i].by # c
      /\ WireFrom(wire) /\ pc[c] \in Queued \ {"usage2", "sending"}
  BY TurnFacts DEF BatchEnds, Queued, Waiting
<1>2. c \in Batches /\ prep[c] = "none" /\ seen[c] <= version
  BY <1>1, CallTypes DEF CallInv, KindInv, JudgedInv, BatchEnds
<1>3. worker = "up" => c \notin tokens
  BY <1>2, TokenPlace
<1>4. CASE wire' = Posted(wire, Request("observe", c, c)) /\ pc' = [pc EXCEPT ![c] = "capturing"] /\ UNCHANGED tail
  <2>1. /\ "observe" \in DOMAIN PlaceOf \ {"act", "send"}
        /\ pc' = [pc EXCEPT ![c] = PlaceOf["observe"]] /\ PlaceOf["observe"] = "capturing"
    BY <1>4 DEF PlaceOf
  <2>2. /\ seen' \in [Calls -> Nat] /\ epochAt' \in [Calls -> Nat] /\ seen'[c] <= version
        /\ \A d \in Calls \ {c} : seen'[d] = seen[d]
    BY <1>1, <1>2 DEF BatchEnds, TypeOK
  <2>3. UNCHANGED <<sessionVars, tail, receipts, prepVars, personVars, worker, tokens, ran, historyVars>>
    BY <1>4 DEF BatchEnds
  <2> QED BY <1>1, <1>2, <1>3, <1>4, <2>1, <2>2, <2>3, Proceeds DEF prepVars
<1>5. ASSUME NEW outcome \in {"done", "failed"}, Finish(c, outcome), UNCHANGED wire PROVE ActionInv'
  <2>1. PICK p \in {"done", "failed"} : pc' = [pc EXCEPT ![c] = p]
    BY <1>5 DEF Finish
  <2>2. prep' = [prep EXCEPT ![c] = "none"] /\ tail' = Tail(tail)
    BY <1>1, <1>2, <1>5, SamePrep DEF BatchEnds, Finish, prepVars
  <2> QED BY <1>1, <1>3, <1>5, <2>1, <2>2, Ends DEF BatchEnds, prepVars
<1> QED BY <1>4, <1>5 DEF BatchEnds

\* The action of a lone job that still has one to attempt is its first and only one.
LEMMA LoneAction ==
    ASSUME TypeOK, NEW c \in Calls, At(c) <= Len(Actions[c])
    PROVE  c \notin Batches => At(c) = 1 /\ Now(c) = Actions[c][1]
<1> SUFFICES ASSUME c \notin Batches PROVE At(c) = 1
  BY DEF Now
<1>1. At(c) \in Nat /\ At(c) > 0 /\ Len(Actions[c]) = 1
  BY CallTypes
<1>2. At(c) <= 1
  BY <1>1
<1> QED BY <1>1, <1>2

\* Only a lone job has a semantic action.
LEMMA SemanticAlone ==
    ASSUME TypeOK, NEW c \in Calls, At(c) <= Len(Actions[c])
    PROVE  Now(c).semantic <=> Alone(c)
<1>1. At(c) \in Nat /\ At(c) > 0 /\ Len(Actions[c]) \in Nat /\ DOMAIN Actions[c] = 1..Len(Actions[c])
  BY CallTypes
<1>2. At(c) \in DOMAIN Actions[c]
  BY <1>1
<1>3. c \in Batches => ~Now(c).semantic
  BY <1>2, ActionAssumption DEF Now
<1> QED BY <1>3, LoneAction DEF Alone

\* The advisor's answer counts while the policy object it judged is in force.
LEMMA AdvisorAnsweredKeeps == ASSUME ActionInv, NEW c \in Calls, AdvisorAnswered(c) PROVE ActionInv'
<1> USE DEF sessionVars, prepVars, personVars
<1>1. /\ TypeOK /\ CallInv(c) /\ pc[c] = "consulting" /\ tail # <<>> /\ tail[1] = c
      /\ \A i \in DOMAIN wire : wire[i].by # c
      /\ WireFrom(wire) /\ At(c) \in Nat
  BY TurnFacts DEF AdvisorAnswered, Queued, Begun, Waiting
<1>2. At(c) <= Len(Actions[c]) /\ seen[c] <= version /\ version \in Nat /\ seen[c] \in Nat
  BY <1>1, CallTypes DEF CallInv, ReceiptInv, Ahead, JudgedInv
<1>3. worker = "up" /\ c \in tokens => Doomed(c) \/ prep[c] = "ready"
  BY <1>1, TokenPlace
<1>4. CASE ActionRefused(c, wire) /\ UNCHANGED <<seen, journal, judged>>
  BY <1>1, <1>2, <1>3, <1>4, Refuses DEF AdvisorAnswered, historyVars
<1>5. ASSUME StillJudged(c), seen' = [seen EXCEPT ![c] = version], judged' = [judged EXCEPT ![c] = seen[c]],
             Journaled(c), UNCHANGED <<tail, receipts, prep>>,
             IF Now(c).semantic THEN pc' = [pc EXCEPT ![c] = "usage2"] /\ UNCHANGED wire ELSE SendPlain(c)
      PROVE  ActionInv'
  <2>1. /\ seen' \in [Calls -> Nat] /\ seen'[c] = version /\ \A d \in Calls \ {c} : seen'[d] = seen[d]
        /\ judged' \in [Calls -> Nat \cup {None}] /\ judged'[c] = version /\ \A d \in Calls \ {c} : judged'[d] = judged[d]
    BY <1>1, <1>2, <1>5 DEF TypeOK, StillJudged
  <2>2. seen'[c] <= version /\ Now(c).class \in allowed
    BY <1>2, <1>5, <2>1 DEF StillJudged, Decision
  <2>3. CASE ~Now(c).semantic
    <3>1. ~Alone(c)
      BY <1>1, <1>2, <2>3, SemanticAlone
    <3>2. prep[c] = "none"
      BY <1>1, <3>1, CallTypes DEF CallInv, KindInv
    <3> QED BY <1>1, <1>2, <1>3, <1>5, <2>1, <2>2, <2>3, <3>2, SendsPlain DEF AdvisorAnswered
  <2>4. CASE Now(c).semantic
    <3>0. Alone(c) /\ c \notin Batches /\ wire' = wire
      BY <1>1, <1>2, <1>5, <2>4, SemanticAlone DEF Alone
    <3>1. pc'[c] = "usage2" /\ pc' \in [Calls -> Places] /\ \A d \in Calls \ {c} : pc'[d] = pc[d]
      BY <1>1, <1>5, <2>4 DEF TypeOK, Places
    <3>2. /\ journal'[c] = Append(journal[c], At(c)) /\ journal' \in [Calls -> Seq(Nat)]
          /\ \A d \in Calls \ {c} : journal'[d] = journal[d]
      <4>1. journal \in [Calls -> Seq(Nat)] /\ Append(journal[c], At(c)) \in Seq(Nat)
        BY <1>1, CallTypes, Longer DEF TypeOK
      <4> QED BY <1>5, <4>1 DEF Journaled
    <3>3. \A d \in Calls \ {c} : Untouched(d)
      BY <1>5, <2>1, <3>1, <3>2 DEF Untouched, AdvisorAnswered
    <3>4. TypeOK'
      BY <1>1, <1>5, <2>1, <3>0, <3>1, <3>2 DEF TypeOK, AdvisorAnswered
    <3>5. At(c)' = At(c) /\ DeliveredActions(c)' = DeliveredActions(c) /\ Now(c)' = Now(c)
      BY <1>5 DEF At, DeliveredActions, Now, AdvisorAnswered
    <3>6. CallInv(c)'
      <4>1. JudgedInv(c)'
        BY <1>2, <2>1, <2>2, <3>5 DEF JudgedInv, AdvisorAnswered
      <4>2. KindInv(c)'
        BY <1>1, <1>5, <3>0, <3>1 DEF CallInv, KindInv, Open, Alone, AdvisorAnswered
      <4>3. ReceiptInv(c)'
        BY <1>1, <1>2, <1>5, <3>1, <3>5 DEF CallInv, ReceiptInv, Queued, Begun, AdvisorAnswered
      <4>4. DeliveryInv(c)'
        BY <1>1, <1>5, <3>1, <3>2, Journals DEF CallInv, AdvisorAnswered
      <4>5. IdentityInv(c)'
        BY <1>1 DEF CallInv, IdentityInv, Outside, AdvisorAnswered
      <4> QED BY <4>1, <4>2, <4>3, <4>4, <4>5 DEF CallInv
    <3>7. Request("act", c, c) \in Requests /\ Request("act", c, c).by = c
      BY OwnRequest DEF Ops
    <3>8. pc[c] \in Queued /\ pc'[c] \in Queued /\ pc'[c] \in Cancellable
      BY <1>1, <3>1 DEF Queued, Begun, Cancellable
    <3>9. worker = "up" /\ c \in tokens => Doomed(c)' \/ Meant(c)'
      BY <1>3, <1>5, <3>0 DEF Doomed, Meant
    <3> QED BY <1>1, <1>5, <3>0, <3>3, <3>4, <3>6, <3>7, <3>8, <3>9, JobMoves DEF AdvisorAnswered
  <2> QED BY <2>3, <2>4
<1> QED BY <1>4, <1>5 DEF AdvisorAnswered

\* The last look before a semantic input: what is sent is allowed by every narrow so far.
LEMMA SendSemanticKeeps == ASSUME ActionInv, NEW c \in Calls, SendSemantic(c) PROVE ActionInv'
<1> USE DEF sessionVars, personVars, historyVars
<1>1. /\ TypeOK /\ CallInv(c) /\ pc[c] = "usage2" /\ tail # <<>> /\ tail[1] = c
      /\ \A i \in DOMAIN wire : wire[i].by # c
      /\ WireFrom(wire) /\ At(c) \in Nat /\ wire \in Seq(Requests)
  BY TurnFacts DEF SendSemantic, Queued, Begun, Waiting
<1>2. Alone(c) /\ c \notin Batches /\ At(c) <= Len(Actions[c]) /\ seen[c] <= version
  BY <1>1 DEF CallInv, KindInv, ReceiptInv, Ahead, JudgedInv, Alone
<1>3. worker = "up" /\ c \in tokens => Doomed(c) \/ prep[c] = "ready"
  BY <1>1, TokenPlace
<1>4. CASE ActionRefused(c, wire)
  BY <1>1, <1>2, <1>3, <1>4, Refuses DEF SendSemantic
<1>5. CASE /\ seen[c] = version /\ prep' = [prep EXCEPT ![c] = "sending"]
           /\ wire' = Posted(wire, Request("send", c, c)) /\ pc' = [pc EXCEPT ![c] = "sending"]
           /\ UNCHANGED <<tail, receipts>>
  <2>1. /\ pc'[c] = "sending" /\ pc' \in [Calls -> Places] /\ \A d \in Calls \ {c} : pc'[d] = pc[d]
        /\ prep'[c] = "sending" /\ prep' \in [Calls -> {"none", "ready", "sending"}]
        /\ \A d \in Calls \ {c} : prep'[d] = prep[d]
    BY <1>1, <1>5 DEF TypeOK, Places, Waiting
  <2>2. /\ Request("send", c, c) \in Requests /\ Request("send", c, c).by = c /\ Request("send", c, c).for = c
        /\ Request("send", c, c).op = "send" /\ ~Request("send", c, c).ran
    BY OwnRequest DEF Ops
  <2>3. wire' \in Seq(Requests) /\ (wire' = wire \/ wire' = Append(wire, Request("send", c, c)))
    BY <1>1, <1>5, <2>2, Posting
  <2>4. TypeOK'
    BY <1>1, <1>5, <2>1, <2>3 DEF TypeOK, SendSemantic
  <2>5. \A d \in Calls \ {c} : Untouched(d)
    BY <1>5, <2>1 DEF Untouched, SendSemantic
  <2>6. At(c)' = At(c) /\ DeliveredActions(c)' = DeliveredActions(c) /\ Now(c)' = Now(c)
    BY <1>5 DEF At, DeliveredActions, Now, SendSemantic
  <2>7. CallInv(c)'
    <3>1. JudgedInv(c)' /\ KindInv(c)' /\ IdentityInv(c)'
      BY <1>1, <1>2, <2>1 DEF CallInv, JudgedInv, KindInv, IdentityInv, Alone, SendSemantic, Outside
    <3>2. ReceiptInv(c)'
      BY <1>1, <1>2, <1>5, <2>1, <2>6 DEF CallInv, ReceiptInv, Queued, Begun, SendSemantic
    <3>3. DeliveryInv(c)'
      <4>1. /\ pc[c] = "usage2" /\ pc[c] \notin {"sending", "failed"} /\ pc'[c] = "sending"
            /\ UNCHANGED <<ran, journal>>
        BY <1>1, <2>1 DEF SendSemantic
      <4>2. Increasing(ran[c])' /\ Increasing(journal[c])'
        BY <1>1, <4>1 DEF CallInv, DeliveryInv, Increasing
      <4>3. \A i \in DOMAIN ran'[c] :
              ran'[c][i] <= At(c)' /\ \E j \in DOMAIN journal'[c] : journal'[c][j] = ran'[c][i]
        BY <1>1, <2>6, <4>1 DEF CallInv, DeliveryInv
      <4>4. /\ \A i \in DOMAIN journal'[c] : journal'[c][i] <= At(c)'
            /\ \E j \in DOMAIN journal'[c] : journal'[c][j] = At(c)'
        BY <1>1, <2>6, <4>1 DEF CallInv, DeliveryInv
      <4> QED BY <4>1, <4>2, <4>3, <4>4 DEF DeliveryInv, Outside
    <3> QED BY <3>1, <3>2, <3>3 DEF CallInv
  <2>8. Fits(Request("send", c, c))'
    <3>1. At(c)' \notin DeliveredActions(c)'
      BY <1>1, <2>6, NotYetDelivered DEF CallInv
    <3> QED BY <2>1, <2>2, <3>1 DEF Fits, PlaceOf
  <2>9. SendKept(Request("send", c, c))'
    <3>1. Now(c).class \in allowed
      BY <1>1, <1>5 DEF CallInv, JudgedInv
    <3>2. \A n \in Narrows : npc[n] \in {"absent", "idle"} \/ Now(c).class \in Keep[n]
      BY <1>1, <3>1 DEF ActionInv, NarrowInv, TypeOK
    <3>3. UNCHANGED npc
      BY DEF SendSemantic
    <3> QED BY <2>2, <2>6, <3>2, <3>3 DEF SendKept
  <2>10. pc[c] \in Queued /\ pc'[c] \in Queued /\ pc'[c] \in Cancellable
    BY <1>1, <2>1 DEF Queued, Begun, Waiting, Cancellable
  <2>11. worker = "up" => Meant(c)'
    <3>1. worker = "up" => \E i \in DOMAIN wire' : wire'[i] = Request("send", c, c)
      BY <1>1, <1>5, <2>2, Posting
    <3> QED BY <2>2, <3>1 DEF Meant
  <2> QED BY <1>1, <1>5, <2>2, <2>3, <2>4, <2>5, <2>7, <2>8, <2>9, <2>10, <2>11, JobMoves DEF SendSemantic
<1> QED BY <1>4, <1>5 DEF SendSemantic

\* The worker went: the job that waited for it ends.
LEMMA RequestLostKeeps == ASSUME ActionInv, NEW c \in Calls, RequestLost(c) PROVE ActionInv'
<1>1. pc[c] \in Begun /\ pc[c] \in Queued
  BY DEF RequestLost, Begun, Queued
<1>2. tail # <<>> /\ tail[1] = c /\ TypeOK
  BY <1>1 DEF ActionInv, QueueInv
<1>3. \A i \in DOMAIN wire : wire[i].by # c
  BY DEF RequestLost, InWire
<1>4. PICK p \in {"failed"} : pc' = [pc EXCEPT ![c] = p]
  BY DEF RequestLost, Finish
<1>5. wire' = wire /\ worker # "up" /\ tail' = Tail(tail)
  BY DEF RequestLost, Finish, workerVars
<1> QED BY <1>1, <1>2, <1>3, <1>4, <1>5, Ends DEF RequestLost, workerVars, WireFrom

\* A job's own step keeps the invariant.
LEMMA JobStepKeeps == ASSUME ActionInv, NEW c \in Calls, JobStep(c) PROVE ActionInv'
BY JobClosedKeeps, BaselineKeeps, SemanticStartsKeeps, UsageAnsweredKeeps, PlainTurnKeeps,
   BatchPausedKeeps, BatchEndsKeeps, AdvisorAnsweredKeeps, SendSemanticKeeps, RequestLostKeeps
   DEF JobStep

-----------------------------------------------------------------------------
(* The worker's answers.                                                     *)

\* An answered request of a job: whose it is, and what is left of the wire.
LEMMA AnswerFacts ==
    ASSUME ActionInv, NEW op \in DOMAIN PlaceOf, Replied(op)
    PROVE  LET c == Head(wire).for IN
           /\ TypeOK /\ c \in Calls /\ CallInv(c) /\ Fits(wire[1]) /\ Head(wire) = wire[1] /\ wire # <<>>
           /\ wire[1].ran /\ wire[1].op = op /\ wire[1].for = c /\ pc[c] = PlaceOf[op]
           /\ tail # <<>> /\ tail[1] = c /\ pc[c] \in Queued
           /\ WireFrom(Tail(wire)) /\ \A i \in DOMAIN Tail(wire) : Tail(wire)[i].by # c
<1> DEFINE c == Head(wire).for
<1>1. /\ TypeOK /\ wire # <<>> /\ Head(wire) = wire[1] /\ wire[1].ran /\ wire[1].op = op /\ 1 \in DOMAIN wire
  BY RestOfWire DEF ActionInv, Replied
<1>2. Fits(wire[1])
  BY <1>1 DEF ActionInv, WireInv
<1>3. c \in Calls /\ wire[1].by = c /\ pc[c] = PlaceOf[op]
  BY <1>1, <1>2 DEF Fits
<1>4. pc[c] \in Begun /\ pc[c] \in Queued
  BY <1>3 DEF PlaceOf, Begun, Queued, Waiting
<1>5. tail # <<>> /\ tail[1] = c /\ CallInv(c)
  BY <1>3, <1>4 DEF ActionInv, QueueInv
<1>6. \A i \in DOMAIN Tail(wire) : Tail(wire)[i].by # c
  BY <1>1, <1>3, OwnFirst
<1> QED BY <1>1, <1>2, <1>3, <1>4, <1>5, <1>6 DEF WireFrom

\* What the worker holds of a job whose request was just answered is doomed, or is what
\* that request prepared.
LEMMA AnsweredToken ==
    ASSUME ActionInv, NEW op \in DOMAIN PlaceOf, Replied(op), worker = "up", Head(wire).for \in tokens
    PROVE  Doomed(Head(wire).for) \/ (wire[1].op = "prepare" /\ wire[1].ok)
<1> DEFINE c == Head(wire).for
<1>1. /\ c \in Calls /\ CallInv(c) /\ Fits(wire[1]) /\ wire[1].ran /\ wire[1].op = op /\ wire[1].for = c
      /\ pc[c] = PlaceOf[op] /\ 1 \in DOMAIN wire
  BY AnswerFacts, RestOfWire
<1>2. Doomed(c) \/ Meant(c)
  BY DEF ActionInv, TokenInv
<1>3. prep[c] # "ready"
  BY <1>1 DEF CallInv, KindInv, PlaceOf
<1>4. ASSUME NEW i \in DOMAIN wire, wire[i].op \in {"prepare", "send"}, wire[i].for = c PROVE i = 1
  <2>1. wire[i].by = c /\ wire[1].by = c
    BY <1>1, <1>4 DEF ActionInv, WireInv, Fits, PlaceOf
  <2> QED BY <1>1, <2>1 DEF ActionInv, WireInv
<1> QED BY <1>1, <1>2, <1>3, <1>4 DEF Meant

\* The job whose request was answered, and the wire without that request.
LEMMA AnswerOf ==
    ASSUME ActionInv, NEW op \in DOMAIN PlaceOf, Replied(op)
    PROVE  \E c \in Calls, w \in Seq(Requests) :
              /\ c = Head(wire).for /\ w = Tail(wire) /\ TypeOK /\ CallInv(c) /\ Fits(wire[1]) /\ Head(wire) = wire[1]
              /\ wire # <<>> /\ wire[1].ran /\ wire[1].op = op /\ wire[1].for = c /\ pc[c] = PlaceOf[op]
              /\ tail # <<>> /\ tail[1] = c /\ pc[c] \in Queued
              /\ WireFrom(w) /\ \A i \in DOMAIN w : w[i].by # c
              /\ worker = "up" /\ c \in tokens => Doomed(c) \/ (op = "prepare" /\ wire[1].ok)
<1>1. TypeOK /\ wire # <<>> /\ Head(wire).for \in Calls
  BY AnswerFacts
<1>2. Tail(wire) \in Seq(Requests)
  BY <1>1, RestOfWire
<1> USE <1>1, <1>2
<1> WITNESS Head(wire).for \in Calls, Tail(wire) \in Seq(Requests)
<1> QED BY AnswerFacts, AnsweredToken

\* The preparation is answered: the job goes on, is refused, or gives it back.
LEMMA PrepareAnsweredKeeps == ASSUME ActionInv, PrepareAnswered PROVE ActionInv'
<1> USE DEF sessionVars, personVars
<1>0. "prepare" \in DOMAIN PlaceOf /\ PlaceOf["prepare"] = "preparing" /\ Replied("prepare")
  BY DEF PlaceOf, PrepareAnswered
<1>1. PICK c \in Calls, w \in Seq(Requests) :
      /\ c = Head(wire).for /\ w = Tail(wire) /\ TypeOK /\ CallInv(c) /\ Head(wire) = wire[1] /\ wire # <<>>
      /\ wire[1].ran /\ wire[1].op = "prepare" /\ wire[1].for = c /\ pc[c] = "preparing"
      /\ tail # <<>> /\ tail[1] = c /\ pc[c] \in Queued
      /\ WireFrom(w) /\ \A i \in DOMAIN w : w[i].by # c
  <2>1. PICK c \in Calls, w \in Seq(Requests) :
          /\ c = Head(wire).for /\ w = Tail(wire) /\ TypeOK /\ CallInv(c) /\ Fits(wire[1]) /\ Head(wire) = wire[1]
          /\ wire # <<>> /\ wire[1].ran /\ wire[1].op = "prepare" /\ wire[1].for = c /\ pc[c] = PlaceOf["prepare"]
          /\ tail # <<>> /\ tail[1] = c /\ pc[c] \in Queued
          /\ WireFrom(w) /\ \A i \in DOMAIN w : w[i].by # c
    BY <1>0, AnswerOf
  <2> QED BY <1>0, <2>1
<1>2. UNCHANGED <<state, allowed, version, requests, seen, epochAt, npc, drains, worker, tokens, ran, judged>>
  BY DEF PrepareAnswered
<1>3. /\ Alone(c) /\ c \notin Batches /\ prep[c] = "none" /\ At(c) <= Len(Actions[c]) /\ Len(Actions[c]) = 1
      /\ seen[c] <= version /\ At(c) \in Nat /\ receipts[c] \in Seq(Marks)
  BY <1>1, CallTypes DEF CallInv, KindInv, ReceiptInv, Ahead, JudgedInv, Alone
<1>4. CASE ~wire[1].ok /\ ActionRefused(c, w) /\ UNCHANGED journal
  <2>1. worker = "up" /\ c \in tokens => Doomed(c)
    BY <1>0, <1>1, <1>4, AnsweredToken
  <2> QED BY <1>1, <1>3, <1>4, <2>1, Refuses DEF PrepareAnswered, historyVars
<1>5. ASSUME receipts' = [receipts EXCEPT ![c] = Append(@, "refused")], wire' = Posted(w, Request("cancel", c, c)),
             NEW p \in {"revoking", "cancelling"}, pc' = [pc EXCEPT ![c] = p], UNCHANGED <<tail, prep, journal>>
      PROVE  ActionInv'
  <2>1. /\ pc'[c] = p /\ pc' \in [Calls -> Places] /\ \A d \in Calls \ {c} : pc'[d] = pc[d]
        /\ receipts'[c] = Append(receipts[c], "refused") /\ receipts' \in [Calls -> Seq(Marks)]
        /\ \A d \in Calls \ {c} : receipts'[d] = receipts[d]
    <3>1. Append(receipts[c], "refused") \in Seq(Marks)
      BY <1>3 DEF Marks
    <3>2. receipts'[c] = Append(receipts[c], "refused") /\ receipts' \in [Calls -> Seq(Marks)]
          /\ \A d \in Calls \ {c} : receipts'[d] = receipts[d]
      <4>1. PICK rs \in Seq(Marks) : rs = Append(receipts[c], "refused")
        BY <3>1
      <4>2. receipts' = [receipts EXCEPT ![c] = rs]
        BY <1>5, <4>1
      <4> QED BY <1>1, <4>1, <4>2 DEF TypeOK
    <3>3. pc'[c] = p /\ pc' \in [Calls -> Places] /\ \A d \in Calls \ {c} : pc'[d] = pc[d]
      BY <1>1, <1>5 DEF TypeOK, Places, Waiting
    <3> QED BY <3>2, <3>3
  <2>2. \A d \in Calls \ {c} : Untouched(d)
    BY <1>5, <2>1 DEF Untouched, PrepareAnswered
  <2>3. At(c)' = At(c) + 1
    BY <1>3, <2>1 DEF At
  <2>4. At(c) \notin DeliveredActions(c)
    BY <1>1, NotYetDelivered DEF CallInv
  <2>5. ReceiptInv(c)'
    <3>1. pc'[c] \notin Ahead \cup {"absent", "idle"} /\ pc'[c] # "turn" /\ ran'[c] = ran[c]
      BY <2>1 DEF Ahead, PrepareAnswered
    <3> QED BY <1>1, <1>3, <2>1, <2>4, <3>1, ReceiptAdded DEF CallInv, Marks
  <2>6. DeliveryInv(c)'
    <3>1. At(c)' \in Nat /\ At(c)' > At(c)
      BY <1>3, <2>3
    <3>2. pc[c] = "preparing" /\ c \notin Batches /\ DeliveryInv(c)
      BY <1>1, <1>3 DEF CallInv
    <3>3. ran[c] = <<>>
      BY <3>2, ZenonT(40) DEF DeliveryInv
    <3> QED BY <1>1, <1>5, <2>1, <3>1, <3>2, <3>3, DeliveriesKept DEF PrepareAnswered
  <2>7. KindInv(c)' /\ JudgedInv(c)' /\ IdentityInv(c)'
    BY <1>1, <1>3, <1>5, <2>1 DEF CallInv, KindInv, JudgedInv, IdentityInv, Outside, Alone, PrepareAnswered
  <2>8. CallInv(c)'
    BY <2>5, <2>6, <2>7 DEF CallInv
  <2>9. /\ Request("cancel", c, c) \in Requests /\ Request("cancel", c, c).by = c /\ Request("cancel", c, c).for = c
        /\ Request("cancel", c, c).op = "cancel" /\ ~Request("cancel", c, c).ran
    BY <1>1, OwnRequest DEF Ops
  <2>10. wire' \in Seq(Requests) /\ (wire' = w \/ wire' = Append(w, Request("cancel", c, c)))
    BY <1>3, <1>5, <2>9, Posting
  <2>11. TypeOK'
    BY <1>1, <1>5, <2>1, <2>10 DEF TypeOK, PrepareAnswered
  <2>12. Fits(Request("cancel", c, c))' /\ SendKept(Request("cancel", c, c))'
    BY <1>1, <1>3, <2>1, <2>9 DEF Fits, SendKept, PlaceOf
  <2>13. worker = "up" => Doomed(c)'
    <3>1. worker = "up" => \E i \in DOMAIN wire' : wire'[i] = Request("cancel", c, c)
      BY <1>3, <1>5, <2>9, Posting
    <3> QED BY <2>9, <3>1 DEF Doomed
  <2>14. pc'[c] \in Queued /\ pc'[c] \in Cancellable
    BY <2>1 DEF Queued, Begun, Waiting, Cancellable
  <2>15. /\ wire' = w \/ (/\ wire' = Append(w, Request("cancel", c, c))
                         /\ Fits(Request("cancel", c, c))' /\ SendKept(Request("cancel", c, c))')
         /\ pc'[c] \in Queued /\ tail' = tail
    BY <1>5, <2>10, <2>12, <2>14
  <2>16. w = wire \/ (wire[1].ran /\ wire[1].for = c)
    BY <1>1
  <2>17. worker = "up" /\ c \in tokens => Doomed(c)' \/ Meant(c)'
    BY <2>13
  <2> HIDE <1>5
  <2> QED BY <1>1, <1>2, <2>2, <2>8, <2>9, <2>11, <2>14, <2>15, <2>16, <2>17, JobMoves, ZenonT(40)
<1>6. ASSUME Open, prep' = [prep EXCEPT ![c] = "ready"], wire' = w, UNCHANGED <<tail, receipts>>,
             NEW p \in {"consulting", "usage2"}, pc' = [pc EXCEPT ![c] = p],
             p = "consulting" => UNCHANGED journal, p = "usage2" => Journaled(c) /\ Decision(Now(c).class) = "allow"
      PROVE  ActionInv'
  <2>1. /\ pc'[c] = p /\ pc' \in [Calls -> Places] /\ \A d \in Calls \ {c} : pc'[d] = pc[d]
        /\ prep'[c] = "ready" /\ prep' \in [Calls -> {"none", "ready", "sending"}]
        /\ \A d \in Calls \ {c} : prep'[d] = prep[d]
    BY <1>1, <1>6 DEF TypeOK, Places
  <2>2. /\ journal' \in [Calls -> Seq(Nat)] /\ \A d \in Calls \ {c} : journal'[d] = journal[d]
        /\ p = "usage2" => journal'[c] = Append(journal[c], At(c))
        /\ p = "consulting" => journal'[c] = journal[c]
    <3>1. journal \in [Calls -> Seq(Nat)] /\ Append(journal[c], At(c)) \in Seq(Nat)
      BY <1>1, <1>3, CallTypes, Longer DEF TypeOK
    <3> QED BY <1>1, <1>6, <3>1 DEF Journaled
  <2>3. \A d \in Calls \ {c} : Untouched(d)
    BY <1>6, <2>1, <2>2 DEF Untouched, PrepareAnswered
  <2>4. TypeOK'
    BY <1>1, <1>3, <1>6, <2>1, <2>2 DEF TypeOK, PrepareAnswered
  <2>5. At(c)' = At(c) /\ DeliveredActions(c)' = DeliveredActions(c) /\ Now(c)' = Now(c)
    BY <1>6 DEF At, DeliveredActions, Now, PrepareAnswered
  <2>6. CallInv(c)'
    <3>1. JudgedInv(c)'
      <4>1. p = "usage2" => Now(c).class \in allowed /\ Now(c).class \notin Consulted
        BY <1>6 DEF Decision
      <4> QED BY <1>3, <2>1, <2>5, <4>1 DEF JudgedInv, PrepareAnswered
    <3>2. KindInv(c)' /\ IdentityInv(c)'
      BY <1>1, <1>3, <1>6, <2>1 DEF CallInv, KindInv, IdentityInv, Outside, Alone, Open, PrepareAnswered
    <3>3. ReceiptInv(c)'
      <4>1. pc'[c] \in Queued /\ pc'[c] \notin {"absent", "idle", "queued"} /\ ReceiptInv(c) /\ UNCHANGED receipts
        BY <1>1, <1>6, <2>1 DEF CallInv, Queued, Begun
      <4> QED BY <1>1, <1>3, <2>1, <2>5, <4>1 DEF ReceiptInv
    <3>4. DeliveryInv(c)'
      <4>0. DeliveryInv(c) /\ ran'[c] = ran[c] /\ receipts'[c] = receipts[c] /\ ran[c] = <<>>
        BY <1>1, <1>3, <1>6, ZenonT(40) DEF CallInv, DeliveryInv, PrepareAnswered
      <4>1. p = "usage2" => DeliveryInv(c)'
        BY <1>1, <2>1, <2>2, <4>0, Journals
      <4>2. p = "consulting" => DeliveryInv(c)'
        BY <1>1, <1>3, <2>1, <2>2, <2>5, <4>0, DeliveriesKept
      <4>3. p = "usage2" \/ p = "consulting"
        OBVIOUS
      <4> QED BY <4>1, <4>2, <4>3, ZenonT(40)
    <3> QED BY <3>1, <3>2, <3>3, <3>4 DEF CallInv
  <2>7. Request("act", c, c) \in Requests /\ Request("act", c, c).by = c
    BY <1>1, OwnRequest DEF Ops
  <2>8. pc'[c] \in Queued /\ pc'[c] \in Cancellable
    BY <2>1 DEF Queued, Begun, Cancellable
  <2>9. Meant(c)'
    BY <2>1 DEF Meant
  <2> QED BY <1>1, <1>6, <2>3, <2>4, <2>6, <2>7, <2>8, <2>9, <1>2, JobMoves
<1>7. \/ ~wire[1].ok /\ ActionRefused(c, w) /\ UNCHANGED journal
      \/ /\ receipts' = [receipts EXCEPT ![c] = Append(@, "refused")] /\ wire' = Posted(w, Request("cancel", c, c))
         /\ UNCHANGED <<tail, prep, journal>>
         /\ \E p \in {"revoking", "cancelling"} : pc' = [pc EXCEPT ![c] = p]
      \/ /\ Open /\ prep' = [prep EXCEPT ![c] = "ready"] /\ wire' = w /\ UNCHANGED <<tail, receipts>>
         /\ \/ pc' = [pc EXCEPT ![c] = "consulting"] /\ UNCHANGED journal
            \/ pc' = [pc EXCEPT ![c] = "usage2"] /\ Journaled(c) /\ Decision(Now(c).class) = "allow"
  BY <1>1 DEF PrepareAnswered
<1> QED BY <1>4, <1>5, <1>6, <1>7

\* A frame is answered: the batch takes its turn, or ends.
LEMMA FrameAnsweredKeeps == ASSUME ActionInv, FrameAnswered PROVE ActionInv'
<1>0. PICK op \in {"baseline", "observe"} : Replied(op)
  BY DEF FrameAnswered
<1>1. op \in DOMAIN PlaceOf \ {"act", "send"} /\ PlaceOf[op] \in {"baseline", "capturing"}
  BY DEF PlaceOf
<1>2. PICK c \in Calls, w \in Seq(Requests) :
      /\ c = Head(wire).for /\ w = Tail(wire) /\ TypeOK /\ CallInv(c) /\ Head(wire) = wire[1] /\ wire # <<>>
      /\ wire[1].ran /\ wire[1].op = op /\ wire[1].for = c /\ pc[c] = PlaceOf[op]
      /\ tail # <<>> /\ tail[1] = c /\ pc[c] \in Queued
      /\ WireFrom(w) /\ \A i \in DOMAIN w : w[i].by # c
  BY <1>0, <1>1, AnswerOf
<1>3. c \in Batches /\ prep[c] = "none" /\ seen[c] <= version
  BY <1>1, <1>2, CallTypes DEF CallInv, KindInv, JudgedInv, Alone
<1>4. worker = "up" => c \notin tokens
  BY <1>3, TokenPlace
<1>5. /\ UNCHANGED <<sessionVars, receipts, seen, epochAt, prep, epoch, personVars, worker, tokens, ran, historyVars>>
      /\ wire' = w
  BY <1>2 DEF FrameAnswered, prepVars
<1>6. CASE pc' = [pc EXCEPT ![c] = "turn"] /\ UNCHANGED tail
  <2>1. pc[c] \in Queued \ {"usage2", "sending"}
    BY <1>1, <1>2
  <2>2. /\ seen' \in [Calls -> Nat] /\ epochAt' \in [Calls -> Nat] /\ seen'[c] <= version
        /\ \A d \in Calls \ {c} : seen'[d] = seen[d]
    BY <1>2, <1>3, <1>5 DEF TypeOK
  <2>3. UNCHANGED <<sessionVars, tail, receipts, prepVars, personVars, worker, tokens, ran, historyVars>>
    BY <1>5, <1>6 DEF prepVars
  <2> QED BY <1>1, <1>2, <1>3, <1>4, <1>5, <1>6, <2>1, <2>2, <2>3, Proceeds
<1>7. ASSUME NEW outcome \in {"done", "failed"}, Finish(c, outcome) PROVE ActionInv'
  <2>1. PICK p \in {"done", "failed"} : pc' = [pc EXCEPT ![c] = p]
    BY <1>7 DEF Finish
  <2>2. prep' = [prep EXCEPT ![c] = "none"] /\ tail' = Tail(tail)
    BY <1>2, <1>3, <1>5, <1>7, SamePrep DEF Finish
  <2>3. pc[c] \notin {"usage2", "sending"}
    BY <1>1, <1>2
  <2> QED BY <1>2, <1>4, <1>5, <2>1, <2>2, <2>3, Ends
<1> QED BY <1>2, <1>6, <1>7 DEF FrameAnswered

\* The input is answered: the receipt says what became of it, and nothing more is tried
\* after a failure.
LEMMA InputAnsweredKeeps == ASSUME ActionInv, InputAnswered PROVE ActionInv'
<1> USE DEF sessionVars, personVars, historyVars
<1>0. PICK op \in {"act", "send"} : Replied(op)
  BY DEF InputAnswered
<1>1. op \in DOMAIN PlaceOf /\ PlaceOf[op] = "sending" /\ op # "prepare"
  BY DEF PlaceOf
<1>2. PICK c \in Calls, w \in Seq(Requests) :
      /\ c = Head(wire).for /\ w = Tail(wire) /\ TypeOK /\ CallInv(c) /\ Fits(wire[1]) /\ Head(wire) = wire[1]
      /\ wire # <<>> /\ wire[1].ran /\ wire[1].op = op /\ wire[1].for = c /\ pc[c] = "sending"
      /\ tail # <<>> /\ tail[1] = c /\ pc[c] \in Queued
      /\ WireFrom(w) /\ \A i \in DOMAIN w : w[i].by # c
      /\ worker = "up" /\ c \in tokens => Doomed(c)
  BY <1>0, <1>1, AnswerOf
<1>3. /\ UNCHANGED <<sessionVars, seen, epochAt, epoch, personVars, worker, tokens, ran, historyVars>>
      /\ wire' = w /\ prep' = [prep EXCEPT ![c] = "none"]
  BY <1>2 DEF InputAnswered
<1>4. /\ At(c) <= Len(Actions[c]) /\ At(c) \in Nat /\ receipts[c] \in Seq(Marks) /\ Len(Actions[c]) \in Nat
      /\ c \notin Batches => Len(Actions[c]) = 1
      /\ wire[1].ok => At(c) \in DeliveredActions(c)
  BY <1>2, CallTypes DEF CallInv, ReceiptInv, Ahead, Fits
<1>5. PICK p \in {"turn", "done", "failed"} :
          /\ pc' = [pc EXCEPT ![c] = p]
          /\ IF p = "turn" THEN tail' = tail /\ c \in Batches ELSE tail' = Tail(tail)
          /\ \/ receipts' = [receipts EXCEPT ![c] = Append(receipts[c], "ok")] /\ wire[1].ok
             \/ receipts' = [receipts EXCEPT ![c] = Append(receipts[c], "failed")] /\ p # "turn"
             \/ receipts' = [receipts EXCEPT ![c] = Stopped(c, "failed")] /\ p = "turn"
  BY <1>2 DEF InputAnswered, Finish
<1>6. /\ pc'[c] = p /\ pc' \in [Calls -> Places] /\ \A d \in Calls \ {c} : pc'[d] = pc[d]
      /\ prep'[c] = "none" /\ prep' \in [Calls -> {"none", "ready", "sending"}]
      /\ \A d \in Calls \ {c} : prep'[d] = prep[d]
  BY <1>2, <1>3, <1>5 DEF TypeOK, Places, Settled
<1>7. PICK rs : receipts' = [receipts EXCEPT ![c] = rs]
  BY <1>5
<1>8. receipts'[c] = rs /\ \A d \in Calls \ {c} : receipts'[d] = receipts[d] /\ Untouched(d)
  <2>1. receipts'[c] = rs /\ \A d \in Calls \ {c} : receipts'[d] = receipts[d]
    BY <1>2, <1>7 DEF TypeOK
  <2> QED BY <1>3, <1>6, <2>1 DEF Untouched
<1>9. ReceiptInv(c)' /\ receipts'[c] \in Seq(Marks) /\ At(c)' \in Nat /\ At(c)' > At(c)
  <2>0. \/ rs = Append(receipts[c], "ok") /\ wire[1].ok
        \/ rs = Append(receipts[c], "failed") /\ p # "turn"
        \/ rs = Stopped(c, "failed") /\ p = "turn"
    BY <1>2, <1>5, <1>7, <1>8, ZenonT(40) DEF TypeOK
  <2>1. ASSUME NEW m \in {"ok", "failed"}, rs = Append(receipts[c], m), m = "ok" => wire[1].ok, p = "turn" => m = "ok"
        PROVE  ReceiptInv(c)' /\ receipts'[c] \in Seq(Marks) /\ At(c)' \in Nat /\ At(c)' > At(c)
    <3>1. receipts'[c] = Append(receipts[c], m) /\ m \in Marks
      BY <1>8, <2>1 DEF Marks
    <3>2. receipts'[c] \in Seq(Marks) /\ Len(receipts'[c]) = Len(receipts[c]) + 1
      BY <1>4, <3>1, Longer
    <3>3. At(c)' = At(c) + 1
      BY <1>4, <3>2 DEF At
    <3>4. pc'[c] \notin Ahead \cup {"absent", "idle"} /\ (pc'[c] \in Queued => p = "turn")
      BY <1>6 DEF Ahead, Queued, Begun, Waiting
    <3>5. ReceiptInv(c)'
      BY <1>2, <1>3, <1>4, <1>5, <1>6, <2>1, <3>1, <3>4, ReceiptAdded DEF CallInv
    <3> QED BY <1>4, <3>2, <3>3, <3>5
  <2>2. CASE rs = Stopped(c, "failed") /\ p = "turn"
    <3>1. /\ receipts'[c] = Stopped(c, "failed") /\ "failed" \in Marks \ {"ok"} /\ ReceiptInv(c) /\ DeliveryInv(c)
          /\ pc'[c] = "turn" /\ c \in Batches /\ ran'[c] = ran[c]
      BY <1>2, <1>3, <1>5, <1>6, <1>8, <2>2 DEF Marks, CallInv
    <3>2. ReceiptInv(c)' /\ receipts'[c] \in Seq(Marks) /\ At(c)' = Len(Actions[c]) + 1
      BY <1>2, <1>4, <3>1, ReceiptsStopped
    <3> QED BY <1>4, <3>2
  <2> QED BY <2>0, <2>1, <2>2
<1>10. TypeOK'
  <2>1. receipts' \in [Calls -> Seq(Marks)]
    BY <1>2, <1>7, <1>8, <1>9 DEF TypeOK
  <2>2. tail' \in Seq(Calls)
    <3>1. Tail(tail) \in Seq(Calls) /\ tail \in Seq(Calls)
      BY <1>2, RestOfTail DEF TypeOK
    <3> QED BY <1>5, <3>1
  <2> QED BY <1>2, <1>3, <1>6, <2>1, <2>2 DEF TypeOK
<1>11. CallInv(c)'
  <2>1. DeliveryInv(c)'
    BY <1>2, <1>3, <1>5, <1>6, <1>9, DeliveriesKept DEF CallInv, Outside
  <2>2. JudgedInv(c)' /\ KindInv(c)' /\ IdentityInv(c)'
    BY <1>2, <1>3, <1>6 DEF CallInv, JudgedInv, KindInv, IdentityInv, Outside
  <2> QED BY <1>9, <2>1, <2>2 DEF CallInv
<1>12. /\ Request("act", c, c) \in Requests /\ Request("act", c, c).by = c
       /\ worker = "up" /\ c \in tokens => Doomed(c)'
  <2>1. Request("act", c, c) \in Requests /\ Request("act", c, c).by = c
    BY OwnRequest DEF Ops
  <2> QED BY <1>2, <1>3, <2>1, StillDoomed
<1>13. /\ \/ pc'[c] \in Queued /\ tail' = tail
          \/ pc'[c] \notin Queued /\ tail' = Tail(tail)
       /\ c \notin Batches => pc'[c] \in Cancellable
  BY <1>5, <1>6 DEF Queued, Begun, Waiting, Cancellable, Settled
<1> QED BY <1>2, <1>3, <1>8, <1>10, <1>11, <1>12, <1>13, JobMoves

\* A job's own cancel is answered: the job ends refused, and the worker holds nothing of it
\* that is not to be cancelled.
LEMMA OwnCancelKeeps == ASSUME ActionInv, CancelAnswered, wire[1].by \in Calls PROVE ActionInv'
<1>1. /\ TypeOK /\ wire # <<>> /\ Head(wire) = wire[1] /\ wire[1].ran /\ wire[1].op = "cancel" /\ 1 \in DOMAIN wire
  BY RestOfWire DEF ActionInv, CancelAnswered, Replied
<1>2. Fits(wire[1])
  BY <1>1 DEF ActionInv, WireInv
<1>3. PICK c \in Calls, w \in Seq(Requests) :
          c = wire[1].by /\ w = Tail(wire) /\ wire[1].for = c /\ pc[c] \in {"revoking", "cancelling"} /\ c \notin Batches
  <2>1. Tail(wire) \in Seq(Requests)
    BY <1>1, RestOfWire
  <2> QED BY <1>1, <1>2, <2>1 DEF Fits
<1>4. pc[c] \in Begun /\ pc[c] \in Queued
  BY <1>3 DEF Begun, Queued, Waiting
<1>5. tail # <<>> /\ tail[1] = c /\ CallInv(c)
  BY <1>4 DEF ActionInv, QueueInv
<1>6. WireFrom(w) /\ \A i \in DOMAIN w : w[i].by # c
  BY <1>1, <1>3, OwnFirst DEF WireFrom
<1>7. PICK p \in {"refused", "failed"} : pc' = [pc EXCEPT ![c] = p]
  BY <1>1, <1>3 DEF CancelAnswered, Finish
<1>8. prep' = [prep EXCEPT ![c] = "none"] /\ tail' = Tail(tail) /\ wire' = w
  <2>1. prep[c] = "none"
    BY <1>1, <1>3, <1>5, CallTypes DEF CallInv, KindInv
  <2> QED BY <1>1, <1>3, <2>1, SamePrep DEF CancelAnswered, Finish, prepVars
<1>9. ran[c] = <<>>
  BY <1>3, <1>5 DEF CallInv, DeliveryInv
<1>10. worker = "up" /\ c \in tokens => Doomed(c)
  BY <1>3, TokenPlace
<1>11. pc[c] \notin {"usage2", "sending"} /\ p \in {"done", "failed", "refused"}
  BY <1>3
<1>12. UNCHANGED <<sessionVars, receipts, seen, epochAt, epoch, personVars, worker, tokens, ran, historyVars>>
  BY DEF CancelAnswered, prepVars
<1> QED BY <1>1, <1>3, <1>4, <1>5, <1>6, <1>7, <1>8, <1>9, <1>10, <1>11, <1>12, Ends

-----------------------------------------------------------------------------
(* A step of a person or of the worker that moves no job.                    *)

\* A preparation that is not being sent may be forgotten.
Forgets(d) == prep'[d] = prep[d] \/ (prep[d] = "ready" /\ prep'[d] = "none")

\* What holds of a call holds when the session narrows, pauses or stops around it.
LEMMA CallStays ==
    ASSUME TypeOK, NEW d \in Calls, CallInv(d), Forgets(d),
           UNCHANGED <<requests, pc, receipts, seen, ran, journal, judged>>,
           UNCHANGED <<allowed, version>> \/ version' = version + 1,
           prep'[d] = "ready" /\ Open => Open'
    PROVE  CallInv(d)'
<1>1. JudgedInv(d)'
  <2>1. JudgedInv(d) /\ seen[d] \in Nat /\ version \in Nat
    BY CallTypes DEF CallInv
  <2> QED BY <2>1 DEF JudgedInv, Now, At
<1>2. KindInv(d)'
  BY DEF CallInv, KindInv, Forgets
<1>3. ReceiptInv(d)'
  BY DEF CallInv, ReceiptInv, At, DeliveredActions
<1>4. DeliveryInv(d)'
  BY DEF CallInv, DeliveryInv, At, Increasing
<1>5. IdentityInv(d)'
  BY DEF CallInv, IdentityInv
<1> QED BY <1>1, <1>2, <1>3, <1>4, <1>5 DEF CallInv

\* A request still fits when the session narrows, pauses or stops.
LEMMA FitStays ==
    ASSUME NEW e \in Requests, Fits(e), \A d \in Calls : Forgets(d), UNCHANGED <<pc, receipts, ran>>
    PROVE  Fits(e)'
BY DEF Fits, Forgets, At, DeliveredActions, PlaceOf

\* Such a step keeps the invariant when it does right by the narrows and the worker.
LEMMA PersonMoves ==
    ASSUME ActionInv, TypeOK', NarrowInv', TokenInv',
           UNCHANGED <<requests, tail, pc, receipts, seen, ran, journal, judged>>,
           \A d \in Calls : Forgets(d) /\ (prep'[d] = "ready" /\ Open => Open'),
           UNCHANGED <<allowed, version>> \/ version' = version + 1,
           NEW w \in Seq(Requests), \A i \in DOMAIN w : \E j \in DOMAIN wire : w[i] = wire[j],
           \A i, k \in DOMAIN w : i # k => \E j, l \in DOMAIN wire : j # l /\ w[i] = wire[j] /\ w[k] = wire[l],
           \A j \in DOMAIN wire : SendKept(wire[j]) => \A e \in Requests : e = wire[j] => SendKept(e)',
           NEW r \in Requests, r.by \notin Calls,
           wire' = w \/ (wire' = Append(w, r) /\ Fits(r)' /\ SendKept(r)')
    PROVE  ActionInv'
<1>0. TypeOK /\ WireInv /\ QueueInv
  BY DEF ActionInv
<1>1. QueueInv'
  BY <1>0 DEF QueueInv
<1>2. \A d \in Calls : CallInv(d)'
  BY CallStays DEF ActionInv
<1>3. \A i \in DOMAIN w : \E e \in Requests : w[i] = e /\ Fits(e)' /\ SendKept(e)'
  <2> SUFFICES ASSUME NEW i \in DOMAIN w PROVE \E e \in Requests : w[i] = e /\ Fits(e)' /\ SendKept(e)'
    OBVIOUS
  <2>1. PICK j \in DOMAIN wire : w[i] = wire[j]
    OBVIOUS
  <2>2. PICK e \in Requests : e = wire[j]
    BY <1>0 DEF TypeOK
  <2>3. Fits(wire[j]) /\ SendKept(wire[j])
    BY <1>0 DEF WireInv
  <2>4. Fits(e)
    BY <2>2, <2>3
  <2>5. Fits(e)' /\ SendKept(e)'
    BY <2>2, <2>3, <2>4, FitStays
  <2> QED BY <2>1, <2>2, <2>5
<1>4. \A i, k \in DOMAIN w : i # k /\ w[i].by \in Calls => w[k].by # w[i].by
  BY <1>0 DEF WireInv
<1>5. WireInv'
  BY <1>0, <1>3, <1>4, WireGrows
<1> QED BY <1>1, <1>2, <1>5 DEF ActionInv

\* A request of a person, typed.
LEMMA PersonRequest ==
    ASSUME NEW op \in {"cancel", "pause", "resume"}, NEW by \in Narrows \cup {"pause", "resume", "stop"},
           NEW for \in Calls \cup {None}
    PROVE  /\ Request(op, by, for) \in Requests /\ by \notin Calls
           /\ Request(op, by, for).op = op /\ Request(op, by, for).by = by /\ Request(op, by, for).for = for
           /\ ~Request(op, by, for).ran
BY ActionAssumption DEF Request, Requests, Askers, Ops

\* A step that touches neither a job nor a preparation, and at most ends or adds a
\* request of a person.
LEMMA Quiet ==
    ASSUME ActionInv, TypeOK', NarrowInv', Open => Open',
           UNCHANGED <<allowed, version, requests, jobVars, prep, worker, tokens, ran, historyVars>>,
           NEW w, WireFrom(w), w = wire \/ (wire[1].ran /\ wire[1].op # "prepare"),
           \A j \in DOMAIN wire : SendKept(wire[j]) => \A e \in Requests : e = wire[j] => SendKept(e)',
           NEW r \in Requests, r.by \notin Calls,
           wire' = w \/ (wire' = Append(w, r) /\ Fits(r)' /\ SendKept(r)')
    PROVE  ActionInv'
<1>0. TypeOK
  BY DEF ActionInv
<1>1. /\ w \in Seq(Requests) /\ \A i \in DOMAIN w : \E j \in DOMAIN wire : w[i] = wire[j]
      /\ \A i, k \in DOMAIN w : i # k => \E j, l \in DOMAIN wire : j # l /\ w[i] = wire[j] /\ w[k] = wire[l]
  BY <1>0, WireWas
<1>2. UNCHANGED <<requests, tail, pc, receipts, seen, prep, worker, tokens, ran, journal, judged>>
  BY DEF jobVars, historyVars
<1>3. TokenInv'
  <2>1. None \notin tokens
    BY <1>0, ActionAssumption DEF TypeOK
  <2>2. \A d \in Calls \ {None} : prep'[d] = prep[d]
    BY <1>2
  <2>3. wire' = w \/ wire' = Append(w, r)
    OBVIOUS
  <2> QED BY <1>2, <2>1, <2>2, <2>3, TokensOfOne
<1>4. \A d \in Calls : Forgets(d)
  BY <1>2 DEF Forgets
<1> QED BY <1>1, <1>2, <1>3, <1>4, PersonMoves

\* The place of every narrow and of its sends is the same.
LEMMA SendsStay ==
    ASSUME NEW e \in Requests, SendKept(e), UNCHANGED <<receipts, npc, drains>>
    PROVE  SendKept(e)'
BY DEF SendKept, Now, At

\* A cancel, a pause or a resume of a person is answered.
LEMMA PersonAnswered ==
    ASSUME ActionInv, NEW op \in {"cancel", "pause", "resume"}, Replied(op), wire' = Tail(wire), TypeOK', Open => Open',
           UNCHANGED <<allowed, version, requests, jobVars, prep, npc, drains, worker, tokens, ran, historyVars>>
    PROVE  ActionInv'
<1>1. TypeOK /\ wire # <<>> /\ wire[1].ran /\ wire[1].op # "prepare"
  BY RestOfWire DEF ActionInv, Replied
<1>2. NarrowInv'
  BY DEF ActionInv, NarrowInv
<1>3. UNCHANGED receipts
  BY DEF jobVars
<1>4. \A j \in DOMAIN wire : SendKept(wire[j]) => \A e \in Requests : e = wire[j] => SendKept(e)'
  BY <1>3, SendsStay
<1>5. Request("pause", "pause", None) \in Requests /\ Request("pause", "pause", None).by \notin Calls
  BY PersonRequest
<1>6. WireFrom(Tail(wire))
  BY <1>1 DEF WireFrom
<1> QED BY <1>1, <1>2, <1>4, <1>5, <1>6, Quiet

\* A cancel is answered: a job's own, or a person's.
LEMMA CancelAnsweredKeeps == ASSUME ActionInv, CancelAnswered PROVE ActionInv'
<1>1. TypeOK /\ Head(wire) = wire[1] /\ wire # <<>> /\ Tail(wire) \in Seq(Requests)
  BY RestOfWire DEF ActionInv, CancelAnswered, Replied
<1>2. CASE wire[1].by \in Calls
  BY <1>2, OwnCancelKeeps
<1>3. CASE wire[1].by \notin Calls
  <2>1. wire' = Tail(wire) /\ UNCHANGED <<tail, pc>> /\ Replied("cancel")
    BY <1>1, <1>3 DEF CancelAnswered
  <2>2. UNCHANGED <<state, allowed, version, requests, jobVars, prep, npc, drains, worker, tokens, ran, historyVars>>
    BY <2>1 DEF CancelAnswered, sessionVars, jobVars, prepVars, personVars
  <2>3. TypeOK'
    BY <1>1, <2>1 DEF TypeOK, CancelAnswered, sessionVars, prepVars, personVars, historyVars
  <2> QED BY <2>1, <2>2, <2>3, PersonAnswered DEF Open
<1> QED BY <1>2, <1>3

\* A pause is answered.
LEMMA PauseAnsweredKeeps == ASSUME ActionInv, PauseAnswered PROVE ActionInv'
<1>1. TypeOK /\ Tail(wire) \in Seq(Requests)
  BY RestOfWire DEF ActionInv, PauseAnswered, Replied
<1>2. TypeOK' /\ (Open => Open')
  BY <1>1 DEF TypeOK, PauseAnswered, jobVars, prepVars, historyVars, Open
<1>3. UNCHANGED <<allowed, version, requests, jobVars, prep, npc, drains, worker, tokens, ran, historyVars>>
  BY DEF PauseAnswered, prepVars
<1> QED BY <1>2, <1>3, PersonAnswered DEF PauseAnswered

\* A resume is answered.
LEMMA ResumeAnsweredKeeps == ASSUME ActionInv, ResumeAnswered PROVE ActionInv'
<1>1. TypeOK /\ Tail(wire) \in Seq(Requests)
  BY RestOfWire DEF ActionInv, ResumeAnswered, Replied
<1>2. TypeOK' /\ (Open => Open')
  BY <1>1 DEF TypeOK, ResumeAnswered, jobVars, prepVars, historyVars, Open
<1>3. UNCHANGED <<allowed, version, requests, jobVars, prep, npc, drains, worker, tokens, ran, historyVars>>
  BY DEF ResumeAnswered, prepVars
<1> QED BY <1>2, <1>3, PersonAnswered DEF ResumeAnswered

\* The beginning, the rejection and the end of a pause or a stop move nothing else.
LEMMA PersonStepsKeep ==
    ASSUME ActionInv, Pause \/ PauseDrained \/ PauseRejected \/ Resume \/ StopEnds
    PROVE  ActionInv'
<1>1. TypeOK /\ wire \in Seq(Requests) /\ WireFrom(wire)
  BY DEF ActionInv, TypeOK, WireFrom
<1>2. PICK op \in {"pause", "resume"} : wire' = wire \/ wire' = Posted(wire, Request(op, op, None))
  BY DEF Pause, PauseDrained, PauseRejected, Resume, StopEnds, workerVars
<1>3. /\ Request(op, op, None) \in Requests /\ op \notin Calls /\ Request(op, op, None).op = op
      /\ Request(op, op, None).by = op /\ Request(op, op, None).for = None
  BY PersonRequest
<1>4. wire' \in Seq(Requests) /\ (wire' = wire \/ wire' = Append(wire, Request(op, op, None)))
  BY <1>1, <1>2, <1>3, Posting
<1>5. /\ UNCHANGED <<allowed, version, requests, jobVars, prep, npc, drains, worker, tokens, ran, historyVars>>
      /\ Open => Open'
  BY DEF Pause, PauseDrained, PauseRejected, Resume, StopEnds, sessionVars, prepVars, personVars, workerVars, Open
<1>6. TypeOK'
  <2>1. /\ state' \in {"running", "pausing", "paused", "closing", "closed"}
        /\ pausing' \in {"none", "draining", "asked", "held"} /\ pauses' \in Nat /\ epoch' \in Nat
    BY <1>1, SMTT(30) DEF TypeOK, Pause, PauseDrained, PauseRejected, Resume, StopEnds, sessionVars, prepVars, personVars
  <2> QED BY <1>1, <1>4, <1>5, <2>1 DEF TypeOK, jobVars, historyVars
<1>7. NarrowInv'
  BY <1>5 DEF ActionInv, NarrowInv
<1>8. \A j \in DOMAIN wire : SendKept(wire[j]) => \A e \in Requests : e = wire[j] => SendKept(e)'
  BY <1>5, SendsStay DEF jobVars
<1>9. Fits(Request(op, op, None))' /\ SendKept(Request(op, op, None))'
  BY <1>3 DEF Fits, SendKept, PlaceOf
<1> QED BY <1>1, <1>3, <1>4, <1>5, <1>6, <1>7, <1>8, <1>9, Quiet

\* A narrow is acknowledged when the sends it found are gone: the others it allows.
LEMMA NarrowAckedKeeps == ASSUME ActionInv, NEW n \in Narrows, NarrowAcked(n) PROVE ActionInv'
<1>1. TypeOK /\ WireFrom(wire)
  BY DEF ActionInv, WireFrom
<1>2. npc'[n] = "acked" /\ (\A m \in Narrows \ {n} : npc'[m] = npc[m]) /\ npc' \in [Narrows -> {"absent", "idle", "draining", "acked"}]
  BY <1>1 DEF NarrowAcked, TypeOK
<1>3. /\ UNCHANGED <<allowed, version, requests, jobVars, prep, worker, tokens, ran, historyVars, drains>>
      /\ (Open => Open') /\ wire' = wire
  BY DEF NarrowAcked, sessionVars, prepVars, workerVars, Open
<1>4. TypeOK'
  BY <1>1, <1>2 DEF TypeOK, NarrowAcked, sessionVars, jobVars, prepVars, workerVars, historyVars
<1>5. NarrowInv'
  BY <1>2, <1>3 DEF ActionInv, NarrowInv, NarrowAcked
<1>6. ASSUME NEW j \in DOMAIN wire, SendKept(wire[j]), NEW e \in Requests, e = wire[j] PROVE SendKept(e)'
  <2> SUFFICES ASSUME e.op = "send", NEW m \in Narrows
               PROVE  \/ npc'[m] \in {"absent", "idle"}
                      \/ npc'[m] = "draining" /\ e.for \in drains'[m]
                      \/ Now(e.for)'.class \in Keep[m]
    BY DEF SendKept
  <2>1. Now(e.for)' = Now(e.for)
    BY <1>3 DEF Now, At, jobVars
  <2>2. \/ npc[m] \in {"absent", "idle"}
        \/ npc[m] = "draining" /\ e.for \in drains[m]
        \/ Now(e.for).class \in Keep[m]
    BY <1>6 DEF SendKept
  <2>3. CASE m # n
    BY <1>2, <1>3, <2>1, <2>2, <2>3
  <2>4. CASE m = n
    <3>1. Sending(e.for)
      BY <1>6 DEF Sending
    <3>2. npc[n] = "draining" /\ e.for \notin drains[n]
      BY <3>1 DEF NarrowAcked
    <3> QED BY <2>1, <2>2, <2>4, <3>2
  <2> QED BY <2>3, <2>4
<1>7. Request("pause", "pause", None) \in Requests /\ Request("pause", "pause", None).by \notin Calls
  BY PersonRequest
<1> QED BY <1>1, <1>3, <1>4, <1>5, <1>6, <1>7, Quiet

\* One job at a time: whoever holds a preparation is the first of the queue.
LEMMA HolderFirst ==
    ASSUME ActionInv, NEW d \in Calls, prep[d] # "none"
    PROVE  /\ tail # <<>> /\ tail[1] = d /\ d \notin Batches /\ pc[d] \in Cancellable
           /\ Holder = d
<1>1. ASSUME NEW h \in Calls, prep[h] # "none"
      PROVE  tail # <<>> /\ tail[1] = h /\ h \notin Batches /\ pc[h] \in Cancellable
  <2>1. KindInv(h) /\ prep[h] \in {"ready", "sending"}
    BY <1>1, CallTypes DEF ActionInv, CallInv
  <2>2. pc[h] \in {"consulting", "usage2", "sending"} /\ Alone(h)
    BY <2>1 DEF KindInv
  <2> QED BY <2>2 DEF ActionInv, QueueInv, Begun, Waiting, Cancellable, Alone
<1>2. Holder \in Calls /\ prep[Holder] # "none"
  BY DEF Holder
<1> QED BY <1>1, <1>2

\* cancelPreparedActions: what is not yet sent is forgotten, and whatever the worker holds
\* of it is doomed.
LEMMA Cancels ==
    ASSUME ActionInv, NEW by \in Narrows \cup {"stop"}, CancelPreparedActions(by), TypeOK', NarrowInv',
           UNCHANGED <<requests, jobVars, worker, tokens, ran, historyVars>>,
           UNCHANGED <<allowed, version>> \/ version' = version + 1,
           \A j \in DOMAIN wire : SendKept(wire[j]) => \A e \in Requests : e = wire[j] => SendKept(e)'
    PROVE  ActionInv'
<1>1. TypeOK /\ wire \in Seq(Requests) /\ WireFrom(wire)
  BY DEF ActionInv, TypeOK, WireFrom
<1>2. \A d \in Calls : prep'[d] = IF prep[d] = "ready" THEN "none" ELSE prep[d]
  BY DEF CancelPreparedActions, Forgotten
<1>3. \A d \in Calls : Forgets(d) /\ prep'[d] # "ready"
  BY <1>2 DEF Forgets
<1>4. PICK h \in Calls \cup {None} :
        /\ h \in Calls => /\ prep[h] # "none" /\ h \notin Batches /\ pc[h] \in Cancellable
                         /\ wire' = Posted(wire, Request("cancel", by, h))
        /\ h = None => wire' = wire
        /\ \A d \in Calls \ {h} : prep[d] = "none"
  <2>1. CASE \E d \in Calls : prep[d] # "none"
    <3>1. PICK d \in Calls : prep[d] # "none"
      BY <2>1
    <3>2. Holder = d /\ d \notin Batches /\ pc[d] \in Cancellable
      BY <3>1, HolderFirst
    <3>3. \A e \in Calls : prep[e] # "none" => e = d
      BY <3>1, HolderFirst
    <3>4. wire' = Posted(wire, Request("cancel", by, d))
      BY <2>1, <3>2 DEF CancelPreparedActions
    <3> QED BY <3>1, <3>2, <3>3, <3>4, ActionAssumption
  <2>2. CASE ~ \E d \in Calls : prep[d] # "none"
    <3>1. wire' = wire
      BY <2>2 DEF CancelPreparedActions
    <3> QED BY <2>2, <3>1, ActionAssumption
  <2> QED BY <2>1, <2>2
<1>5. /\ Request("cancel", by, h) \in Requests /\ by \notin Calls /\ Request("cancel", by, h).op = "cancel"
      /\ Request("cancel", by, h).by = by /\ Request("cancel", by, h).for = h /\ ~Request("cancel", by, h).ran
  BY PersonRequest
<1>6. wire' \in Seq(Requests) /\ (wire' = wire \/ (wire' = Append(wire, Request("cancel", by, h)) /\ h \in Calls))
  BY <1>1, <1>4, <1>5, Posting, ZenonT(40)
<1>7. h \in Calls => Fits(Request("cancel", by, h))' /\ SendKept(Request("cancel", by, h))'
  BY <1>4, <1>5 DEF Fits, SendKept, PlaceOf, jobVars
<1>8. TokenInv'
  <2>1. worker = "up" /\ h \in tokens => Doomed(h)'
    <3>1. tokens \subseteq Calls
      BY <1>1 DEF TypeOK
    <3>2. worker = "up" /\ h \in Calls => \E i \in DOMAIN wire' : wire'[i] = Request("cancel", by, h)
      BY <1>1, <1>4, <1>5, Posting
    <3> QED BY <1>5, <3>1, <3>2 DEF Doomed
  <2>2. \A d \in Calls \ {h} : prep'[d] = prep[d]
    BY <1>2, <1>4
  <2> QED BY <1>1, <1>5, <1>6, <2>1, <2>2, TokensOfOne
<1>9. UNCHANGED <<requests, tail, pc, receipts, seen, ran, journal, judged>>
  BY DEF jobVars, historyVars
<1>10. /\ \A i \in DOMAIN wire : \E j \in DOMAIN wire : wire[i] = wire[j]
       /\ \A i, k \in DOMAIN wire : i # k => \E j, l \in DOMAIN wire : j # l /\ wire[i] = wire[j] /\ wire[k] = wire[l]
  OBVIOUS
<1> QED BY <1>1, <1>3, <1>5, <1>6, <1>7, <1>8, <1>9, <1>10, PersonMoves

\* A narrow begins: it is in force from here on, and waits for the sends it finds.
LEMMA NarrowKeeps == ASSUME ActionInv, NEW n \in Narrows, Narrow(n) PROVE ActionInv'
<1>1. TypeOK /\ wire \in Seq(Requests) /\ version \in Nat
  BY DEF ActionInv, TypeOK
<1>2. /\ npc'[n] = "draining" /\ (\A m \in Narrows \ {n} : npc'[m] = npc[m])
      /\ npc' \in [Narrows -> {"absent", "idle", "draining", "acked"}]
  BY <1>1 DEF Narrow, TypeOK
<1>3. /\ drains' = [drains EXCEPT ![n] = {c \in Calls : prep[c] = "sending"}]
      /\ drains'[n] = {c \in Calls : prep[c] = "sending"} /\ (\A m \in Narrows \ {n} : drains'[m] = drains[m])
      /\ drains' \in [Narrows \cup {"stop"} -> SUBSET Calls]
  BY <1>1 DEF Narrow, CancelPreparedActions, TypeOK
<1>4. TypeOK'
  <2>1. prep' \in [Calls -> {"none", "ready", "sending"}] /\ epoch' \in Nat
    BY <1>1 DEF Narrow, CancelPreparedActions, Forgotten, TypeOK
  <2>2. wire' \in Seq(Requests)
    <3>1. CASE \E d \in Calls : prep[d] # "none"
      <4>1. Holder \in Calls
        BY <3>1 DEF Holder
      <4>2. Request("cancel", n, Holder) \in Requests
        BY <4>1, PersonRequest
      <4> QED BY <1>1, <3>1, <4>2, Posting DEF Narrow, CancelPreparedActions
    <3>2. CASE ~ \E d \in Calls : prep[d] # "none"
      BY <1>1, <3>2 DEF Narrow, CancelPreparedActions
    <3> QED BY <3>1, <3>2
  <2> QED BY <1>1, <1>2, <1>3, <2>1, <2>2 DEF TypeOK, Narrow, jobVars, historyVars
<1>5. NarrowInv'
  BY <1>2 DEF ActionInv, NarrowInv, Narrow
<1>6. ASSUME NEW j \in DOMAIN wire, SendKept(wire[j]), NEW e \in Requests, e = wire[j] PROVE SendKept(e)'
  <2>1. Fits(e)
    <3>1. Fits(wire[j])
      BY DEF ActionInv, WireInv
    <3> QED BY <1>6, <3>1
  <2>2. e.op = "send" => e.for \in Calls /\ prep[e.for] = "sending"
    BY <2>1 DEF Fits, PlaceOf
  <2>3. Now(e.for)' = Now(e.for)
    BY DEF Narrow, Now, At, jobVars
  <2>4. SendKept(e)
    BY <1>6
  <2> QED BY <1>2, <1>3, <2>2, <2>3, <2>4 DEF SendKept
<1>7. /\ UNCHANGED <<requests, jobVars, worker, tokens, ran, historyVars>> /\ version' = version + 1
      /\ CancelPreparedActions(n) /\ n \in Narrows \cup {"stop"}
  BY DEF Narrow
<1> QED BY <1>4, <1>5, <1>6, <1>7, Cancels

\* A stop begins.
LEMMA StopKeeps == ASSUME ActionInv, Stop PROVE ActionInv'
<1>1. TypeOK /\ wire \in Seq(Requests)
  BY DEF ActionInv, TypeOK
<1>2. /\ \A m \in Narrows : drains'[m] = drains[m]
      /\ drains' \in [Narrows \cup {"stop"} -> SUBSET Calls]
  BY <1>1, ActionAssumption DEF Stop, CancelPreparedActions, TypeOK
<1>3. TypeOK'
  <2>1. prep' \in [Calls -> {"none", "ready", "sending"}] /\ epoch' \in Nat
    BY <1>1 DEF Stop, CancelPreparedActions, Forgotten, TypeOK
  <2>2. wire' \in Seq(Requests)
    <3>1. CASE \E d \in Calls : prep[d] # "none"
      <4>1. Holder \in Calls
        BY <3>1 DEF Holder
      <4>2. Request("cancel", "stop", Holder) \in Requests
        BY <4>1, PersonRequest
      <4> QED BY <1>1, <3>1, <4>2, Posting DEF Stop, CancelPreparedActions
    <3>2. CASE ~ \E d \in Calls : prep[d] # "none"
      BY <1>1, <3>2 DEF Stop, CancelPreparedActions
    <3> QED BY <3>1, <3>2
  <2> QED BY <1>1, <1>2, <2>1, <2>2 DEF TypeOK, Stop, jobVars, historyVars
<1>4. NarrowInv'
  BY DEF ActionInv, NarrowInv, Stop
<1>5. ASSUME NEW j \in DOMAIN wire, SendKept(wire[j]), NEW e \in Requests, e = wire[j] PROVE SendKept(e)'
  <2>1. Now(e.for)' = Now(e.for) /\ npc' = npc
    BY DEF Stop, Now, At, jobVars
  <2>2. SendKept(e)
    BY <1>5
  <2> QED BY <1>2, <2>1, <2>2 DEF SendKept
<1>6. /\ UNCHANGED <<requests, jobVars, worker, tokens, ran, historyVars, allowed, version>>
      /\ CancelPreparedActions("stop")
  BY DEF Stop
<1> QED BY <1>3, <1>4, <1>5, <1>6, Cancels

\* The worker takes no more requests: what was waiting behind the first one is dropped.
LEMMA StopDrainedKeeps == ASSUME ActionInv, StopDrained PROVE ActionInv'
<1>1. TypeOK /\ wire \in Seq(Requests)
  BY DEF ActionInv, TypeOK
<1>2. /\ wire' \in Seq(Requests) /\ \A i \in DOMAIN wire' : i = 1
      /\ \A i \in DOMAIN wire' : \E j \in DOMAIN wire : wire'[i] = wire[j]
  <2>1. CASE wire = <<>>
    BY <2>1 DEF StopDrained
  <2>2. CASE wire # <<>>
    <3>1. wire' = <<Head(wire)>> /\ Head(wire) = wire[1] /\ wire[1] \in Requests /\ 1 \in DOMAIN wire
      BY <1>1, <2>2, RestOfWire DEF StopDrained
    <3> QED BY <3>1
  <2> QED BY <2>1, <2>2
<1>3. TypeOK'
  BY <1>1, <1>2 DEF TypeOK, StopDrained, sessionVars, jobVars, prepVars, personVars, historyVars
<1>4. NarrowInv' /\ TokenInv'
  BY DEF ActionInv, NarrowInv, TokenInv, StopDrained, sessionVars, personVars
<1>5. UNCHANGED <<requests, tail, pc, receipts, seen, ran, journal, judged, allowed, version, npc, drains>>
  BY DEF StopDrained, sessionVars, jobVars, personVars, historyVars
<1>6. \A d \in Calls : Forgets(d) /\ (Open => Open')
  BY DEF StopDrained, Forgets, Open, sessionVars, prepVars
<1>7. \A j \in DOMAIN wire : SendKept(wire[j]) => \A e \in Requests : e = wire[j] => SendKept(e)'
  BY <1>5, SendsStay
<1>8. Request("pause", "pause", None) \in Requests /\ Request("pause", "pause", None).by \notin Calls
  BY PersonRequest
<1>9. PICK w \in Seq(Requests) : w = wire'
  BY <1>2
<1>10. /\ \A i \in DOMAIN w : \E j \in DOMAIN wire : w[i] = wire[j]
       /\ \A i, k \in DOMAIN w : i # k => \E j, l \in DOMAIN wire : j # l /\ w[i] = wire[j] /\ w[k] = wire[l]
  BY <1>2, <1>9
<1> QED BY <1>3, <1>4, <1>5, <1>6, <1>7, <1>8, <1>9, <1>10, PersonMoves

\* The worker ends and the session closes: nothing is in the wire or in the worker.
LEMMA WorkerExitsKeeps == ASSUME ActionInv, WorkerExits PROVE ActionInv'
<1>1. TypeOK
  BY DEF ActionInv
<1>2. /\ \A d \in Calls : Forgets(d) /\ (prep'[d] = "ready" /\ Open => Open')
      /\ prep' \in [Calls -> {"none", "ready", "sending"}] /\ epoch' \in Nat
      /\ state' \in {"running", "pausing", "paused", "closing", "closed"}
  <2>0. prep \in [Calls -> {"none", "ready", "sending"}] /\ epoch \in Nat
        /\ state \in {"running", "pausing", "paused", "closing", "closed"}
    BY <1>1 DEF TypeOK
  <2>1. CASE Open
    <3>1. prep' = Forgotten /\ epoch' = epoch + 1 /\ state' = "closing"
      BY <2>1 DEF WorkerExits
    <3>2. /\ prep' \in [Calls -> {"none", "ready", "sending"}]
          /\ \A d \in Calls : prep'[d] = IF prep[d] = "ready" THEN "none" ELSE prep[d]
      BY <2>0, <3>1 DEF Forgotten
    <3>3. \A d \in Calls : Forgets(d) /\ prep'[d] # "ready"
      BY <3>2 DEF Forgets
    <3> QED BY <2>0, <3>1, <3>2, <3>3
  <2>2. CASE ~Open
    <3>1. UNCHANGED <<prep, epoch, state>>
      BY <2>2 DEF WorkerExits
    <3> QED BY <2>0, <2>2, <3>1 DEF Forgets
  <2> QED BY <2>1, <2>2
<1>3. <<>> \in Seq(Requests) /\ wire' = <<>> /\ DOMAIN <<>> = {}
  BY DEF WorkerExits
<1>4. TypeOK'
  BY <1>1, <1>2, <1>3 DEF TypeOK, WorkerExits, jobVars, personVars, historyVars
<1>5. NarrowInv' /\ TokenInv'
  BY DEF ActionInv, NarrowInv, TokenInv, WorkerExits, personVars
<1>6. UNCHANGED <<requests, tail, pc, receipts, seen, ran, journal, judged, allowed, version, npc, drains>>
  BY DEF WorkerExits, jobVars, personVars, historyVars
<1>7. \A j \in DOMAIN wire : SendKept(wire[j]) => \A e \in Requests : e = wire[j] => SendKept(e)'
  BY <1>6, SendsStay
<1>8. Request("pause", "pause", None) \in Requests /\ Request("pause", "pause", None).by \notin Calls
  BY PersonRequest
<1> QED BY <1>2, <1>3, <1>4, <1>5, <1>6, <1>7, <1>8, PersonMoves

-----------------------------------------------------------------------------
(* The worker runs a request.                                                *)

\* The first request of the wire after it ran: the others are as they were.
LEMMA WireRan ==
    ASSUME TypeOK, wire # <<>>, NEW ok \in BOOLEAN,
           wire' = [wire EXCEPT ![1] = [wire[1] EXCEPT !.ran = TRUE, !.ok = ok]]
    PROVE  \E e \in Requests :
             /\ wire' \in Seq(Requests) /\ DOMAIN wire' = DOMAIN wire /\ 1 \in DOMAIN wire /\ wire'[1] = e
             /\ e.op = wire[1].op /\ e.by = wire[1].by /\ e.for = wire[1].for /\ e.ran = TRUE /\ e.ok = ok
             /\ \A i \in DOMAIN wire : i # 1 => wire'[i] = wire[i]
<1>1. wire \in Seq(Requests) /\ wire[1] \in Requests /\ 1 \in DOMAIN wire
  BY RestOfWire DEF TypeOK
<1>2. ASSUME NEW r \in Requests
      PROVE  [r EXCEPT !.ran = TRUE, !.ok = ok] \in Requests
  BY DEF Requests
<1>3. ASSUME NEW r \in Requests
      PROVE  /\ [r EXCEPT !.ran = TRUE, !.ok = ok].op = r.op /\ [r EXCEPT !.ran = TRUE, !.ok = ok].by = r.by
             /\ [r EXCEPT !.ran = TRUE, !.ok = ok].for = r.for /\ [r EXCEPT !.ran = TRUE, !.ok = ok].ran = TRUE
             /\ [r EXCEPT !.ran = TRUE, !.ok = ok].ok = ok
  BY DEF Requests
<1>4. PICK e \in Requests : /\ e = [wire[1] EXCEPT !.ran = TRUE, !.ok = ok]
                           /\ e.op = wire[1].op /\ e.by = wire[1].by /\ e.for = wire[1].for /\ e.ran = TRUE /\ e.ok = ok
  BY <1>1, <1>2, <1>3, Zenon
<1>5. wire' = [wire EXCEPT ![1] = e]
  BY <1>4, Zenon
<1>6. /\ wire' \in Seq(Requests) /\ DOMAIN wire' = DOMAIN wire /\ wire'[1] = e
      /\ \A i \in DOMAIN wire : i # 1 => wire'[i] = wire[i]
  BY <1>1, <1>5
<1> QED BY <1>1, <1>4, <1>6

\* The worker delivers the action whose turn it is: it was not delivered before, and it
\* was journaled.
LEMMA Delivers ==
    ASSUME TypeOK, NEW c \in Calls, CallInv(c), pc[c] = "sending", At(c) \notin DeliveredActions(c),
           ran'[c] = Append(ran[c], At(c)),
           UNCHANGED <<state, allowed, version, requests, pc, receipts, seen, prep, journal, judged>>
    PROVE  CallInv(c)' /\ At(c)' \in DeliveredActions(c)'
<1>1. At(c)' = At(c) /\ At(c) \in Nat /\ ran[c] \in Seq(Nat) /\ At(c) = Len(receipts[c]) + 1 /\ receipts[c] \in Seq(Marks)
  BY CallTypes DEF At
<1>2. /\ DOMAIN ran'[c] = 1..(Len(ran[c]) + 1) /\ DOMAIN ran[c] = 1..Len(ran[c]) /\ Len(ran[c]) \in Nat
      /\ \A i \in DOMAIN ran[c] : ran'[c][i] = ran[c][i]
      /\ ran'[c][Len(ran[c]) + 1] = At(c)
  BY <1>1, Longer
<1>3. \A i \in DOMAIN ran[c] : ran[c][i] < At(c) /\ ran[c][i] \in Nat
  <2>1. \A i \in DOMAIN ran[c] : ran[c][i] \in Nat
    BY <1>1
  <2>2. \A i \in DOMAIN ran[c] : ran[c][i] <= At(c) /\ ran[c][i] # At(c)
    BY DEF CallInv, DeliveryInv, DeliveredActions
  <2> QED BY <1>1, <2>1, <2>2
<1>4. At(c)' \in DeliveredActions(c)'
  <2>1. Len(ran[c]) + 1 \in DOMAIN ran'[c] /\ ran'[c][Len(ran[c]) + 1] = At(c)'
    BY <1>1, <1>2
  <2> QED BY <2>1 DEF DeliveredActions
<1>5. \A k \in DOMAIN receipts[c] : k \in DeliveredActions(c) <=> k \in DeliveredActions(c)'
  <2>1. \A k \in DOMAIN receipts[c] : k # At(c)
    BY <1>1
  <2>2. \A i \in DOMAIN ran[c] : i \in DOMAIN ran'[c]
    BY <1>2
  <2>3. \A i \in DOMAIN ran'[c] : i \in DOMAIN ran[c] \/ i = Len(ran[c]) + 1
    BY <1>2
  <2> QED BY <1>2, <2>1, <2>2, <2>3 DEF DeliveredActions
<1>6. ReceiptInv(c)'
  BY <1>1, <1>5 DEF CallInv, ReceiptInv
<1>7. DeliveryInv(c)'
  <2>1. Increasing(ran[c])'
    BY <1>2, <1>3 DEF CallInv, DeliveryInv, Increasing
  <2>2. Increasing(journal[c])'
    BY DEF CallInv, DeliveryInv, Increasing
  <2>3. \E j \in DOMAIN journal[c] : journal[c][j] = At(c)
    BY DEF CallInv, DeliveryInv
  <2>4. \A i \in DOMAIN ran'[c] : ran'[c][i] <= At(c) /\ \E j \in DOMAIN journal[c] : journal[c][j] = ran'[c][i]
    BY <1>1, <1>2, <1>3, <2>3 DEF CallInv, DeliveryInv
  <2>5. \A i \in DOMAIN journal[c] : journal[c][i] <= At(c)
    BY DEF CallInv, DeliveryInv
  <2> QED BY <1>1, <2>1, <2>2, <2>3, <2>4, <2>5 DEF DeliveryInv, Outside
<1>8. JudgedInv(c)' /\ KindInv(c)' /\ IdentityInv(c)'
  BY DEF CallInv, JudgedInv, KindInv, IdentityInv, Now, At, Open
<1> QED BY <1>4, <1>6, <1>7, <1>8 DEF CallInv

\* The worker runs the request it has: what it delivers, prepares or forgets is that
\* request's.
LEMMA WorkerRunsKeeps == ASSUME ActionInv, WorkerRuns PROVE ActionInv'
<1> USE DEF sessionVars, jobVars, prepVars, personVars, historyVars
<1>1. /\ TypeOK /\ WireInv /\ wire # <<>> /\ Head(wire) = wire[1] /\ ~wire[1].ran /\ 1 \in DOMAIN wire
      /\ wire \in Seq(Requests) /\ Fits(wire[1]) /\ SendKept(wire[1])
  BY RestOfWire DEF ActionInv, WireInv, WorkerRuns, TypeOK
<1>2. PICK ok \in BOOLEAN :
        /\ wire' = [wire EXCEPT ![1] = [wire[1] EXCEPT !.ran = TRUE, !.ok = ok]]
        /\ wire[1].op \in {"cancel", "send"} => tokens' = tokens \ {wire[1].for}
        /\ \A d \in tokens' : d \in tokens \/ (wire[1].op = "prepare" /\ ok /\ d = wire[1].for)
        /\ \/ ran' = ran /\ (wire[1].op \in {"act", "send"} => ~ok)
           \/ wire[1].op \in {"act", "send"} /\ Delivered(wire[1].for)
  BY <1>1 DEF WorkerRuns
<1>3. PICK e \in Requests :
        /\ wire' \in Seq(Requests) /\ DOMAIN wire' = DOMAIN wire /\ 1 \in DOMAIN wire /\ wire'[1] = e
        /\ e.op = wire[1].op /\ e.by = wire[1].by /\ e.for = wire[1].for /\ e.ran = TRUE /\ e.ok = ok
        /\ \A i \in DOMAIN wire : i # 1 => wire'[i] = wire[i]
  BY <1>1, <1>2, WireRan
<1>4. UNCHANGED <<state, allowed, version, requests, tail, pc, receipts, seen, epochAt, prep, epoch, npc, drains,
                  pausing, pauses, worker, journal, judged>>
  BY DEF WorkerRuns
<1>5. ASSUME ran' # ran
      PROVE  /\ wire[1].for \in Calls /\ wire[1].op \in {"act", "send"} /\ wire[1].by = wire[1].for
             /\ ran' = [ran EXCEPT ![wire[1].for] = Append(ran[wire[1].for], At(wire[1].for))]
             /\ pc[wire[1].for] = "sending" /\ At(wire[1].for) \notin DeliveredActions(wire[1].for)
  <2>1. wire[1].op \in {"act", "send"} /\ Delivered(wire[1].for)
    BY <1>2, <1>5
  <2> QED BY <1>1, <2>1 DEF Fits, PlaceOf, Delivered
<1>6. ASSUME NEW c \in Calls, c = wire[1].for, ran' # ran
      PROVE  /\ ran'[c] = Append(ran[c], At(c)) /\ ran' \in [Calls -> Seq(Nat)]
             /\ CallInv(c)' /\ At(c)' \in DeliveredActions(c)'
             /\ \A d \in Calls \ {c} : ran'[d] = ran[d]
  <2>1. ran \in [Calls -> Seq(Nat)] /\ Append(ran[c], At(c)) \in Seq(Nat)
    BY <1>1, CallTypes, Longer DEF TypeOK
  <2>2. ran' = [ran EXCEPT ![c] = Append(ran[c], At(c))] /\ pc[c] = "sending" /\ At(c) \notin DeliveredActions(c)
    BY <1>5, <1>6
  <2>3. /\ ran'[c] = Append(ran[c], At(c)) /\ ran' \in [Calls -> Seq(Nat)]
        /\ \A d \in Calls \ {c} : ran'[d] = ran[d]
    BY <2>1, <2>2
  <2>4. CallInv(c)
    BY DEF ActionInv
  <2>5. CallInv(c)' /\ At(c)' \in DeliveredActions(c)'
    BY <1>1, <1>4, <2>2, <2>3, <2>4, Delivers
  <2> QED BY <2>3, <2>5
<1>7. ran' \in [Calls -> Seq(Nat)] /\ \A d \in Calls : CallInv(d)'
  <2>1. CASE ran' = ran
    <3>1. \A d \in Calls : Untouched(d)
      BY <1>4, <2>1 DEF Untouched
    <3> QED BY <1>1, <1>4, <2>1, <3>1, CallKept DEF ActionInv, TypeOK
  <2>2. CASE ran' # ran
    <3>1. PICK c \in Calls : c = wire[1].for
      BY <1>5, <2>2
    <3>2. ran' \in [Calls -> Seq(Nat)] /\ CallInv(c)' /\ \A d \in Calls \ {c} : ran'[d] = ran[d]
      BY <1>6, <2>2, <3>1
    <3>3. \A d \in Calls \ {c} : Untouched(d)
      BY <1>4, <3>2 DEF Untouched
    <3>4. \A d \in Calls \ {c} : CallInv(d)'
      BY <1>4, <3>3, CallKept DEF ActionInv
    <3> QED BY <3>2, <3>4
  <2> QED BY <2>1, <2>2
<1>8. TypeOK'
  <2>1. tokens' \subseteq Calls
    <3>1. wire[1].op = "prepare" => wire[1].for \in Calls
      BY <1>1 DEF Fits, PlaceOf
    <3> QED BY <1>1, <1>2, <3>1 DEF TypeOK
  <2> QED BY <1>1, <1>3, <1>4, <1>7, <2>1 DEF TypeOK
<1>9. QueueInv' /\ NarrowInv'
  BY <1>4 DEF ActionInv, QueueInv, NarrowInv
<1>10. WireInv'
  <2>1. Fits(e)' /\ SendKept(e)'
    <3>1. e.op \in {"act", "send"} /\ e.ok => At(e.for)' \in DeliveredActions(e.for)'
      <4>1. ASSUME e.op \in {"act", "send"}, e.ok PROVE e.for \in Calls /\ ran' # ran
        <5>1. e.for \in Calls /\ Delivered(e.for)
          BY <1>1, <1>2, <1>3, <4>1 DEF Fits, PlaceOf
        <5>2. PICK c \in Calls : c = e.for
          BY <5>1
        <5>3. ran'[c] = Append(ran[c], At(c)) /\ ran[c] \in Seq(Nat) /\ At(c) \in Nat
          BY <1>1, <5>1, <5>2, CallTypes DEF Delivered, TypeOK
        <5>4. Len(ran'[c]) = Len(ran[c]) + 1 /\ Len(ran[c]) \in Nat
          BY <5>3, Longer
        <5> QED BY <5>2, <5>4
      <4> QED BY <1>3, <1>6, <4>1
    <3>2. Fits(e)'
      BY <1>1, <1>3, <1>4, <3>1 DEF Fits
    <3>3. SendKept(e)'
      BY <1>1, <1>3, <1>4 DEF SendKept, Now, At
    <3> QED BY <3>2, <3>3
  <2>2. ASSUME NEW i \in DOMAIN wire, i # 1, NEW x \in Requests, x = wire[i] PROVE Fits(x)' /\ SendKept(x)'
    <3>1. Fits(x) /\ SendKept(x)
      BY <1>1, <2>2 DEF WireInv
    <3>2. CASE x.for \in Calls => Untouched(x.for)
      BY <1>4, <3>1, <3>2, FitsKept
    <3>3. CASE x.for \in Calls /\ ~Untouched(x.for)
      <4>1. ran' # ran
        BY <1>4, <3>3 DEF Untouched
      <4>2. PICK c \in Calls : c = wire[1].for
        BY <1>5, <4>1
      <4>3. \A d \in Calls \ {c} : Untouched(d)
        BY <1>4, <1>6, <4>1, <4>2 DEF Untouched
      <4>4. x.for = c
        BY <3>3, <4>3
      <4>5. x.by # c
        BY <1>1, <1>5, <2>2, <4>1, <4>2 DEF WireInv
      <4>6. x.op \notin DOMAIN PlaceOf /\ DOMAIN PlaceOf = {"prepare", "send", "act", "baseline", "observe"}
        BY <3>1, <4>4, <4>5 DEF Fits, PlaceOf
      <4> QED BY <1>4, <3>1, <4>6 DEF Fits, SendKept
    <3> QED BY <3>2, <3>3
  <2>3. \A i \in DOMAIN wire' : \E x \in Requests : wire'[i] = x /\ Fits(x)' /\ SendKept(x)'
    <3> SUFFICES ASSUME NEW i \in DOMAIN wire PROVE \E x \in Requests : wire'[i] = x /\ Fits(x)' /\ SendKept(x)'
      BY <1>3
    <3>1. CASE i = 1
      BY <1>3, <2>1, <3>1
    <3>2. CASE i # 1
      <4>1. PICK x \in Requests : x = wire[i]
        BY <1>1
      <4> QED BY <1>3, <2>2, <3>2, <4>1
    <3> QED BY <3>1, <3>2
  <2>4. \A i, j \in DOMAIN wire' : i # j /\ wire'[i].by \in Calls => wire'[j].by # wire'[i].by
    <3>1. \A i \in DOMAIN wire : wire'[i].by = wire[i].by
      BY <1>3
    <3> QED BY <1>1, <1>3, <3>1 DEF WireInv
  <2> QED BY <1>3, <2>3, <2>4, WireNext
<1>11. TokenInv'
  <2> SUFFICES ASSUME worker = "up", NEW d \in tokens' PROVE Doomed(d)' \/ Meant(d)'
    BY <1>4 DEF TokenInv
  <2>1. CASE wire[1].op = "prepare" /\ ok /\ d = wire[1].for
    BY <1>3, <2>1 DEF Meant
  <2>2. CASE d \in tokens
    <3>1. Doomed(d) \/ Meant(d)
      BY <2>2 DEF ActionInv, TokenInv
    <3>2. wire[1].op \in {"cancel", "send"} => d # wire[1].for
      BY <1>2
    <3>3. CASE Doomed(d)
      <4>1. PICK i \in DOMAIN wire : wire[i].op = "cancel" /\ wire[i].for = d /\ ~wire[i].ran
        BY <3>3 DEF Doomed
      <4>2. i # 1 /\ wire'[i] = wire[i] /\ i \in DOMAIN wire'
        BY <1>3, <3>2, <4>1
      <4> QED BY <4>1, <4>2 DEF Doomed
    <3>4. CASE prep[d] = "ready"
      BY <1>4, <3>4 DEF Meant
    <3>5. ASSUME NEW i \in DOMAIN wire,
                 \/ wire[i].op = "prepare" /\ wire[i].for = d /\ wire[i].ran /\ wire[i].ok
                 \/ wire[i].op = "send" /\ wire[i].for = d /\ ~wire[i].ran
          PROVE  Meant(d)'
      <4>1. i # 1 /\ wire'[i] = wire[i] /\ i \in DOMAIN wire'
        BY <1>1, <1>3, <3>2, <3>5
      <4> QED BY <3>5, <4>1 DEF Meant
    <3> QED BY <3>1, <3>3, <3>4, <3>5 DEF Meant
  <2> QED BY <1>2, <2>1, <2>2
<1> QED BY <1>7, <1>8, <1>9, <1>10, <1>11 DEF ActionInv

-----------------------------------------------------------------------------
(* A request arrives.                                                        *)

\* A call that never came as far as the queue has done nothing and has nothing anywhere.
LEMMA IdleFacts ==
    ASSUME ActionInv, NEW c \in Calls, pc[c] = "idle"
    PROVE  /\ TypeOK /\ CallInv(c) /\ prep[c] = "none" /\ receipts[c] = <<>> /\ ran[c] = <<>> /\ At(c) = 1
           /\ \A i \in DOMAIN tail : tail[i] # c
           /\ \A e \in Requests : Fits(e) /\ e.for = c => e.op \notin DOMAIN PlaceOf \cup {"cancel"}
<1>1. TypeOK /\ CallInv(c)
  BY DEF ActionInv
<1>2. receipts[c] = <<>> /\ ran[c] = <<>>
  BY <1>1 DEF CallInv, ReceiptInv, DeliveryInv, Outside
<1>3. prep[c] = "none"
  BY <1>1, CallTypes DEF CallInv, KindInv
<1>4. \A i \in DOMAIN tail : tail[i] # c
  BY DEF ActionInv, QueueInv, Queued, Begun, Waiting
<1>5. ASSUME NEW e \in Requests, Fits(e), e.for = c PROVE e.op \notin DOMAIN PlaceOf \cup {"cancel"}
  BY <1>5 DEF Fits, PlaceOf, Cancellable, Settled
<1>6. At(c) = 1
  BY <1>2 DEF At
<1> QED BY <1>1, <1>2, <1>3, <1>4, <1>5, <1>6

\* A call moves away from where nothing is known of it: the requests and what the worker
\* holds are the others'.
LEMMA Arrives ==
    ASSUME ActionInv, NEW c \in Calls, pc[c] = "idle", \A d \in Calls \ {c} : Untouched(d),
           TypeOK', QueueInv', CallInv(c)', prep'[c] = prep[c],
           UNCHANGED <<state, allowed, version, receipts, npc, drains, wire, worker, tokens, ran>>,
           \A d \in Calls \ {c} : pc[d] \notin Outside => requests'[Id[d]] = requests[Id[d]]
    PROVE  ActionInv'
<1>1. TypeOK /\ WireInv
  BY DEF ActionInv
<1>2. \A d \in Calls : CallInv(d)'
  BY CallKept DEF ActionInv
<1>3. WireInv'
  <2>1. wire' \in Seq(Requests)
    BY <1>1 DEF TypeOK
  <2>2. ASSUME NEW i \in DOMAIN wire PROVE \E e \in Requests : wire[i] = e /\ Fits(e)' /\ SendKept(e)'
    <3>1. PICK e \in Requests : e = wire[i]
      BY <1>1 DEF TypeOK
    <3>2. Fits(e) /\ SendKept(e)
      BY <1>1, <3>1 DEF WireInv
    <3>3. CASE e.for = c
      <4>1. e.op \notin DOMAIN PlaceOf \cup {"cancel"} /\ "send" \in DOMAIN PlaceOf /\ "act" \in DOMAIN PlaceOf
        BY <3>2, <3>3, IdleFacts DEF PlaceOf
      <4>2. Fits(e)' /\ SendKept(e)'
        BY <3>2, <4>1 DEF Fits, SendKept
      <4> QED BY <3>1, <4>2
    <3>4. CASE e.for # c
      BY <3>1, <3>2, <3>4, FitsKept
    <3> QED BY <3>3, <3>4
  <2>3. \A i, j \in DOMAIN wire : i # j /\ wire[i].by \in Calls => wire[j].by # wire[i].by
    BY <1>1 DEF WireInv
  <2> QED BY <2>1, <2>2, <2>3, WireNext
<1>4. NarrowInv'
  BY DEF ActionInv, NarrowInv
<1>5. TokenInv'
  <2>1. \A d \in Calls : prep'[d] = prep[d]
    BY DEF Untouched
  <2>2. tokens \subseteq Calls
    BY <1>1 DEF TypeOK
  <2> QED BY <2>1, <2>2 DEF ActionInv, TokenInv, Doomed, Meant
<1> QED BY <1>2, <1>3, <1>4, <1>5 DEF ActionInv

\* An act request is refused, joins an earlier one, or takes its identity and queues.
LEMMA ActKeeps == ASSUME ActionInv, NEW c \in Calls, Act(c) PROVE ActionInv'
<1> USE DEF prepVars, personVars, workerVars, historyVars
<1>1. /\ TypeOK /\ QueueInv /\ CallInv(c) /\ pc[c] = "idle" /\ prep[c] = "none" /\ receipts[c] = <<>> /\ ran[c] = <<>> /\ At(c) = 1
      /\ \A i \in DOMAIN tail : tail[i] # c
  BY IdleFacts DEF Act, ActionInv
<1>2. PICK p \in {"refused", "joined", "conflict", "queued", "turn"} :
        /\ pc' = [pc EXCEPT ![c] = p]
        /\ p \in {"refused", "joined", "conflict"} => UNCHANGED <<requests, tail>>
        /\ p \in {"queued", "turn"} => /\ tail' = Append(tail, c) /\ requests[Id[c]] = None /\ Remember(c)
        /\ p = "queued" => c \in Batches
        /\ p = "turn" => c \notin Batches
  BY DEF Act
<1>3. UNCHANGED <<state, allowed, version, receipts, seen, epochAt, prep, epoch, npc, drains, pausing, pauses,
                  wire, worker, tokens, ran, journal, judged>>
  BY DEF Act
<1>4. pc'[c] = p /\ pc' \in [Calls -> Places] /\ \A d \in Calls \ {c} : pc'[d] = pc[d]
  BY <1>1, <1>2 DEF TypeOK, Places, Settled
<1>5. \A d \in Calls \ {c} : Untouched(d)
  BY <1>3, <1>4 DEF Untouched
<1>6. /\ requests' \in [RequestIds -> Calls \cup {None}]
      /\ p \in {"queued", "turn"} => requests'[Id[c]] = c
      /\ \A d \in Calls \ {c} : pc[d] \notin Outside => requests'[Id[d]] = requests[Id[d]]
  <2>1. requests \in [RequestIds -> Calls \cup {None}] /\ \A d \in Calls : Id[d] \in RequestIds
    BY <1>1, ActionAssumption DEF TypeOK
  <2>2. CASE p \in {"refused", "joined", "conflict"}
    BY <1>2, <2>1, <2>2
  <2>3. CASE p \in {"queued", "turn"}
    <3>1. requests' = [requests EXCEPT ![Id[c]] = c] /\ requests[Id[c]] = None
      BY <1>2, <2>3 DEF Remember
    <3>2. \A d \in Calls \ {c} : pc[d] \notin Outside => Id[d] # Id[c]
      BY <3>1, ActionAssumption DEF ActionInv, CallInv, IdentityInv
    <3> QED BY <2>1, <3>1, <3>2
  <2> QED BY <2>2, <2>3
<1>7. tail' \in Seq(Calls) /\ QueueInv'
  <2>0. tail \in Seq(Calls) /\ Begun \subseteq Queued
    BY <1>1 DEF TypeOK, Queued
  <2>1. CASE p \in {"refused", "joined", "conflict"}
    <3>1. p \notin Queued /\ pc[c] \notin Queued
      BY <1>1, <2>1 DEF Queued, Begun, Waiting
    <3> QED BY <1>1, <1>2, <1>4, <2>0, <2>1, <3>1 DEF QueueInv
  <2>2. CASE p \in {"queued", "turn"}
    <3>1. /\ tail' \in Seq(Calls) /\ DOMAIN tail' = 1..(Len(tail) + 1) /\ DOMAIN tail = 1..Len(tail) /\ Len(tail) \in Nat
          /\ \A i \in DOMAIN tail : tail'[i] = tail[i]
          /\ tail'[Len(tail) + 1] = c
      BY <1>2, <2>0, <2>2, Longer
    <3>2. p \in Queued /\ p \notin Begun
      BY <2>2 DEF Queued, Begun, Waiting
    <3>3. \A i \in DOMAIN tail' : i \in DOMAIN tail \/ i = Len(tail) + 1
      BY <3>1
    <3>4. \A i \in DOMAIN tail : i \in DOMAIN tail' /\ i # Len(tail) + 1
      BY <3>1
    <3>5. \A i, j \in DOMAIN tail' : i # j => tail'[i] # tail'[j]
      BY <1>1, <3>1, <3>3, <3>4 DEF QueueInv
    <3>6. ASSUME NEW d \in Calls PROVE pc'[d] \in Queued <=> \E i \in DOMAIN tail' : tail'[i] = d
      <4>1. CASE d = c
        <5>1. Len(tail) + 1 \in DOMAIN tail'
          BY <3>1
        <5> QED BY <1>4, <3>1, <3>2, <4>1, <5>1
      <4>2. CASE d # c
        BY <1>1, <1>4, <3>1, <3>3, <3>4, <4>2 DEF QueueInv
      <4> QED BY <4>1, <4>2
    <3>7. ASSUME NEW d \in Calls, pc'[d] \in Begun PROVE tail' # <<>> /\ tail'[1] = d
      <4>1. d # c /\ pc[d] \in Begun
        BY <1>4, <3>2, <3>7
      <4>2. tail # <<>> /\ tail[1] = d
        BY <1>1, <4>1 DEF QueueInv
      <4>3. 1 \in DOMAIN tail
        BY <2>0, <4>2, Rest
      <4> QED BY <3>1, <4>2, <4>3
    <3> QED BY <3>1, <3>5, <3>6, <3>7 DEF QueueInv
  <2> QED BY <2>1, <2>2
<1>8. TypeOK'
  BY <1>1, <1>3, <1>4, <1>6, <1>7 DEF TypeOK
<1>9. CallInv(c)'
  <2>0. /\ At(c)' = 1 /\ Len(receipts[c]) = 0 /\ DOMAIN receipts[c] = {} /\ DOMAIN ran[c] = {}
        /\ Len(Actions[c]) \in Nat /\ Len(Actions[c]) > 0
    BY <1>1, <1>3, CallTypes DEF At
  <2>1. JudgedInv(c)' /\ KindInv(c)' /\ IdentityInv(c)'
    BY <1>1, <1>2, <1>3, <1>4, <1>6 DEF CallInv, JudgedInv, KindInv, IdentityInv, Outside
  <2>2. ReceiptInv(c)'
    BY <1>1, <1>2, <1>3, <1>4, <2>0 DEF ReceiptInv
  <2>3. DeliveryInv(c)'
    BY <1>1, <1>2, <1>3, <1>4, <2>0, DeliveriesKept DEF CallInv
  <2> QED BY <2>1, <2>2, <2>3 DEF CallInv
<1> QED BY <1>1, <1>3, <1>5, <1>6, <1>7, <1>8, <1>9, Arrives

\* The invariant holds when the session begins.
LEMMA Begins == ASSUME Init PROVE ActionInv
<1>1. TypeOK
  <2>1. <<>> \in Seq(Calls) /\ <<>> \in Seq(Marks) /\ <<>> \in Seq(Nat) /\ <<>> \in Seq(Requests)
    OBVIOUS
  <2>2. pc \in [Calls -> Places] /\ npc \in [Narrows -> {"absent", "idle", "draining", "acked"}]
    BY DEF Init, Places
  <2> QED BY <2>1, <2>2, ActionAssumption DEF Init, TypeOK
<1>2. /\ \A c \in Calls : pc[c] \in {"absent", "idle"} /\ receipts[c] = <<>> /\ ran[c] = <<>> /\ journal[c] = <<>>
                          /\ prep[c] = "none" /\ seen[c] = 0
      /\ \A n \in Narrows : npc[n] \in {"absent", "idle"}
      /\ tail = <<>> /\ wire = <<>> /\ tokens = {} /\ version = 0 /\ DOMAIN <<>> = {} /\ Len(<<>>) = 0
  BY DEF Init
<1>3. QueueInv
  BY <1>2 DEF QueueInv, Queued, Begun, Waiting
<1>4. ASSUME NEW c \in Calls PROVE CallInv(c)
  <2>1. JudgedInv(c) /\ KindInv(c) /\ IdentityInv(c)
    BY <1>2 DEF JudgedInv, KindInv, IdentityInv, Outside
  <2>2. Len(Actions[c]) \in Nat
    BY <1>1, CallTypes
  <2>3. ReceiptInv(c)
    BY <1>2, <2>2 DEF ReceiptInv, Ahead
  <2>4. DeliveryInv(c)
    BY <1>2 DEF DeliveryInv, Increasing
  <2> QED BY <2>1, <2>3, <2>4 DEF CallInv
<1>5. WireInv /\ NarrowInv /\ TokenInv
  BY <1>2 DEF WireInv, NarrowInv, TokenInv
<1> QED BY <1>1, <1>3, <1>4, <1>5 DEF ActionInv

-----------------------------------------------------------------------------
(* The invariant, and what it says.                                          *)

\* A step that changes nothing keeps the invariant.
LEMMA StutterKeeps == ASSUME ActionInv, UNCHANGED vars PROVE ActionInv'
<1> USE DEF vars, sessionVars, jobVars, prepVars, personVars, workerVars, historyVars
<1>1. TypeOK /\ WireFrom(wire) /\ wire' = wire
  BY DEF ActionInv, WireFrom
<1>2. TypeOK'
  BY <1>1 DEF TypeOK
<1>3. NarrowInv' /\ (Open => Open')
  BY DEF ActionInv, NarrowInv, Open
<1>4. \A j \in DOMAIN wire : SendKept(wire[j]) => \A e \in Requests : e = wire[j] => SendKept(e)'
  BY SendsStay
<1>5. Request("pause", "pause", None) \in Requests /\ Request("pause", "pause", None).by \notin Calls
  BY PersonRequest
<1> QED BY <1>1, <1>2, <1>3, <1>4, <1>5, Quiet

\* Every step keeps the invariant.
LEMMA StepKeeps == ASSUME ActionInv, [Next]_vars PROVE ActionInv'
<1>1. ASSUME NEW c \in Calls, Act(c) \/ JobStep(c) PROVE ActionInv'
  BY <1>1, ActKeeps, JobStepKeeps
<1>2. CASE WorkerStep
  BY <1>2, WorkerRunsKeeps, PrepareAnsweredKeeps, CancelAnsweredKeeps, InputAnsweredKeeps, FrameAnsweredKeeps,
     PauseAnsweredKeeps, ResumeAnsweredKeeps, WorkerExitsKeeps DEF WorkerStep
<1>3. ASSUME NEW n \in Narrows, Narrow(n) \/ NarrowAcked(n) PROVE ActionInv'
  BY <1>3, NarrowKeeps, NarrowAckedKeeps
<1>4. CASE Pause \/ PauseDrained \/ PauseRejected \/ Resume \/ StopEnds
  BY <1>4, PersonStepsKeep
<1>5. CASE Stop \/ StopDrained
  BY <1>5, StopKeeps, StopDrainedKeeps
<1>6. CASE UNCHANGED vars
  BY <1>6, StutterKeeps
<1> QED BY <1>1, <1>2, <1>3, <1>4, <1>5, <1>6 DEF Next

\* The inductive invariant holds in every reachable state: the queue, the wire, the policy
\* a job holds, the narrows and the worker's preparations fit one another.
THEOREM ActionInvariant == Spec => []ActionInv
<1>1. Init => ActionInv
  BY Begins
<1>2. ActionInv /\ [Next]_vars => ActionInv'
  BY StepKeeps
<1> QED BY <1>1, <1>2, PTL DEF Spec

\* The invariant says that what a narrow revoked or a job gave up is gone from the worker.
LEMMA HeldInState == ASSUME ActionInv PROVE PreparationsHeld
<1>1. TypeOK
  BY DEF ActionInv
<1>2. NarrowHolds
  <2> SUFFICES ASSUME NEW i \in DOMAIN wire, NEW n \in Narrows, wire[i].op = "send", npc[n] = "acked"
               PROVE  Actions[wire[i].for][At(wire[i].for)].class \in Keep[n]
    BY DEF NarrowHolds
  <2>1. SendKept(wire[i])
    BY DEF ActionInv, WireInv
  <2> QED BY <2>1 DEF SendKept, Now
<1>3. NoStrayToken
  <2> SUFFICES ASSUME worker = "up", NEW c \in tokens
               PROVE  (tail # <<>> /\ Head(tail) = c) \/ \E i \in DOMAIN wire : wire[i].op = "cancel" /\ wire[i].for = c
    BY DEF NoStrayToken
  <2>1. c \in Calls /\ (Doomed(c) \/ Meant(c))
    BY <1>1 DEF ActionInv, TokenInv, TypeOK
  <2>2. CASE Doomed(c)
    BY <2>2 DEF Doomed
  <2>3. CASE Meant(c)
    <3>1. tail # <<>> => Head(tail) = tail[1]
      BY <1>1, RestOfTail
    <3>2. CASE prep[c] = "ready"
      BY <2>1, <3>1, <3>2, HolderFirst
    <3>3. ASSUME NEW i \in DOMAIN wire, wire[i].op \in {"prepare", "send"}, wire[i].for = c
          PROVE  tail # <<>> /\ tail[1] = c
      <4>1. Fits(wire[i])
        BY DEF ActionInv, WireInv
      <4>2. pc[c] \in Begun
        BY <3>3, <4>1 DEF Fits, PlaceOf, Begun, Waiting
      <4> QED BY <2>1, <4>2 DEF ActionInv, QueueInv
    <3> QED BY <2>3, <3>1, <3>2, <3>3 DEF Meant
  <2> QED BY <2>1, <2>2, <2>3
<1> QED BY <1>1, <1>2, <1>3 DEF PreparationsHeld

\* The invariant says that receipts are true and that an identity is executed once.
LEMMA ExactInState == ASSUME ActionInv PROVE ReceiptsExact
<1>1. ReceiptsTrue
  <2> SUFFICES ASSUME NEW c \in Calls
               PROVE  /\ \A k \in DOMAIN receipts[c] :
                            /\ receipts[c][k] = "ok" => k \in DeliveredActions(c)
                            /\ receipts[c][k] \in {"refused", "skipped"} => k \notin DeliveredActions(c)
                            /\ \A j \in 1..(k - 1) : receipts[c][j] # "ok" => receipts[c][k] = "skipped"
                      /\ pc[c] \in {"refused", "conflict", "joined"} =>
                            ran[c] = <<>> /\ \A i \in DOMAIN wire : wire[i].op \in {"act", "send"} => wire[i].for # c
    BY DEF ReceiptsTrue
  <2>1. ReceiptInv(c) /\ DeliveryInv(c)
    BY DEF ActionInv, CallInv
  <2>2. ASSUME pc[c] \in {"refused", "conflict", "joined"}, NEW i \in DOMAIN wire, wire[i].op \in {"act", "send"}
        PROVE  wire[i].for # c
    <3>1. Fits(wire[i])
      BY DEF ActionInv, WireInv
    <3> QED BY <2>2, <3>1 DEF Fits, PlaceOf
  <2>3. pc[c] \in {"refused", "conflict", "joined"} => ran[c] = <<>>
    BY <2>1 DEF DeliveryInv, Outside
  <2> QED BY <2>1, <2>2, <2>3 DEF ReceiptInv
<1>2. OnceOnly
  <2>1. ASSUME NEW c \in Calls
        PROVE  /\ Increasing(ran[c]) /\ Increasing(journal[c])
               /\ DeliveredActions(c) \subseteq {journal[c][i] : i \in DOMAIN journal[c]}
    BY DEF ActionInv, CallInv, DeliveryInv, DeliveredActions
  <2>2. ASSUME NEW c \in Calls, NEW d \in Calls \ {c}, Id[c] = Id[d], ran[c] # <<>> PROVE ran[d] = <<>>
    <3>1. requests[Id[c]] = c
      BY <2>2 DEF ActionInv, CallInv, DeliveryInv, IdentityInv
    <3>2. pc[d] \in Outside
      BY <2>2, <3>1 DEF ActionInv, CallInv, IdentityInv
    <3> QED BY <3>2 DEF ActionInv, CallInv, DeliveryInv
  <2> QED BY <2>1, <2>2 DEF OnceOnly
<1> QED BY <1>1, <1>2 DEF ReceiptsExact

\* What a narrow acknowledged or a job gave up is gone from the worker, however the
\* prepares, sends and cancels crossed (cancelPreparedActions, finishCancel).
THEOREM PreparationsAreHeld == Spec => []PreparationsHeld
<1>1. ActionInv => PreparationsHeld
  BY HeldInState
<1> QED BY <1>1, ActionInvariant, PTL

\* What the agent is told of a request is what was done of it, once (runBatch, batch).
THEOREM ReceiptsAreExact == Spec => []ReceiptsExact
<1>1. ActionInv => ReceiptsExact
  BY ExactInState
<1> QED BY <1>1, ActionInvariant, PTL

-----------------------------------------------------------------------------
(* What a dispatch rests on.                                                 *)

\* A request of a job goes to the worker.
Hand == {"sending", "baseline", "capturing"}

\* Only the job that moves can have handed anything over.
LEMMA OnlyTheMover ==
    ASSUME TypeOK, NEW c \in Calls, NEW p, pc' = [pc EXCEPT ![c] = p], NEW d \in Calls, HandedOver(d, Hand)
    PROVE  d = c /\ pc'[d] = p /\ p \in Hand
BY DEF TypeOK, HandedOver

\* A refusal hands nothing over.
LEMMA RefusedHands == ASSUME NEW c \in Calls, NEW w, ActionRefused(c, w)
                      PROVE \E p \in Places \ Hand : pc' = [pc EXCEPT ![c] = p]
<1>1. CASE c \in Batches
  BY <1>1 DEF ActionRefused, Hand, Places
<1>2. CASE c \notin Batches
  BY <1>2 DEF ActionRefused, GiveUp, Finish, Hand, Places, Waiting, Settled
<1> QED BY <1>1, <1>2

\* The end of a job hands nothing over.
LEMMA FinishHands == ASSUME NEW c \in Calls, NEW outcome \in Settled, Finish(c, outcome)
                     PROVE \E p \in Places \ Hand : pc' = [pc EXCEPT ![c] = p]
BY DEF Finish, Hand, Places, Settled

\* The policy in force allows what the step hands over, and the advisor's allow is for it.
Justified(d) ==
    /\ pc'[d] = "sending" =>
          /\ Now(d).class \in allowed
          /\ Now(d).class \in Consulted => judged'[d] = version
    /\ pc'[d] \in {"baseline", "capturing"} => Read \in allowed

\* What the job that hands something over had just established.
LEMMA HandingJobs ==
    ASSUME ActionInv, NEW c \in Calls, Act(c) \/ JobStep(c), NEW d \in Calls, HandedOver(d, Hand)
    PROVE  Justified(d)
<1> USE DEF Justified
<1>0. TypeOK /\ CallInv(d)
  BY DEF ActionInv
<1>1. ASSUME NEW p \in Places \ Hand, pc' = [pc EXCEPT ![c] = p] PROVE FALSE
  BY <1>0, <1>1, OnlyTheMover
<1>2. UNCHANGED pc => FALSE
  BY DEF HandedOver
<1>3. CASE Act(c)
  <2>1. \E p \in Places \ Hand : pc' = [pc EXCEPT ![c] = p]
    BY <1>3 DEF Act, Places, Hand, Settled
  <2> QED BY <1>1, <2>1
<1>4. CASE JobClosed(c) \/ RequestLost(c)
  <2>1. "failed" \in Settled /\ Finish(c, "failed")
    BY <1>4 DEF JobClosed, RequestLost, Settled
  <2> QED BY <1>1, <2>1, FinishHands
<1>5. CASE BatchPaused(c)
  BY <1>2, <1>5 DEF BatchPaused
<1>6. CASE SemanticStarts(c) \/ UsageAnswered(c)
  <2>1. \E p \in Places \ Hand : pc' = [pc EXCEPT ![c] = p]
    <3>1. ActionRefused(c, wire) \/ pc' = [pc EXCEPT ![c] = "usage"] \/ pc' = [pc EXCEPT ![c] = "preparing"]
      BY <1>6 DEF SemanticStarts, UsageAnswered
    <3>2. {"usage", "preparing"} \subseteq Places \ Hand
      BY DEF Places, Hand, Waiting
    <3> QED BY <3>1, <3>2, RefusedHands
  <2> QED BY <1>1, <2>1
<1>7. CASE Baseline(c)
  <2>1. PICK p \in {"baseline", "turn"} : pc' = [pc EXCEPT ![c] = p] /\ (p = "baseline" => Decision(Read) = "allow")
    BY <1>7 DEF Baseline
  <2>2. pc'[d] = "baseline" /\ Decision(Read) = "allow"
    BY <1>0, <2>1, OnlyTheMover DEF Hand
  <2> QED BY <2>2 DEF Decision
<1>8. CASE BatchEnds(c)
  <2>1. CASE pc' = [pc EXCEPT ![c] = "capturing"] /\ Decision(Read) = "allow"
    <3>1. pc'[d] = "capturing" /\ Read \in allowed
      BY <1>0, <2>1, OnlyTheMover DEF Decision
    <3> QED BY <3>1
  <2>2. ASSUME NEW outcome \in {"done", "failed"}, Finish(c, outcome) PROVE FALSE
    <3>1. outcome \in Settled
      BY DEF Settled
    <3> QED BY <1>1, <2>2, <3>1, FinishHands
  <2> QED BY <1>8, <2>1, <2>2 DEF BatchEnds
<1>9. CASE PlainTurn(c)
  <2>1. CASE ActionRefused(c, wire)
    BY <1>1, <2>1, RefusedHands
  <2>2. CASE pc' = [pc EXCEPT ![c] = "consulting"]
    <3>1. "consulting" \in Places \ Hand
      BY DEF Places, Hand
    <3> QED BY <1>1, <2>2, <3>1
  <2>3. CASE Decision(Now(c).class) = "allow" /\ SendPlain(c)
    <3>1. d = c /\ pc'[d] = "sending"
      BY <1>0, <2>3, OnlyTheMover DEF SendPlain
    <3> QED BY <2>3, <3>1 DEF Decision
  <2> QED BY <1>9, <2>1, <2>2, <2>3 DEF PlainTurn
<1>10. CASE AdvisorAnswered(c)
  <2>1. CASE ActionRefused(c, wire)
    BY <1>1, <2>1, RefusedHands
  <2>2. CASE StillJudged(c) /\ pc' = [pc EXCEPT ![c] = "usage2"]
    <3>1. "usage2" \in Places \ Hand
      BY DEF Places, Hand
    <3> QED BY <1>1, <2>2, <3>1
  <2>3. CASE StillJudged(c) /\ SendPlain(c) /\ judged' = [judged EXCEPT ![c] = seen[c]]
    <3>1. d = c /\ pc'[d] = "sending"
      BY <1>0, <2>3, OnlyTheMover DEF SendPlain
    <3>2. judged'[d] = version /\ Now(d).class \in allowed
      BY <1>0, <2>3, <3>1 DEF StillJudged, Decision, TypeOK
    <3> QED BY <3>1, <3>2
  <2> QED BY <1>10, <2>1, <2>2, <2>3 DEF AdvisorAnswered
<1>11. CASE SendSemantic(c)
  <2>1. CASE ActionRefused(c, wire)
    BY <1>1, <2>1, RefusedHands
  <2>2. CASE seen[c] = version /\ pc' = [pc EXCEPT ![c] = "sending"]
    <3>1. d = c /\ pc'[d] = "sending" /\ pc[d] = "usage2" /\ judged' = judged
      BY <1>0, <1>11, <2>2, OnlyTheMover DEF SendSemantic, MyTurn, historyVars
    <3> QED BY <1>0, <2>2, <3>1 DEF CallInv, JudgedInv
  <2> QED BY <1>11, <2>1, <2>2 DEF SendSemantic
<1> QED BY <1>3, <1>4, <1>5, <1>6, <1>7, <1>8, <1>9, <1>10, <1>11 DEF JobStep

\* No other step hands anything over.
LEMMA OthersHandNothing ==
    ASSUME ActionInv, NEW d \in Calls, HandedOver(d, Hand),
           \/ WorkerStep \/ Pause \/ PauseDrained \/ PauseRejected \/ Resume \/ Stop \/ StopDrained \/ StopEnds
           \/ \E n \in Narrows : Narrow(n) \/ NarrowAcked(n)
    PROVE  FALSE
<1>0. TypeOK
  BY DEF ActionInv
<1>1. ASSUME NEW c \in Calls, NEW p \in Places \ Hand, pc' = [pc EXCEPT ![c] = p] PROVE FALSE
  BY <1>0, <1>1, OnlyTheMover
<1>2. UNCHANGED pc => FALSE
  BY DEF HandedOver
<1>3. CASE \/ Pause \/ PauseDrained \/ PauseRejected \/ Resume \/ Stop \/ StopDrained \/ StopEnds
           \/ \E n \in Narrows : Narrow(n) \/ NarrowAcked(n)
  BY <1>2, <1>3 DEF Pause, PauseDrained, PauseRejected, Resume, Stop, StopDrained, StopEnds, Narrow, NarrowAcked, jobVars
<1>4. CASE WorkerRuns \/ PauseAnswered \/ ResumeAnswered \/ WorkerExits
  BY <1>2, <1>4 DEF WorkerRuns, PauseAnswered, ResumeAnswered, WorkerExits, jobVars
<1>5. CASE PrepareAnswered
  <2>0. "prepare" \in DOMAIN PlaceOf /\ Replied("prepare")
    BY <1>5 DEF PrepareAnswered, PlaceOf
  <2>1. PICK c \in Calls : c = Head(wire).for
    BY <2>0, AnswerFacts
  <2>2. \/ ActionRefused(c, Tail(wire))
        \/ \E p \in {"revoking", "cancelling", "consulting", "usage2"} : pc' = [pc EXCEPT ![c] = p]
    BY <1>5, <2>1 DEF PrepareAnswered
  <2>3. {"revoking", "cancelling", "consulting", "usage2"} \subseteq Places \ Hand
    BY DEF Places, Hand, Waiting
  <2>4. \E p \in Places \ Hand : pc' = [pc EXCEPT ![c] = p]
    BY <2>2, <2>3, RefusedHands
  <2> QED BY <1>1, <2>4
<1>6. CASE CancelAnswered
  <2>1. CASE Head(wire).by \in Calls
    <3>1. Finish(Head(wire).by, "refused") /\ "refused" \in Settled
      BY <1>6, <2>1 DEF CancelAnswered, Settled
    <3> QED BY <1>1, <2>1, <3>1, FinishHands
  <2>2. CASE Head(wire).by \notin Calls
    BY <1>2, <1>6, <2>2 DEF CancelAnswered
  <2> QED BY <2>1, <2>2
<1>7. CASE InputAnswered \/ FrameAnswered
  <2>0. PICK op \in {"act", "send", "baseline", "observe"} : Replied(op)
    BY <1>7 DEF InputAnswered, FrameAnswered
  <2>1. PICK c \in Calls : c = Head(wire).for
    BY <2>0, AnswerFacts DEF PlaceOf
  <2>2. pc' = [pc EXCEPT ![c] = "turn"] \/ \E outcome \in {"done", "failed"} : Finish(c, outcome)
    BY <1>7, <2>1 DEF InputAnswered, FrameAnswered
  <2>3. "turn" \in Places \ Hand /\ {"done", "failed"} \subseteq Settled
    BY DEF Places, Hand, Settled
  <2>4. \E p \in Places \ Hand : pc' = [pc EXCEPT ![c] = p]
    BY <2>2, <2>3, FinishHands
  <2> QED BY <1>1, <2>4
<1> QED BY <1>3, <1>4, <1>5, <1>6, <1>7 DEF WorkerStep

\* Every dispatch rests on the policy and the judgement in force at that moment (admit,
\* guarded): whatever was decided when the request came, the class is allowed now, and an
\* action of a consulted class has the advisor's allow for the policy object now in force.
THEOREM DispatchIsExact == Spec => DispatchExact
<1> DEFINE P == \A c \in Calls :
                    /\ HandedOver(c, {"sending"}) => Now(c).class \in allowed
                    /\ HandedOver(c, {"baseline", "capturing"}) => Read \in allowed
           J == \A c \in Calls : HandedOver(c, {"sending"}) /\ Now(c).class \in Consulted => judged'[c] = version
<1>1. ASSUME ActionInv, [Next]_vars PROVE P /\ J
  <2>1. ASSUME NEW d \in Calls, HandedOver(d, Hand) PROVE Justified(d)
    <3>1. ASSUME NEW c \in Calls, Act(c) \/ JobStep(c) PROVE Justified(d)
      BY <1>1, <2>1, <3>1, HandingJobs
    <3>2. UNCHANGED vars => FALSE
      BY <2>1 DEF HandedOver, vars, jobVars
    <3> QED BY <1>1, <2>1, <3>1, <3>2, OthersHandNothing DEF Next
  <2>2. \A d \in Calls : \A S \in SUBSET Hand : HandedOver(d, S) => HandedOver(d, Hand) /\ pc'[d] \in S
    BY DEF HandedOver
  <2> QED BY <2>1, <2>2 DEF Hand, Justified
<1>2. Spec => [][P]_vars
  BY <1>1, ActionInvariant, PTL DEF Spec
<1>3. Spec => [][J]_vars
  BY <1>1, ActionInvariant, PTL DEF Spec
<1> QED BY <1>2, <1>3 DEF DispatchExact, DispatchObeysPolicy, AdvisorExact
=============================================================================
