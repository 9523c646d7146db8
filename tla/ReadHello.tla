------------------------------ MODULE ReadHello ------------------------------
(***************************************************************************)
(* The one-shot handshake of a read channel (native/read_channel_client.py,  *)
(* read_channel_server.py, read_peer.py).  The server accepts one connection *)
(* of its listener, pins who made it, reads one request, and acknowledges it *)
(* under the lock of its authority; the client pins who listens, says hello  *)
(* and believes the acknowledgement under the lock of its own.  Meanwhile    *)
(* both owners revoke and approve again, the name of the socket is replaced  *)
(* and restored, processes die and their numbers are used again, and either  *)
(* side runs out of time or is cancelled.                                    *)
(*                                                                         *)
(* Files, /proc and the socket are samples: a check is an action, and what   *)
(* rests on it is another.  As the code demands of its callers, descriptors  *)
(* are not passed on, and the wire holds one request of each connection.     *)
(***************************************************************************)
EXTENDS Naturals, Sequences

CONSTANTS Nil,
          MaxGens,      \* bound: generations of an authority
          MaxUpsets     \* bound: changes of the world, but for the clocks and locks

Sides == {"client", "server"}
Strangers == {"stranger", "silent"}     \* one that asks, and one that only connects
Callers == {"client"} \cup Strangers
Acks == [to : Callers, grant : 1 .. MaxGens \cup {Nil}, staged : 1 .. MaxGens, epoch : 1 .. MaxGens \cup {Nil}]

ASSUME HelloAssumption ==
    Nil \notin Nat \cup Callers \cup Acks /\ MaxGens \in Nat \ {0} /\ MaxUpsets \in Nat

VARIABLES place,   \* whose socket has the name: the server's or another
          other,   \* the process behind the other: absent, or its number
          up,      \* the two processes
          over,    \* the deadline has passed, or the side was cancelled
          auth,    \* the authority of each side: generation, and who holds its lock
          upsets,  \* changes of the world so far
          backlog, \* connections to the server's listener that are not accepted
          wire,    \* the client's connection
          client,  \* hello_once
          server,  \* serve_once
          ack      \* history: the acknowledgement, and what stood when it was sent

helloVars == <<place, other, up, over, auth, upsets, backlog, wire, client, server, ack>>

HelloTypeOK ==
    /\ place \in {"server", "other"} /\ other \in {"absent", "own", "reused"}
    /\ up \in [Sides -> BOOLEAN] /\ over \in [Sides -> BOOLEAN]
    /\ auth \in [Sides -> [gen : 1 .. MaxGens \cup {Nil}, last : 1 .. MaxGens,
                           lock : {"free", "call", "owner"}]]
    /\ upsets \in 0 .. MaxUpsets /\ backlog \in Seq(Callers) /\ Len(backlog) <= 2
    /\ wire \in [to : {"none", "server", "other"}, hello : BOOLEAN, reply : {"none", "part", "ack"},
                 ended : BOOLEAN]
    /\ client \in [step : {"start", "connect", "qualify", "lock", "hello", "wait", "relock", "final", "cleanup",
                           "last", "true", "refused"},
                   pin : {"server", "other", Nil}, epoch : 1 .. MaxGens \cup {Nil}]
    /\ server \in [step : {"start", "accept", "read", "lock", "final", "send", "close", "true", "refused"},
                   pin : {"server", "other", Nil}, peer : Callers \cup {Nil},
                   grant : 1 .. MaxGens \cup {Nil}]
    /\ ack \in Acks \cup {Nil}

----------------------------------------------------------------------------
(* The world *)

Upset == upsets < MaxUpsets /\ upsets' = upsets + 1

\* Another process, with a number of its own or that of the dead server.
OtherComes ==
    /\ Upset /\ other = "absent" /\ other' \in {"own"} \cup (IF up["server"] THEN {} ELSE {"reused"})
    /\ UNCHANGED <<place, up, over, auth, backlog, wire, client, server, ack>>
\* The entry is replaced, or the one of before restored.
Replaced ==
    /\ Upset /\ other # "absent" /\ place' \in {"server", "other"} \ {place}
    /\ UNCHANGED <<other, up, over, auth, backlog, wire, client, server, ack>>
\* The kernel closes what a dead process had open.
ProcessDies(s) ==
    /\ Upset /\ up[s] /\ up' = [up EXCEPT ![s] = FALSE]
    /\ wire' = [wire EXCEPT !.ended = @ \/ (s = "server" /\ wire.to = "server")]
    /\ UNCHANGED <<place, other, over, auth, backlog, client, server, ack>>
\* A deadline passes, or Event.set of the side's cancel.
Expires(s) ==
    /\ ~over[s] /\ over' = [over EXCEPT ![s] = TRUE]
    /\ UNCHANGED <<place, other, up, auth, upsets, backlog, wire, client, server, ack>>
StrangerConnects ==
    /\ Upset /\ place = "server" /\ up["server"]
    /\ Strangers \cap ({backlog[i] : i \in DOMAIN backlog} \cup {server.peer}) = {}
    /\ \E who \in Strangers : backlog' = Append(backlog, who)
    /\ UNCHANGED <<place, other, up, over, auth, wire, client, server, ack>>

\* The owner takes the lock, changes what it protects, and lets go or does not.
OwnerLocks(s) ==
    /\ auth[s].lock = "free" /\ auth' = [auth EXCEPT ![s].lock = "owner"]
    /\ UNCHANGED <<place, other, up, over, upsets, backlog, wire, client, server, ack>>
OwnerActs(s) ==
    /\ auth[s].lock = "owner" /\ up[s]
    /\ \/ auth' = [auth EXCEPT ![s].lock = "free"] /\ UNCHANGED upsets
       \/ Upset /\ auth[s].gen # Nil /\ auth' = [auth EXCEPT ![s].gen = Nil]
       \/ /\ Upset /\ auth[s].gen = Nil /\ auth[s].last < MaxGens
          /\ auth' = [auth EXCEPT ![s].gen = auth[s].last + 1, ![s].last = @ + 1]
    /\ UNCHANGED <<place, other, up, over, backlog, wire, client, server, ack>>
World ==
    \/ OtherComes \/ Replaced \/ StrangerConnects
    \/ \E s \in Sides : ProcessDies(s) \/ Expires(s) \/ OwnerLocks(s) \/ OwnerActs(s)

----------------------------------------------------------------------------
(* Checks of both sides *)

\* Mutant: who waits for the lock does not look at the clock.
LateUnlocked(s, step) == over[s] /\ step \notin {"lock", "relock"}
\* check, _check: the deadline and the cancel, at every round of every wait.
Late(s, step) == over[s]

Locks(s)   == auth[s].lock = "free" /\ auth' = [auth EXCEPT ![s].lock = "call"]
Unlocks(s) == auth' = [auth EXCEPT ![s].lock = IF @ = "call" THEN "free" ELSE @]

Done == {"true", "refused"}
Gone(s) == ~up[s] \/ (s = "client" /\ client.step \in Done)

----------------------------------------------------------------------------
(* hello_once *)

\* The number that the kernel noted of the listener, its pidfd, and the birth.
Expected(to) == to = "server" /\ up["server"]

\* verify_server.
ClientVerified == place = client.pin /\ Expected(wire.to)
\* Mutant: any approval will do.
StandsAgain == auth["client"].gen # Nil
\* epoch: the object of before.
Stands == auth["client"].gen = client.epoch
ClientSure == ~over["client"] /\ ClientVerified /\ Stands

ClientGoes(step) == client' = [client EXCEPT !.step = step]

\* The entry is pinned by its inode, the connection follows the name.
ClientBegins ==
    /\ client.step = "start" /\ ~over["client"] /\ auth["client"].gen # Nil
    /\ client' = [step |-> "connect", pin |-> place, epoch |-> auth["client"].gen]
    /\ UNCHANGED <<auth, backlog, wire>>
Connects ==
    /\ client.step = "connect" /\ (place = "server" => up["server"])
    /\ wire' = [wire EXCEPT !.to = place]
    /\ backlog' = IF place = "server" THEN Append(backlog, "client") ELSE backlog
    /\ ClientGoes("qualify") /\ UNCHANGED auth
Qualifies ==
    /\ client.step = "qualify" /\ ClientSure
    /\ ClientGoes("lock") /\ UNCHANGED <<auth, backlog, wire>>
ClientLocks ==
    /\ client.step \in {"lock", "relock"} /\ Locks("client")
    /\ ClientGoes(IF client.step = "lock" THEN "hello" ELSE "final") /\ UNCHANGED <<backlog, wire>>
\* The request, and the end of what the client writes.
SaysHello ==
    /\ client.step = "hello" /\ ClientSure
    /\ wire' = [wire EXCEPT !.hello = TRUE]
    /\ Unlocks("client") /\ ClientGoes("wait") /\ UNCHANGED backlog
\* The whole answer, and the end of it.
Hears ==
    /\ client.step = "wait" /\ wire.ended /\ wire.reply = "ack" /\ ClientSure
    /\ ClientGoes("relock") /\ UNCHANGED <<auth, backlog, wire>>
Believes ==
    /\ client.step = "final" /\ ClientSure
    /\ Unlocks("client") /\ ClientGoes("cleanup") /\ UNCHANGED <<backlog, wire>>
CleansUp ==
    /\ client.step = "cleanup" /\ ClientGoes("last") /\ UNCHANGED <<auth, backlog, wire>>
\* Everything is closed but the pidfd: the process and the epoch once more.
Returns ==
    /\ client.step = "last" /\ auth["client"].lock = "free"
    /\ ~over["client"] /\ Expected(wire.to) /\ Stands
    /\ ClientGoes("true") /\ UNCHANGED <<auth, backlog, wire>>

\* A check that fails; the connection is closed and the lock let go.
ClientRefuses ==
    /\ \/ client.step \notin Done /\ Late("client", client.step)
       \/ client.step = "start" /\ auth["client"].gen = Nil
       \/ client.step = "connect" /\ place = "server" /\ ~up["server"]
       \/ client.step \in {"qualify", "hello", "wait", "final"} /\ ~(ClientVerified /\ Stands)
       \/ client.step = "wait" /\ wire.ended /\ wire.reply # "ack"
       \/ client.step = "last" /\ auth["client"].lock = "free" /\ ~(Expected(wire.to) /\ Stands)
    /\ ClientGoes("refused") /\ Unlocks("client") /\ UNCHANGED <<backlog, wire>>
\* A system call fails, be it the one that closes a descriptor.
ClientFails ==
    /\ client.step \notin Done
    /\ ClientGoes("refused") /\ Unlocks("client") /\ UNCHANGED <<backlog, wire>>

ClientUp == up["client"] /\ UNCHANGED <<place, other, up, over, upsets, server, ack>>
ClientRuns ==
    /\ ClientUp
    /\ ClientBegins \/ Connects \/ Qualifies \/ ClientLocks \/ SaysHello \/ Hears \/ Believes
       \/ CleansUp \/ Returns \/ ClientRefuses

----------------------------------------------------------------------------
(* serve_once *)

\* OwnedPeer._verify.
ServerVerified == place = server.pin /\ (server.peer = "client" => up["client"])
\* authorize: the owner has approved of the client, by number and birth.
Authorized == IF server.peer = "client" THEN auth["server"].gen ELSE Nil
\* Mutant: any approval will do.
GrantedAgain == Authorized # Nil
\* The grant of before, by identity of its parts.
Granted == Authorized = server.grant

ServerGoes(step) == server' = [server EXCEPT !.step = step]
\* The connection is closed with the peer.
Hangs == wire' = [wire EXCEPT !.ended = @ \/ server.peer = "client"]

ServerBegins ==
    /\ server.step = "start" /\ ~over["server"]
    /\ server' = [server EXCEPT !.step = "accept", !.pin = place]
    /\ UNCHANGED <<auth, backlog, wire, ack>>
Accepts ==
    /\ server.step = "accept" /\ backlog # <<>> /\ ~over["server"] /\ place = server.pin
    /\ Head(backlog) = "client" => up["client"]
    /\ server' = [server EXCEPT !.step = "read", !.peer = Head(backlog)]
    /\ backlog' = Tail(backlog) /\ UNCHANGED <<auth, wire, ack>>
Asked == server.peer = "stranger" \/ (server.peer = "client" /\ wire.hello)
\* One request and nothing behind it, then the stage with what the owner says now.
Reads ==
    /\ server.step = "read" /\ Asked
    /\ Authorized # Nil /\ ~over["server"] /\ ServerVerified
    /\ server' = [server EXCEPT !.step = "lock", !.grant = Authorized]
    /\ UNCHANGED <<auth, backlog, wire, ack>>
ServerLocks ==
    /\ server.step = "lock" /\ Locks("server")
    /\ ServerGoes("final") /\ UNCHANGED <<backlog, wire, ack>>
Authorizes ==
    /\ server.step = "final" /\ Granted /\ ~over["server"] /\ ServerVerified
    /\ ServerGoes("send") /\ UNCHANGED <<auth, backlog, wire, ack>>
\* All of it, or a part, which is not sent again.
Sends ==
    /\ server.step = "send" /\ ~(server.peer = "client" /\ Gone("client"))
    /\ \E reply \in {"part", "ack"} :
        /\ wire' = [wire EXCEPT !.reply = reply, !.ended = reply = "part"]
        /\ ServerGoes(IF reply = "ack" THEN "close" ELSE "refused")
        /\ ack' = IF reply = "part" THEN ack
                  ELSE [to |-> server.peer, staged |-> server.grant, grant |-> auth["server"].gen,
                        epoch |-> auth["client"].gen]
    /\ Unlocks("server") /\ UNCHANGED backlog
Closes ==
    /\ server.step = "close" /\ Hangs
    /\ \E r \in Done : ServerGoes(r)          \* a descriptor that does not close
    /\ UNCHANGED <<auth, backlog, ack>>

ServerRefuses ==
    /\ \/ server.step \in {"start", "accept", "read", "lock", "final"} /\ Late("server", server.step)
       \/ server.step = "accept" /\ backlog # <<>> /\ (place # server.pin \/ (Head(backlog) = "client" /\ ~up["client"]))
       \/ server.step = "read" /\ server.peer = "client" /\ ~wire.hello /\ Gone("client")
       \/ server.step = "read" /\ Asked /\ ~(Authorized # Nil /\ ServerVerified)
       \/ server.step = "final" /\ ~(Granted /\ ServerVerified)
       \/ server.step = "send" /\ server.peer = "client" /\ Gone("client")
    /\ ServerGoes("refused") /\ Unlocks("server") /\ Hangs /\ UNCHANGED <<backlog, ack>>
ServerFails ==
    /\ server.step \notin Done \cup {"close"}
    /\ ServerGoes("refused") /\ Unlocks("server") /\ Hangs /\ UNCHANGED <<backlog, ack>>

ServerUp == up["server"] /\ UNCHANGED <<place, other, up, over, upsets, client>>
ServerRuns ==
    /\ ServerUp
    /\ ServerBegins \/ Accepts \/ Reads \/ ServerLocks \/ Authorizes \/ Sends \/ Closes \/ ServerRefuses

----------------------------------------------------------------------------
\* The two processes, should they exist.
HelloStarts(exist) ==
    /\ place = "server" /\ other = "absent" /\ up = [s \in Sides |-> exist] /\ over = [s \in Sides |-> ~exist]
    /\ auth = [s \in Sides |-> [gen |-> 1, last |-> 1, lock |-> "free"]]
    /\ upsets = 0 /\ backlog = <<>>
    /\ wire = [to |-> "none", hello |-> FALSE, reply |-> "none", ended |-> FALSE]
    /\ client = [step |-> "start", pin |-> Nil, epoch |-> Nil]
    /\ server = [step |-> "start", pin |-> Nil, peer |-> Nil, grant |-> Nil]
    /\ ack = Nil

HelloInit == HelloStarts(TRUE)
HelloNext == World \/ ClientRuns \/ ServerRuns \/ (ClientUp /\ ClientFails) \/ (ServerUp /\ ServerFails)

\* Both processes run and their clocks go on; no owner need let go of a lock.
Fairness ==
    /\ WF_helloVars(ClientRuns) /\ WF_helloVars(ServerRuns)
    /\ \A s \in Sides : WF_helloVars(Expires(s))
HelloSpec == HelloInit /\ [][HelloNext]_helloVars /\ Fairness

----------------------------------------------------------------------------
\* The hello goes to the process that was expected, though the socket's name or
\* the number of its process came to another (verify_server, _proc).
HelloMeant == wire.hello => wire.to = "server"
\* An acknowledgement goes to the one that was approved, under the grant its
\* request was staged with: not under one that was given anew in between.
AckMeant == ack # Nil => ack.to = "client" /\ ack.grant = ack.staged
\* A side that has returned holds no lock of its owner.
LocksReturned ==
    /\ client.step \in Done => auth["client"].lock # "call"
    /\ server.step \in Done \cup {"close"} => auth["server"].lock # "call"
\* What either side says is for the one that was meant and covered by its owner at
\* that moment, and no way out keeps the lock (hello_once, OwnedPeer.exchange_one).
HandshakeSound == HelloTypeOK /\ HelloMeant /\ AckMeant /\ LocksReturned

\* When the client returns true there was a moment at which both owners stood by
\* what they had said at the start: the one at which the server acknowledged.  A
\* server that returns true did acknowledge (hello_once, serve_once).
BothStood ==
    /\ client.step = "true" => /\ ack # Nil /\ wire.reply = "ack"
                               /\ ack.to = "client" /\ ack.epoch = client.epoch
    /\ server.step = "true" => ack # Nil

\* Neither side waits for ever, not for the other, for a stranger, or for a lock
\* whose owner keeps it (check, acquire, _check).
HandshakeEnds ==
    /\ <>(up["client"] => client.step \in Done)
    /\ <>(up["server"] => server.step \in Done)
=============================================================================
