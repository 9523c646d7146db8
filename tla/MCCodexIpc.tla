----------------------------- MODULE MCCodexIpc -----------------------------
(* Instance of CodexIpc: two turns and their notes, pages of two clients, a text by IPC. *)
EXTENDS CodexIpc, TLC

Req(c, id, kind, safe) == [client |-> c, id |-> id, kind |-> kind, safe |-> safe]

CONSTANTS c1, c2, z1, sub, s1, s2, s3, n1, d1, m1, t1, t2, p1, p2, p3, a1, h1, u1, l1, l2, i1, i2, x1, x2, f1

MCAsked ==
    t1 :> Req(c1, "1", "turn", TRUE) @@ t2 :> Req(c1, "2", "turn", TRUE)
    @@ p1 :> Req(c1, "1", "page", TRUE) @@ p2 :> Req(c2, "1", "page", TRUE)
    @@ p3 :> Req(c1, "1", "section", TRUE) @@ a1 :> Req(c1, "1", "account", TRUE)
    @@ s1 :> Req(z1, "1", "hello", TRUE) @@ s2 :> Req(z1, "1", "key", TRUE)
    @@ s3 :> Req(z1, "2", "key", FALSE)
    @@ n1 :> Req(c2, "", "initialized", TRUE) @@ d1 :> Req(c2, "1", "read", FALSE)
    @@ m1 :> Req(c2, "2", "metadata", TRUE)
    @@ h1 :> Req(sub, "fixture-init", "read", TRUE) @@ u1 :> Req(sub, "fixture-turn", "turn", TRUE)

\* Two turns; pages whose id is used again; the state socket; an odd client; a text.
MCInstances == {{t1, t2}, {p1, p2, p3, a1}, {s1, s2, s3}, {n1, d1, m1}, {h1, u1}}

Frame(l, kind, to) == [link |-> l, kind |-> kind, to |-> to]
MCFramed == i1 :> Frame(l1, "initialize", None) @@ i2 :> Frame(l2, "initialize", None)
    @@ x1 :> Frame(l1, "text", "peer") @@ x2 :> Frame(l2, "text", "peer")
    @@ f1 :> Frame(l1, "follow", None)
\* A text of each of two links, or a text among the other frames of one.
MCFrameSets == {{i1, i2, x1, x2}, {i1, x1, f1}}
=============================================================================
