---------------------------- MODULE MCNativeLease ----------------------------
(* Two workers at one client: leases, approvals and repairs.               *)
EXTENDS NativeLease, TLC

CONSTANTS w1, w2, owner, none

MCWorkers == {w1, w2}

Case(mode, t1, t2, kills, losses, approvals, repairs, typing, ends) ==
    [mode |-> mode, todo |-> w1 :> t1 @@ w2 :> t2, kills |-> kills, losses |-> losses,
     approvals |-> approvals, repairs |-> repairs, typing |-> typing, ends |-> ends]

\* One session with everything that may happen to it; a claim that dies or is
\* cut off while repairs run; two workers that compete for the client; an
\* approval for two workers, one of which may crash; two approvals in one session.
MCCases == {
    Case("full", {"claim", "act", "pause", "resume", "handback"}, {}, 1, 1, 0, 0, 1, TRUE),
    Case("full", {"claim"}, {}, 1, 1, 0, 1, 0, FALSE),
    Case("full", {"claim"}, {"claim"}, 0, 0, 0, 0, 0, FALSE),
    Case("protected", {"claim"}, {"claim"}, 1, 0, 1, 0, 0, FALSE),
    Case("protected", {"claim", "act"}, {}, 1, 0, 2, 0, 0, FALSE)}
=============================================================================
