------------------------------ MODULE MCBroker ------------------------------
(* The admission of the broker, and the inside of the openings it admits, on *)
(* small instances.  They share no state: a behaviour is one of the two.     *)
EXTENDS BrokerAdmission, OwnerOpening

CONSTANTS r1, r2, r3, o1, o2, o3, alice, bob, app, k1, k2, p1, p2, u1, u2, w0, w1, w2, none

VARIABLE part   \* which of them moves

allVars == <<part, vars, openingVars>>

\* The first two creates share a lease key when it is named.
MCCallerOf == [r \in Creates |-> IF r = r2 THEN bob ELSE alice]
MCAppOf == [r \in Creates |-> app]
MCProfileOf == [r \in Creates |-> IF r = r3 THEN p2 ELSE p1]
MCKeyOf == [o \in Opens |-> IF o = o3 THEN k2 ELSE k1]
MCWants == [o \in Opens |-> IF o = o1 THEN 1 ELSE 0]
MCMaxWaits == [r \in Creates |-> 1]
MCWorkspaces == 1..2

\* Creates that compete; openings that repeat and compete; one create and one opening
\* against an updater; two updaters against either.
MCMixes == {{r1, r2, r3}, {o1, o2, o3}, {r1, r2, o1, u1}, {r1, o1, o2, u1}, {r1, u1, u2}, {o2, u1, u2}}

\* One window of before, two new ones, one opening and its presentation.
MCWins == {w0, w1, w2}
MCSelections == {2, 3}

Nothing == [forks |-> 0, exits |-> 0, maps |-> 0, tokens |-> 0, closes |-> 0, focuses |-> 0, shows |-> 0,
            crossings |-> 0, calls |-> 1, refusals |-> 0, kills |-> 0, losses |-> 0]
Case(plugin, lua, bus, may) == [plugin |-> plugin, lua |-> lua, bus |-> bus, may |-> may]

MCCases == {
    \* A reply is given up, with or without the fallback of the launch.
    Case(TRUE, TRUE, FALSE, [Nothing EXCEPT !.maps = 1, !.tokens = 1, !.focuses = 1, !.exits = 1, !.losses = 1]),
    Case(TRUE, FALSE, FALSE, [Nothing EXCEPT !.maps = 1, !.tokens = 1, !.focuses = 1, !.exits = 1, !.losses = 1]),
    Case(TRUE, TRUE, FALSE, [Nothing EXCEPT !.maps = 2, !.tokens = 2, !.focuses = 1, !.losses = 2]),
    \* The server of the application maps windows of its own; no plugin.
    Case(TRUE, TRUE, TRUE, [Nothing EXCEPT !.maps = 2, !.tokens = 1, !.forks = 1, !.focuses = 2, !.shows = 1]),
    Case(TRUE, TRUE, TRUE, [Nothing EXCEPT !.maps = 2, !.tokens = 1, !.forks = 1, !.exits = 1, !.closes = 1]),
    Case(FALSE, TRUE, TRUE, [Nothing EXCEPT !.maps = 2, !.closes = 1, !.forks = 1, !.exits = 1]),
    \* Asked again, refused and killed, with a presentation.
    Case(TRUE, TRUE, FALSE, [Nothing EXCEPT !.calls = 3, !.refusals = 2, !.shows = 1, !.crossings = 1,
                                            !.kills = 1, !.losses = 1])}

MCInit ==
    \/ part = "admission" /\ Init /\ OpeningInit /\ ~desk.lua
    \/ part = "opening" /\ Init /\ pc[r3] = "new" /\ OpeningInit

MCNext ==
    \/ part = "admission" /\ Next /\ UNCHANGED <<part, openingVars>>
    \/ part = "opening" /\ OpeningNext /\ UNCHANGED <<part, vars>>

\* Only the admission is fair.
MCSpec == MCInit /\ [][MCNext]_allVars /\ Fairness
=============================================================================
