---------------------------- MODULE MCCompositor ----------------------------
(* What depends on the compositor plugin, on small instances: who owns it, and *)
(* an action that it carries out.  They share no state: a behaviour is one of  *)
(* the two.                                                                    *)
EXTENDS PluginOwner, SemanticDispatch, TLC

CONSTANTS p1, p2, t1, t2, none

VARIABLE part   \* which of them moves

allVars == <<part, vars, semanticVars>>

\* Two processes of the owner around three preparations.
MCProcs == {p1, p2}
MCBuilds == {"first", "second", "newer"}
MCAbi == "first" :> 1 @@ "second" :> 1 @@ "newer" :> 2

Case(verbs, refreshes, losses, kills, restarts, leases, abis, builds) ==
    [abi |-> 1, verbs |-> verbs, refreshes |-> refreshes, losses |-> losses, kills |-> kills,
     restarts |-> restarts, leases |-> leases, abis |-> abis, builds |-> builds]

MCCases == {
    \* One refresh and two commands: given up, killed, in use.
    Case(2, 1, 1, 1, 0, 1, {}, {"first"}),
    Case(1, 2, 1, 0, 0, 0, {}, {"first"}),
    \* Refreshes side by side, with a command, a kill or a new compositor.
    Case(1, 3, 0, 0, 0, 0, {}, {"first"}),
    Case(0, 3, 0, 1, 1, 0, {}, {"first", "second"}),
    Case(0, 3, 0, 0, 1, 0, {2}, {"first", "newer"}),
    Case(0, 3, 0, 0, 1, 0, {}, {"first", "second"})}

MCSymmetry == Permutations(MCProcs)

\* One or two preparations against a changing application.
MCTokens == {t1, t2}
MCRefs == {1, 2}

SemanticCase(k1, k2, acts, losses, expiries, deaths, stuck, observes, sends, pauses) ==
    [kind |-> t1 :> k1 @@ t2 :> k2, acts |-> acts, losses |-> losses, expiries |-> expiries,
     deaths |-> deaths, stuck |-> stuck, observes |-> observes, sends |-> sends, pauses |-> pauses]

MCSemanticCases == {
    \* The application changes and something is lost, around one send.
    SemanticCase("invoke", "click", 1, 1, 0, 0, 0, 1, 1, 0),
    \* The helper forgets, dies and is retired.
    SemanticCase("click", "invoke", 0, 1, 1, 1, 0, 1, 1, 1),
    \* Its process cannot be reaped.
    SemanticCase("click", "click", 0, 1, 0, 1, 1, 1, 0, 1),
    SemanticCase("click", "click", 0, 1, 0, 0, 1, 2, 1, 1),
    \* Two losses; a token sent twice.
    SemanticCase("invoke", "invoke", 0, 2, 0, 0, 0, 1, 1, 0),
    SemanticCase("invoke", "click", 0, 1, 0, 0, 0, 1, 2, 0)}

MCInit ==
    \/ part = "owner" /\ Init /\ SemanticInit /\ story.losses = 2
    \/ part = "dispatch" /\ Init /\ left.verbs = 2 /\ SemanticInit

MCNext ==
    \/ part = "owner" /\ Next /\ UNCHANGED <<part, semanticVars>>
    \/ part = "dispatch" /\ SemanticNext /\ UNCHANGED <<part, vars>>

MCSpec == MCInit /\ [][MCNext]_allVars
=============================================================================
