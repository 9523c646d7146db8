---------------------------- MODULE MCSmallParts ----------------------------
(* Three parts that share no state, on small instances: the reader's scope,  *)
(* one handshake of a read channel and the preference of a conversation.  A  *)
(* behaviour is one of the three parts; the others do not move.              *)
EXTENDS ReaderScope, ReadHello, ConversationSwitch

CONSTANTS p1, p2

VARIABLE part   \* which of them moves

allVars == <<part, vars, helloVars, switchVars>>

MCInit ==
    \/ part = "scope" /\ Init /\ HelloStarts(FALSE) /\ SwitchInit /\ pref = "absent"
    \/ part = "hello" /\ Init /\ ~foreign /\ HelloStarts(TRUE) /\ SwitchInit /\ pref = "absent"
    \/ part = "switch" /\ Init /\ ~foreign /\ HelloStarts(FALSE) /\ SwitchInit

MCNext ==
    \/ part = "scope" /\ Next /\ UNCHANGED <<part, helloVars, switchVars>>
    \/ part = "hello" /\ HelloNext /\ UNCHANGED <<part, vars, switchVars>>
    \/ part = "switch" /\ SwitchNext /\ UNCHANGED <<part, vars, helloVars>>

\* Only the handshake is fair, and where it does not run none of its steps is enabled.
MCSpec == MCInit /\ [][MCNext]_allVars /\ Fairness
=============================================================================
