---------------------------- MODULE MCReadUsage ----------------------------
(***************************************************************************)
(* Instance of ReadUsage: two conversations and two requests, the broker's  *)
(* service and a rival that opens the same root.  One conversation may have *)
(* one request pending, so that the limit is reached, the other two, so     *)
(* that a request is overtaken by a newer one.                              *)
(***************************************************************************)
EXTENDS ReadUsage

CONSTANTS c1, c2

MCMaxPending == [c \in Conversations |-> IF c = c1 THEN 1 ELSE 2]
=============================================================================
