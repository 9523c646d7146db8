---------------------------- MODULE UsageSwitch ----------------------------
(***************************************************************************)
(* What the read usage switch promises (the contract in the header comment *)
(* of src/src/read-usage-coordinator.ts): a conversation may be read only   *)
(* under the newest request of its owner, which is an "on", and only once   *)
(* that request is durably recorded.  A conversation whose record is in     *)
(* doubt is lost to this switch for ever.                                   *)
(***************************************************************************)
EXTENDS Naturals

CONSTANT Conversations

VARIABLES
    asked,    \* asked[c]: the owner's newest request
    record,   \* record[c]: the durable record
    allowed,  \* the conversations that may be read
    lost      \* the conversations whose record is in doubt

vars == <<asked, record, allowed, lost>>

Request == [epoch : Nat, on : BOOLEAN]
Nothing == [epoch |-> 0, on |-> FALSE]

Init ==
    /\ asked = [c \in Conversations |-> Nothing]
    /\ record = [c \in Conversations |-> Nothing]
    /\ allowed = {} /\ lost = {}

\* A request ends what was allowed before it, at once; it may also be the moment
\* at which conversations are lost.
Ask(c) ==
    /\ asked'[c] \in Request /\ asked'[c].epoch > asked[c].epoch
    /\ asked' = [asked EXCEPT ![c] = asked'[c]]
    /\ lost \subseteq lost' /\ lost' \subseteq Conversations
    /\ allowed' = allowed \ ({c} \cup lost')
    /\ UNCHANGED record

\* Requests reach the record in order; some never do, and one may be the last thing
\* that happens before conversations are lost.
Write(c) ==
    /\ record'[c] \in Request
    /\ record[c].epoch < record'[c].epoch /\ record'[c].epoch <= asked[c].epoch
    /\ record' = [record EXCEPT ![c] = record'[c]]
    /\ lost \subseteq lost' /\ lost' \subseteq Conversations
    /\ allowed' = allowed \ lost'
    /\ UNCHANGED asked

Allow(c) ==
    /\ c \notin lost /\ asked[c].on /\ record[c] = asked[c]
    /\ allowed' = allowed \cup {c}
    /\ UNCHANGED <<asked, record, lost>>

Lose ==
    /\ lost \subseteq lost' /\ lost' \subseteq Conversations
    /\ allowed' = allowed \ lost'
    /\ UNCHANGED <<asked, record>>

Next == Lose \/ \E c \in Conversations : Ask(c) \/ Write(c) \/ Allow(c)

Spec == Init /\ [][Next]_vars
=============================================================================
