--------------------------- MODULE MCReadDelivery ---------------------------
(* Instance of ReadDelivery: configured and issued channels of one caller. *)
EXTENDS ReadDelivery, TLC

MCConversation == [ch \in Channels |-> "talk"]
MCCaller == [ch \in Channels |-> "agent"]
MCOwner == [b \in Bindings |-> "agent"]
Alike == Permutations(Enrolls) \cup Permutations(Reads) \cup Permutations(Static)
\* Two enrollments over two channels with a read, over one channel with two reads, and
\* an issued channel with one of them doubled.
MCInstances ==
    {Static \cup Enrolls \cup {r} : r \in Reads} \cup {{x} \cup Enrolls \cup Reads : x \in Static}
    \cup {(Channels \ Static) \cup {e} \cup Reads : e \in Enrolls}
    \cup {(Channels \ Static) \cup Enrolls \cup {r} : r \in Reads}
MCApproves == [ch \in Channels |-> Bindings]
=============================================================================
