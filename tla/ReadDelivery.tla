---------------------------- MODULE ReadDelivery ----------------------------
(***************************************************************************)
(* The delivery of what was read: createReadViewDelivery in                 *)
(* src/src/read-view-delivery.ts, run on the leases of ReadViews.  It hands *)
(* copies of the result to a sink, one at a time, each charged before it is *)
(* made, and gives the lease back when no copy is left.                     *)
(***************************************************************************)
EXTENDS ReadViews

CONSTANT Chunks   \* copies that make up one result

ASSUME ChunksAssumption == Chunks \in Nat \ {0}

VARIABLES
    del,      \* del[r]: the delivery of read r
    holding   \* the deliveries of which the sink holds a copy

deliveryVars == <<viewsVars, upsets, del, holding>>

\* code: the delivery was cancelled; left: chunks not handed over yet.
Delivery == [phase : {"idle", "waiting", "quarantined"}, code : BOOLEAN, left : 0..Chunks,
             sink : {"none", "has", "done", "short"}]

NotStarted == [phase |-> "idle", code |-> FALSE, left |-> Chunks, sink |-> "none"]

DeliveryTypeOK == ViewsTypeOK /\ del \in [Reads -> Delivery] /\ holding \subseteq Reads

DeliveryInit ==
    /\ ViewsInit
    /\ del = [r \in Reads |-> NotStarted] /\ holding = {}

-----------------------------------------------------------------------------
\* The lease views.read returned: what bytes and reserveDelivery ask first.
LeaseGuard(s, r) ==
    LET ch == jobs[r].ch IN
    /\ MayUse(s, ch) /\ r \notin s.fenced
    /\ s.chan[ch].enabled /\ s.chan[ch].epoch = jobs[r].want
    /\ usage[Conversation[ch]] = [epoch |-> jobs[r].want, on |-> TRUE]

\* Asking for the bytes, and whether the next copy may then be charged.
Asked(s, r) == IF LeaseGuard(s, r) THEN Checked(s, jobs[r].view[1], jobs[r].view[2]) ELSE s
Chargeable(s, r) ==
    /\ LeaseGuard(s, r)
    /\ LET t == Asked(s, r) IN /\ IsDeliverable(t.budget, r, jobs[r].view[1] \in t.live)
                               /\ MayReserveDelivery(t.budget, r)

CreditReturned(s, r) == Reconciled([s EXCEPT !.budget = ReleaseDelivery(@, r)], r)

\* One copy goes out in one synchronous run: boundary, charge, boundary, write.
Sends(s, r) ==
    /\ Chargeable(s, r)
    /\ broker' = [Asked(s, r) EXCEPT !.budget = ReserveDelivery(@, r)]
    /\ del' = [del EXCEPT ![r].phase = "waiting", ![r].sink = "has", ![r].left = @ - 1]
    /\ holding' = holding \cup {r}
    /\ UNCHANGED <<jobs, broken>>

\* finalize without a copy outside: the lease goes back.
Released(s, r) ==
    /\ Ends(r, LeaseReleased(s, r))
    /\ del' = [del EXCEPT ![r] = NotStarted]

\* finalize while the sink has the copy: nothing goes back until the sink stopped.
Quarantined(r) ==
    /\ del' = [del EXCEPT ![r].phase = "quarantined"]
    /\ UNCHANGED <<broker, jobs, broken, holding>>

\* The dispatcher may refuse at any boundary, before or after the bytes were asked for.
GivesUp(s, r) == (Released(s, r) \/ Released(Asked(s, r), r)) /\ UNCHANGED holding

Run(r) ==
    /\ jobs[r].phase = "leased" /\ del[r].phase = "idle"
    /\ IF del[r].code THEN Released(broker, r) /\ UNCHANGED holding
       ELSE Sends(broker, r) \/ GivesUp(broker, r)
    /\ UNCHANGED <<outside, terms, control, working>>

\* Deadline, abort or close.
Interrupt(r) ==
    /\ jobs[r].phase = "leased" /\ del[r].phase \in {"idle", "waiting"} /\ ~del[r].code
    /\ del' = [del EXCEPT ![r].code = TRUE]
    /\ UNCHANGED <<viewsVars, holding>>

\* The sink took the copy, all of it or less; what it says after it was asked to stop
\* does not count as its having stopped.
SinkCompletes(r, full) ==
    /\ del[r].sink = "has"
    /\ del' = [del EXCEPT ![r].sink = IF full THEN "done" ELSE "short"]
    /\ holding' = holding \ {r}
    /\ UNCHANGED viewsVars

\* A mutant: an interrupted delivery takes its copy for dropped.
ResumeForgets(r) ==
    /\ del[r].phase = "waiting" /\ (del[r].sink # "has" \/ del[r].code)
    /\ Released(CreditReturned(broker, r), r)
    /\ UNCHANGED <<outside, terms, control, working, holding>>

\* The await of execute is over: the sink answered or the delivery was interrupted.
Resume(r) ==
    /\ del[r].phase = "waiting" /\ (del[r].sink # "has" \/ del[r].code)
    /\ IF del[r].sink = "has" THEN Quarantined(r)
       ELSE LET s == CreditReturned(broker, r) IN
            IF del[r].sink = "done" /\ ~del[r].code /\ del[r].left > 0
            THEN Sends(s, r) \/ GivesUp(s, r)
            ELSE Released(s, r) /\ UNCHANGED holding
    /\ UNCHANGED <<outside, terms, control, working>>

\* The sink's stop receipt.
SinkStopped(r) ==
    /\ del[r].phase = "quarantined" /\ holding' = holding \ {r}
    /\ Released(CreditReturned(broker, r), r)
    /\ UNCHANGED <<outside, terms, control, working>>

DeliveryNext ==
    \/ ViewsNext /\ UNCHANGED <<del, holding>>
    \/ /\ \E r \in Reads : \/ Run(r) \/ Interrupt(r) \/ Resume(r) \/ SinkStopped(r)
                           \/ \E full \in BOOLEAN : SinkCompletes(r, full)
       /\ UNCHANGED upsets

DeliverySpec == DeliveryInit /\ [][DeliveryNext]_deliveryVars

-----------------------------------------------------------------------------
(* Properties.                                                              *)

\* Every approval that read r rests on stands: none was withdrawn since it was asked for,
\* the window is unchanged, the connector alive, the enrollment not lapsed and the
\* conversation's usage on.
Consented(r) ==
    LET ch == jobs[r].ch  view == jobs[r].view IN
    /\ r \notin broken /\ ~down
    /\ view[2] \in current /\ ch \notin dead /\ view[1] \notin lapsed
    /\ usage[Conversation[ch]] = [epoch |-> terms[view[1]].epoch, on |-> TRUE]

\* A copy leaves the broker only while every approval it rests on stands
\* (session.ts:503-527, multi-view-views.ts:245, read-view-delivery.ts:196).
DeliveryConsented ==
    [][\A r \in Reads : del'[r].left < del[r].left => Consented(r)]_deliveryVars

\* A copy the sink may still hold is charged, and the result it was made of is kept
\* (read-view-delivery.ts:153, multi-view-read-budget.ts:200).
CopyIsCharged ==
    \A r \in holding :
        r \in Charged(broker.budget) /\ broker.budget.entries[r].delivery

\* Nothing that may still run or be held elsewhere is given back: the limits of the
\* device hold for what there is, not for what the broker still waits for.
ChargesHeld == WorkIsCharged /\ CopyIsCharged

\* The accounts are exact in both directions: nothing that may run or be held is given
\* back, and nothing that is over is kept.
AccountsHeld == DeliveryTypeOK /\ ChargesHeld /\ NothingLeaks
=============================================================================
