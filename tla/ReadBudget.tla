----------------------------- MODULE ReadBudget -----------------------------
(***************************************************************************)
(* The accounting of protected reads: ReadResourceBudget in                 *)
(* src/src/multi-view-read-budget.ts, as operators on its state.  A read is *)
(* charged for its peak before any work starts, and the charge outlives     *)
(* cancellation: it ends when the work is known to have stopped.            *)
(*                                                                          *)
(* Bytes are counted in units.  A view of the budget is the view of an      *)
(* enrollment, so its bytes and its number of entries are those of the      *)
(* reads on it; only the total of the device is kept apart, as in the code. *)
(* retain is left out: nothing calls it, a result has one reference.        *)
(***************************************************************************)
EXTENDS Naturals, FiniteSets, FiniteSetsExt

CONSTANTS
    Reads,           \* read requests, which name the reservations
    Enrolls,         \* enrollment requests, which name the enrollments
    Bindings,        \* approved windows
    Nil,
    Scratch,         \* cost.scratchBytes
    Retained,        \* cost.retainedBytes
    Copy,            \* bytes of one delivery copy
    DeviceBytes, ViewBytes, MaxEntriesPerView

\* view = <<e, b>>: binding b in enrollment e.
Entry == [view : Enrolls \X Bindings,
          phase : {"running", "cancel_pending", "quarantined", "retained"},
          bytes : Nat, references : 0..1, invalidated : BOOLEAN, delivery : BOOLEAN]

\* entries[r] is Nil when r has no reservation.
Budget == [entries : [Reads -> Entry \cup {Nil}], capture : Reads \cup {Nil}, bytes : Nat]

ASSUME BudgetAssumption ==
    /\ Reads \cap Enrolls = {} /\ Nil \notin Reads \cup Enrolls \cup Entry
    /\ {Scratch, Retained, Copy, DeviceBytes, ViewBytes, MaxEntriesPerView} \subseteq Nat
    /\ Retained > 0 /\ ViewBytes <= DeviceBytes

EmptyBudget == [entries |-> [r \in Reads |-> Nil], capture |-> Nil, bytes |-> 0]

Charged(bud) == {r \in Reads : bud.entries[r] # Nil}
OnView(bud, view) == {r \in Charged(bud) : bud.entries[r].view = view}
ViewTotal(bud, view) == MapThenSumSet(LAMBDA r : bud.entries[r].bytes, OnView(bud, view))

\* limits that reserve and reserveDelivery ask before they charge n bytes.
Fits(bud, view, n) == ViewTotal(bud, view) + n <= ViewBytes /\ bud.bytes + n <= DeviceBytes

Subtract(bud, r, n) == [bud EXCEPT !.entries[r].bytes = @ - n, !.bytes = @ - n]

Remove(bud, r) ==
    [entries |-> [bud.entries EXCEPT ![r] = Nil],
     capture |-> IF bud.capture = r THEN Nil ELSE bud.capture,
     bytes   |-> bud.bytes - bud.entries[r].bytes]

MayReserve(bud, view) ==
    /\ bud.capture = Nil
    /\ Cardinality(OnView(bud, view)) < MaxEntriesPerView
    /\ Fits(bud, view, Scratch + Retained)

\* reserve, and start, which follows it at once.
Reserve(bud, r, view) ==
    [entries |-> [bud.entries EXCEPT ![r] =
        [view |-> view, phase |-> "running", bytes |-> Scratch + Retained,
         references |-> 0, invalidated |-> FALSE, delivery |-> FALSE]],
     capture |-> r, bytes |-> bud.bytes + Scratch + Retained]

\* Cancelling says nothing about work that was started.
Cancel(bud, r) ==
    [bud EXCEPT !.entries[r].invalidated = TRUE,
                !.entries[r].phase = IF @ = "running" THEN "cancel_pending" ELSE @]

\* The closures that start hands to the adapter; live: the view is not revoked.
ConfirmStopped(bud, r, keep, live) ==
    LET entry == bud.entries[r] IN
    IF entry.phase = "retained" THEN bud
    ELSE IF keep /\ entry.phase = "running" /\ ~entry.invalidated /\ live
    THEN [Subtract(bud, r, Scratch) EXCEPT !.entries[r].phase = "retained",
                                           !.entries[r].references = 1, !.capture = Nil]
    ELSE Remove(bud, r)

UnknownDrain(bud, r) ==
    IF bud.entries[r].phase \in {"retained", "quarantined"} THEN bud
    ELSE [bud EXCEPT !.entries[r].phase = "quarantined", !.entries[r].invalidated = TRUE]

IsDeliverable(bud, r, live) ==
    /\ r \in Charged(bud) /\ live
    /\ bud.entries[r].phase = "retained" /\ bud.entries[r].references > 0
    /\ ~bud.entries[r].invalidated

\* An outstanding copy holds the result it was made of.
Release(bud, r) ==
    IF bud.entries[r].delivery THEN [bud EXCEPT !.entries[r].references = 0] ELSE Remove(bud, r)

MayReserveDelivery(bud, r) == ~bud.entries[r].delivery /\ Fits(bud, bud.entries[r].view, Copy)

ReserveDelivery(bud, r) ==
    [bud EXCEPT !.entries[r].delivery = TRUE, !.entries[r].bytes = @ + Copy, !.bytes = @ + Copy]

ReleaseDelivery(bud, r) ==
    LET paid == [Subtract(bud, r, Copy) EXCEPT !.entries[r].delivery = FALSE]
    IN  IF paid.entries[r].references = 0 THEN Remove(paid, r) ELSE paid

-----------------------------------------------------------------------------
\* The total is the sum of what is charged, and it and every view's share are in bounds.
BudgetExact(bud) ==
    /\ bud.bytes = MapThenSumSet(LAMBDA r : bud.entries[r].bytes, Charged(bud))
    /\ bud.bytes <= DeviceBytes
    /\ \A view \in Enrolls \X Bindings : ViewTotal(bud, view) <= ViewBytes
    /\ \A r \in Charged(bud) : bud.entries[r].phase # "retained" => bud.capture = r
=============================================================================
