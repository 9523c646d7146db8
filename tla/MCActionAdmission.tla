------------------------- MODULE MCActionAdmission -------------------------
(* Small instances of ActionAdmission.                                      *)
EXTENDS ActionAdmission

CONSTANTS a1, a2, a3, a4, a5, n1, n2, i1, i2

Plain(class)    == [class |-> class, semantic |-> FALSE]
Semantic(class) == [class |-> class, semantic |-> TRUE]
MCClasses == {"input", "edit", "read"}
MCConsulted == {"edit"}

\* a1 is a batch with a capture, which a2 repeats; a3 and a4 are for the advisor, a3 a
\* plain action, a4 and a5 semantic ones.
MCActions == [c \in Calls |->
    CASE c \in {a1, a2} -> <<Plain("input"), Plain("input")>>
      [] c = a3 -> <<Plain("edit")>>
      [] c = a4 -> <<Semantic("edit")>>
      [] OTHER -> <<Semantic("input")>>]
MCIds == [c \in Calls |-> IF c \in {a1, a2, a4} THEN i1 ELSE i2]
MCKeep == [n \in Narrows |-> IF n = n1 THEN {"edit", "read"} ELSE {"input", "read"}]
MCMixes == {{a1, a2, n2}, {a1, a3, n1}, {a4, a5, n1}, {a1, a4, n2}, {a1, n1, n2}, {a4, n1, n2}}
=============================================================================
