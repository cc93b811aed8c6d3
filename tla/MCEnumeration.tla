------------------------------ MODULE MCEnumeration -----------------------------
(* A device with up to three tags, two in a page. *)
EXTENDS Enumeration

MCSymbols == {[id |-> i, name |-> <<96 + i>>, type |-> 196] : i \in 1 .. 3}
=============================================================================
