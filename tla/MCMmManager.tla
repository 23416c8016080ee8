---------------------------- MODULE MCMmManager ----------------------------
(* Images of one page with a section of code, and with one of data and one *)
(* that reaches over the guard page to the stack, and makes it executable. *)
EXTENDS MmManager
Section(start, span, bits) == [start |-> start, span |-> span, bits |-> bits]
MCSectionTables ==
  {<<Section(0, 1, {"X"})>>, <<Section(0, 1, {"W"}), Section(0, 3, {"W", "X"})>>}
=============================================================================
