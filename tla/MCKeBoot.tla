------------------------------ MODULE MCKeBoot ------------------------------
(* Programs of one, three and five words on pages of four, so that a       *)
(* program ends before, at and behind a page boundary, with no address, an *)
(* odd and an even number of them in a page.  The data 1 is no address of  *)
(* the payload, 4 looks like an RVA of it, and 20 like an address of a     *)
(* program linked at 16.                                                   *)
EXTENDS KeBoot
ProgramsOf(n, items) == [1 .. n -> items]
Data(value)      == [holds |-> "data", value |-> value]
Address(value)   == [holds |-> "address", value |-> value]
Unaligned(value) == [holds |-> "unaligned", value |-> value]
MCPrograms ==
  ProgramsOf(1, {Data(1), Data(4), Data(20), Address(1), Unaligned(1)})
    \cup ProgramsOf(3, {Data(1), Data(20), Address(3)})
    \cup {<<Data(4), Unaligned(2), Address(1)>>}
    \cup ProgramsOf(5, {Data(1), Address(5)})
=============================================================================
