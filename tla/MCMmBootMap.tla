---------------------------- MODULE MCMmBootMap ----------------------------
(* Memory maps with one large range, with holes, with ranges out of order  *)
(* and with firmware ranges between usable ones.                           *)
EXTENDS MmBootMap
Pg(first, n, type) == [base |-> first * PageSize, length |-> n * PageSize, type |-> type]
MCMemoryMaps ==
  { <<Pg(0, 7, "LOADER")>>,
    <<Pg(0, 1, "RESERVED"), Pg(1, 5, "LOADER"), Pg(6, 1, "RUNTIME")>>,
    <<Pg(5, 2, "CONVENTIONAL"), Pg(0, 4, "LOADER")>>,
    <<Pg(1, 1, "BOOT_SERVICES"), Pg(2, 1, "RUNTIME"), Pg(3, 4, "LOADER")>>,
    <<Pg(4, 3, "LOADER"), Pg(3, 1, "RESERVED"), Pg(1, 2, "CONVENTIONAL")>> }
=============================================================================
