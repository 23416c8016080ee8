---------------------------- MODULE MCKeSyscall ----------------------------
(* Bounds for KeSyscall: access masks with, without and beyond the rights  *)
(* of the object; buffers of two lengths, a null one, one across the top   *)
(* of user addresses and one that wraps around.                            *)
EXTENDS KeSyscall

MCMasks == {{1, 2}, {1, 4}}
MCFileSize == [p \in {"init", "other"} |-> IF p = "init" THEN 2 ELSE 3]
MCBuffers == {<<1, 1>>, <<2, 2>>, <<0, 1>>, <<3, 2>>, <<2, 7>>}
=============================================================================
