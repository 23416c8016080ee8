---------------------------- MODULE MCObManager ----------------------------
(* ObManager for TLC.  The rights are interchangeable: no definition       *)
(* singles one out, and every property quantifies over all of them.        *)
EXTENDS ObManager, TLC

RightsSymmetry == Permutations(Rights)
=============================================================================
