------------------------------ MODULE MCLpcIpc ------------------------------
(* LpcIpc for model checking.  The view leaves out what no property here   *)
(* reads and no later step depends on: the last call's result, the ghost   *)
(* forgotten, and the tick count with the pending flag, which only let     *)
(* PsHandlePreemptionPoint do what PsYieldThread may do at any time.       *)
EXTENDS LpcIpc

IpcView ==
  <<threadState, readied, runQueue, currentThread, startRoutine, context, cpu, pc,
    thunkThread, machine, portVars, callVars, ghosts>>
=============================================================================
