------------------------- MODULE MCWorkerSupervisor -------------------------
(***************************************************************************)
(* Two inspections: one to be abandoned, and one to meet what it left.     *)
(* Every failed job costs a worker, so three workers are enough.           *)
(***************************************************************************)
EXTENDS WorkerSupervisor
=============================================================================
