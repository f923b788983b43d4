------------------------ MODULE MCIsolatedInspection ------------------------
(***************************************************************************)
(* Two inspections: one that abandons its thread, and one that opens its   *)
(* pipe under the number the other has just closed.  As in the shipped     *)
(* settings the executor has one thread more than there are requests.      *)
(* One of the two may be cancelled.                                        *)
(***************************************************************************)
EXTENDS IsolatedInspection
=============================================================================
