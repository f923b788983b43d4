------------------------- MODULE MCAgentLifecycle --------------------------
(***************************************************************************)
(* Three requests for two slots: the third meets a full gateway.  Liveness *)
(* is checked with the rest, so no symmetry is used.                       *)
(***************************************************************************)
EXTENDS AgentLifecycle
=============================================================================
