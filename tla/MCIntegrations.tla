--------------------------- MODULE MCIntegrations --------------------------
(***************************************************************************)
(* Small instances of the integration queues.                              *)
(***************************************************************************)
EXTENDS Integrations, TLC

CONSTANTS a, b, j1, j2

OwnTeams == (j1 :> a) @@ (j2 :> b)
=============================================================================
