-------------------------- MODULE MCRestoreClient --------------------------
(* Instances of RestoreClient for TLC; the constants come from the configs. *)
EXTENDS RestoreClient
============================================================================
