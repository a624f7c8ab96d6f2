----------------------------- MODULE MCOsUpdate -----------------------------
(***************************************************************************)
(* Instance of OsUpdate: the two machines, three updates, three faults and *)
(* two slots for backups.                                                  *)
(***************************************************************************)
EXTENDS OsUpdate

CONSTANTS a, b
=============================================================================
