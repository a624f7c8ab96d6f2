--------------------------- MODULE MCBackupReplay ---------------------------
(***************************************************************************)
(* Instance of BackupReplay: the backups of one job on each of the two     *)
(* nodes, the first of which reboots.                                      *)
(***************************************************************************)
EXTENDS BackupReplay

CONSTANTS x570, b550m, guests, nas

MCEach == [j \in Jobs |-> IF j = guests THEN x570 ELSE b550m]
=============================================================================
