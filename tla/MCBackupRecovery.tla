--------------------------- MODULE MCBackupRecovery ---------------------------
(***************************************************************************)
(* Model values for the backup and recovery of the site.                   *)
(***************************************************************************)
EXTENDS BackupRecovery

DrRoute == {"dr"}
BothRoutes == {"dr", "play"}
=============================================================================
