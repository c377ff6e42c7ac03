------------------------------ MODULE MCBackup -------------------------------
(* Instances of Backup for TLC; the .cfg files give the constants.          *)
EXTENDS BackupPipeline

\* Fingerprints are compared for equality only.  Used by the runs that check no
\* temporal property.
Symmetry == Permutations(Fingerprint)
=============================================================================
