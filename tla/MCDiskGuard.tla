---------------------------- MODULE MCDiskGuard ----------------------------
(* One run with a timeout of two polls and a check every other window.     *)
EXTENDS DiskGuard
=============================================================================
