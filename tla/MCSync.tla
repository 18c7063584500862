------------------------------- MODULE MCSync -------------------------------
(* Small instances of Sync.tla for TLC.                                    *)
EXTENDS Sync

MCKeys == SyncKeys
=============================================================================
