---------------------------- MODULE MCMergeSearch ----------------------------
(* The instance of MergeSearch for TLC: its constants are in the .cfg file. *)
EXTENDS MergeSearch, TLC
==============================================================================
