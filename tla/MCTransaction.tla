--------------------------- MODULE MCTransaction ---------------------------
(* Transaction.tla on small instances: the files of the runs *)
EXTENDS Transaction, TLC

CONSTANTS changelog, manifest, phaseroots, bookmarks, fncache
=============================================================================
