------------------------------ MODULE MCStrip ------------------------------
(* Strip.tla on small repositories: the files of the runs *)
EXTENDS Strip

CONSTANTS cl, data
=============================================================================
