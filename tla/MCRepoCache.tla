---------------------------- MODULE MCRepoCache ----------------------------
(* RepoCache with the names of its processes, which differ: one of them is a *)
(* reader.                                                                   *)
EXTENDS RepoCache

CONSTANTS a, b
=============================================================================
