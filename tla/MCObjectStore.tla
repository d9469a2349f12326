--------------------------- MODULE MCObjectStore ---------------------------
(* Small instance of ObjectStore.                                          *)
EXTENDS ObjectStore

CONSTANTS k1, k2, sA, sB, v1, v2, bad
=============================================================================
