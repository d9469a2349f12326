--------------------------- MODULE MCSyncSession ---------------------------
(* Small instance of SyncSession: three threads, two paths.                *)
EXTENDS SyncSession

CONSTANTS t1, t2, t3, p1, p2
=============================================================================
