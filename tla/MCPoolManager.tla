---------------------------- MODULE MCPoolManager ----------------------------
(* TLC instance of PoolManager: two keys, two specs, five edits: enough that *)
(* the default pool is deleted, the default moves, and the pool comes back.   *)
EXTENDS PoolManager
=============================================================================
