----------------------------- MODULE MCConnPool -----------------------------
(* ConnPool with a reaper, a goroutine that closes the pool and others that *)
(* only borrow.                                                            *)
EXTENDS ConnPool
=============================================================================
