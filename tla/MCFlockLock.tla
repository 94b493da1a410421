---------------------------- MODULE MCFlockLock ----------------------------
(* Two threads; the counter of a tag has two bits, so that it wraps, and   *)
(* the section counts modulo two, so that an old value comes back.         *)
EXTENDS FlockLock
MCOps == [t \in Thread |-> IF t = Survivor THEN {"try_lock", "with_lock"} ELSE {"with_lock"}]
=============================================================================
