-------------------------- MODULE MCLockfreeDeque ---------------------------
(* Small instances of LockfreeDeque for TLC. *)
EXTENDS LockfreeDeque

CONSTANTS s1, s2

OneStealer == <<s1>>
TwoStealers == <<s1, s2>>
=============================================================================
