------------------------------ MODULE MCMcasHtm -----------------------------
(* Small instances of McasHtm for TLC: two words that only dcas moves, in   *)
(* both directions and both argument orders, and a cas of one of them.      *)
EXTENDS McasHtm, TLC

CONSTANTS a1, a2

w(a, o, n) == [addr |-> a, old |-> o, new |-> n]

BothUp   == <<w(a1, 0, 1), w(a2, 0, 1)>>
BothDown == <<w(a2, 1, 0), w(a1, 1, 0)>>
OneUp    == <<w(a1, 0, 1)>>

MCOps == {BothUp, BothDown, OneUp}
Symmetry == Permutations(Thread)
MCInitMem == [a \in Addr |-> 0]
=============================================================================
