------------------------------- MODULE Objects -------------------------------
(***************************************************************************)
(* The sequential objects that the structures promise: sequences for       *)
(* deques, stacks and queues, and functions from keys for maps (the value  *)
(* or 0) and for lists and trees (how often the key is in).                *)
(***************************************************************************)
EXTENDS Integers, Sequences

Changed(f, k, n) == [f EXCEPT ![k] = n]
One(o, r) == {<<o, r>>}
SentinelMax == 99  \* INT_MAX
Present(b) == {k \in DOMAIN b : b[k] > 0}
Smallest(b) == IF Present(b) = {} THEN SentinelMax
               ELSE CHOOSE k \in Present(b) : \A j \in Present(b) : k <= j

SequenceCall(s, c) ==
  CASE c.op = "push_front" -> One(<<c.key>> \o s, 0)
    [] c.op = "push_back"  -> One(Append(s, c.key), 0)
    [] c.op = "pop_front"  -> IF s = <<>> THEN One(s, -1) ELSE One(Tail(s), s[1])
    [] c.op = "pop_back"   -> IF s = <<>> THEN One(s, -1)
                              ELSE One(SubSeq(s, 1, Len(s) - 1), s[Len(s)])

MapCall(m, c) ==
  CASE c.op = "insert_or_assign" -> One(Changed(m, c.key, c.val), 0)
    [] c.op = "erase"            -> One(Changed(m, c.key, 0), 0)
    [] c.op = "contains"         -> One(m, IF m[c.key] # 0 THEN 1 ELSE 0)
    [] c.op = "find"             -> One(m, IF m[c.key] # 0 THEN m[c.key] ELSE -1)

BagCall(b, c) ==
  CASE c.op = "insert" -> One(Changed(b, c.key, b[c.key] + 1), 0)
    [] c.op = "remove" -> One(Changed(b, c.key, IF b[c.key] > 0 THEN b[c.key] - 1 ELSE 0), 0)
    [] c.op = "count"  -> One(b, b[c.key])
    [] c.op = "contains" -> One(b, IF b[c.key] > 0 THEN 1 ELSE 0)

\* Rows, of which two change places.
RowsCall(r, c) == One([r EXCEPT ![c.key] = r[c.val], ![c.val] = r[c.key]], 0)

\* A set: inserting what is there changes nothing.
SetCall(b, c) ==
  CASE c.op = "insert"  -> One(Changed(b, c.key, 1), 0)
    [] c.op = "remove"  -> One(Changed(b, c.key, 0), 0)
    [] c.op = "get_min" -> One(b, Smallest(b))

\* A tree keeps duplicates to the right; a removal takes at least one copy of the
\* key, and may take copies of another as long as one stays.
TreeCall(b, c) ==
  CASE c.op = "insert"  -> One(Changed(b, c.key, b[c.key] + 1), 0)
    [] c.op = "remove"  ->
         {<<a, 0>> : a \in {f \in [DOMAIN b -> 0 .. 4] :
            \A k \in DOMAIN b :
              /\ f[k] <= b[k]
              /\ k # c.key /\ b[k] > 0 => f[k] > 0
              /\ k = c.key /\ b[k] > 0 => f[k] < b[k]}}
    [] c.op = "get_min" ->
         One(b, Smallest(b))
=============================================================================
