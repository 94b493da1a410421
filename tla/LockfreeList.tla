---------------------------- MODULE LockfreeList ----------------------------
(***************************************************************************)
(* lockfree/SortedList.h over DoublyLinkedList.h: a list of nodes whose    *)
(* after is a pointer with a deletion mark, written by double-width        *)
(* compare-and-swap, and whose before is a hint.  The functions call each  *)
(* other; loc keeps where to return to.                                    *)
(*                                                                         *)
(* A build copies a DPointer by one load of 16 bytes or by two of 8, the   *)
(* pointer's first.  Two are seen where a pointer is used with a mark that *)
(* is set: at line 83, and at line 147 if Torn.  Elsewhere only one half   *)
(* is used, or the mark must be clear: as a mark is never cleared, the     *)
(* pair was then there when the pointer was loaded.  Nor does the other    *)
(* order of loads differ from one load, as the pointer of a marked node    *)
(* does not change.                                                        *)
(***************************************************************************)
EXTENDS Calls

ListNode(k, before, after) == [key |-> k, before |-> before, after |-> after]
To(n)     == <<n, FALSE>>          \* DPointer(n, 0)
Ptr(p)    == p[1]
Marked(p) == p[2]
After(n)  == heap[n].after
Torn      == structure.mode \in {"torn", "apart"}

headdummy == 1
ListInitNodes == <<ListNode(0, Null, To(2)), ListNode(99, headdummy, To(Null))>>

\* after.cas(new, expected), then to one label or the other.
CasAfter(t, n, expected, new, won, lost) ==
  IF After(n) = expected
  THEN Write([heap EXCEPT ![n].after = new]) /\ Jump(t, won)
  ELSE Jump(t, lost) /\ UNCHANGED mem

-----------------------------------------------------------------------------
(* add, deleten and count start with a walk that does not look at marks.   *)

ListCalls == {"insert", "remove", "count"}

ListBegin(t) ==
  /\ pc[t] \in ListCalls
  /\ IF pc[t] = "insert" THEN Write(Append(heap, ListNode(My(t).key, Null, To(Null))))
     ELSE UNCHANGED mem
  /\ Go(t, "walk", [node |-> New, pred |-> headdummy, curr |-> Ptr(After(headdummy)), found |-> 0])

Goes(t) == \/ heap[My(t).curr].key < My(t).key
           \/ My(t).op = "count" /\ heap[My(t).curr].key = My(t).key

ListWalk(t) ==
  /\ At(t, "walk")
  /\ IF Bad(My(t).curr) THEN Fault(t)
     ELSE /\ UNCHANGED mem
          /\ IF Goes(t)
             THEN Go(t, "walk", [pred |-> My(t).curr, curr |-> Ptr(After(My(t).curr)),
                    found |-> My(t).found + IF heap[My(t).curr].key = My(t).key THEN 1 ELSE 0])
             ELSE IF My(t).op = "count" THEN Return(t, My(t).found)
             ELSE Jump(t, IF My(t).op = "insert" THEN "insertafter" ELSE "deleteNode")

-----------------------------------------------------------------------------
(* insertafter and insertBetween.  A predecessor found deleted ends the    *)
(* call: add returns false, which SortedList::insert drops.                *)

InsertAfter(t) ==
  /\ At(t, "insertafter")
  /\ IF Marked(After(My(t).pred)) THEN Return(t, 0)
     ELSE Go(t, "fixforward", [this |-> My(t).pred, back |-> "insertBetween"])
  /\ UNCHANGED mem

InsertBetween(t) ==
  LET n == My(t).node  pred == My(t).pred
      linked == [heap EXCEPT ![n] = ListNode(My(t).key, pred, To(My(t).later))]
  IN /\ At(t, "insertBetween")
     /\ IF After(pred) = To(My(t).later)
        THEN Write([linked EXCEPT ![pred].after = To(n)])
             /\ Go(t, "reflectforward", [previous |-> n, last |-> "return"])
        ELSE Write(linked) /\ Jump(t, "insertafter")

ReturnInsert(t) == At(t, "return") /\ Return(t, 0) /\ UNCHANGED mem

-----------------------------------------------------------------------------
(* fixforward(this): unlink the deleted nodes behind this.                 *)

FixForward(t) ==
  At(t, "fixforward") /\ Go(t, "fix", [later |-> Ptr(After(My(t).this))]) /\ UNCHANGED mem

Fix(t) ==
  /\ At(t, "fix") /\ ~Torn
  /\ IF Bad(My(t).later) THEN Fault(t)
     ELSE /\ UNCHANGED mem
          /\ IF ~Marked(After(My(t).later))
             THEN Go(t, "reflectforward", [previous |-> My(t).this, last |-> My(t).back])
             ELSE Go(t, "unlink", [laterLater |-> Ptr(After(My(t).later))])

FixPointer(t) ==
  /\ At(t, "fix") /\ Torn
  /\ IF Bad(My(t).later) THEN Fault(t)
     ELSE Go(t, "fix mark", [laterLater |-> Ptr(After(My(t).later))]) /\ UNCHANGED mem

FixMark(t) ==
  /\ At(t, "fix mark") /\ UNCHANGED mem
  /\ IF Marked(After(My(t).later)) THEN Jump(t, "unlink")
     ELSE Go(t, "reflectforward", [previous |-> My(t).this, last |-> My(t).back])

\* Faulty Unlink: one more node.
UnlinkMore(t) ==
  /\ At(t, "unlink")
  /\ IF After(My(t).this) = To(My(t).later) /\ My(t).laterLater # 2
     THEN Write([heap EXCEPT ![My(t).this].after = To(Ptr(After(My(t).laterLater)))])
     ELSE UNCHANGED mem
  /\ Go(t, "fix", [later |-> My(t).laterLater])

\* Whether or not the compare-and-swap succeeds.
Unlink(t) ==
  /\ At(t, "unlink")
  /\ IF After(My(t).this) = To(My(t).later)
     THEN Write([heap EXCEPT ![My(t).this].after = To(My(t).laterLater)])
     ELSE UNCHANGED mem
  /\ Go(t, "fix", [later |-> My(t).laterLater])

\* reflectforward(previous): only at the end of the list does it set before.
ReflectForward(t) ==
  LET p == After(My(t).previous) IN
  /\ At(t, "reflectforward")
  /\ IF ~Marked(p) /\ Bad(Ptr(p)) THEN Fault(t)
     ELSE UNCHANGED mem /\ Go(t, IF Marked(p) THEN My(t).last ELSE "reflect", [afterNode |-> Ptr(p)])

Reflect(t) ==
  /\ At(t, "reflect")
  /\ Jump(t, IF /\ heap[My(t).afterNode].before # My(t).previous
                /\ After(My(t).afterNode) = To(Null)
             THEN "set before" ELSE My(t).last)
  /\ UNCHANGED mem

SetBefore(t) ==
  /\ At(t, "set before")
  /\ Write([heap EXCEPT ![My(t).afterNode].before = My(t).previous]) /\ Jump(t, My(t).last)

-----------------------------------------------------------------------------
(* deleteNode(curr): the compare-and-swap that marks is not repeated when  *)
(* it fails.  getBack then looks for the node before.                      *)

DeleteBegin(t) ==
  /\ At(t, "deleteNode")
  /\ IF Marked(After(My(t).curr)) THEN Return(t, 0)
     ELSE Go(t, "mark", [next |-> Ptr(After(My(t).curr)), current |-> My(t).curr])
  /\ UNCHANGED mem

Mark(t) ==
  At(t, "mark") /\ CasAfter(t, My(t).curr, To(My(t).next), <<My(t).next, TRUE>>, "getBack", "getBack")

GetBack(t) ==
  At(t, "getBack") /\ Go(t, "back", [backnode |-> heap[My(t).current].before]) /\ UNCHANGED mem

Back(t) ==
  LET b == My(t).backnode IN
  /\ At(t, "back")
  /\ IF Bad(b) THEN Fault(t)
     ELSE /\ UNCHANGED mem
          /\ IF Marked(After(b)) THEN Go(t, "getBack", [current |-> b])
             ELSE IF Ptr(After(b)) = My(t).curr THEN Return(t, 0)
             ELSE Go(t, "until", [worknode |-> b])

\* fixforwarduntil(backnode, curr); "none" is its return of NULL.
Until(t) ==
  At(t, "until") /\ Jump(t, IF Marked(After(My(t).backnode)) THEN "none" ELSE "until later")
  /\ UNCHANGED mem

UntilLater(t) ==
  LET p == After(My(t).curr) IN
  /\ At(t, "until later")
  /\ Jump(t, IF Ptr(p) # Null /\ Marked(p) THEN "none" ELSE "until work")
  /\ UNCHANGED mem

UntilWork(t) ==
  LET n == Ptr(After(My(t).worknode)) IN
  /\ At(t, "until work") /\ UNCHANGED mem
  /\ IF n = Null THEN Jump(t, "none") ELSE Go(t, "until mark", [nextnode |-> n])

UntilMark(t) ==
  /\ At(t, "until mark") /\ UNCHANGED mem
  /\ IF Marked(After(My(t).worknode)) THEN Jump(t, "until next")
     ELSE Go(t, "fixforward", [this |-> My(t).worknode, back |-> "until again"])

UntilAgain(t) ==
  /\ At(t, "until again")
  /\ Go(t, "until next", [nextnode |-> Ptr(After(My(t).worknode))]) /\ UNCHANGED mem

UntilNext(t) ==
  /\ At(t, "until next")
  /\ IF Bad(My(t).nextnode) THEN Fault(t)
     ELSE /\ UNCHANGED mem
          /\ IF My(t).nextnode = My(t).curr THEN Return(t, 0)
             ELSE IF After(My(t).nextnode) = To(Null) THEN Jump(t, "none")
             ELSE Go(t, "until", [worknode |-> My(t).nextnode])

None(t) ==
  /\ At(t, "none")
  /\ IF Marked(After(My(t).backnode)) THEN Go(t, "getBack", [current |-> My(t).backnode])
     ELSE Return(t, 0)
  /\ UNCHANGED mem

ListStep(t) ==
  \/ ListBegin(t) \/ ListWalk(t) \/ InsertAfter(t) \/ InsertBetween(t) \/ ReturnInsert(t)
  \/ FixForward(t) \/ Fix(t) \/ FixPointer(t) \/ FixMark(t) \/ Unlink(t)
  \/ ReflectForward(t) \/ Reflect(t) \/ SetBefore(t)
  \/ DeleteBegin(t) \/ Mark(t) \/ GetBack(t) \/ Back(t) \/ Until(t) \/ UntilLater(t)
  \/ UntilWork(t) \/ UntilMark(t) \/ UntilAgain(t) \/ UntilNext(t) \/ None(t)

-----------------------------------------------------------------------------
\* The nodes from the head on, marked or not.
Reached ==
  LET from[n \in 0 .. Len(heap)] ==
        IF n = Null THEN {} ELSE {n} \cup from[Ptr(After(n))]
  IN from[headdummy]
=============================================================================
