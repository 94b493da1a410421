---------------------------- MODULE MCMcasLists ----------------------------
(***************************************************************************)
(* Two threads on a list or on one bucket of a map of lockfree-mcas.       *)
(***************************************************************************)
EXTENDS McasSortedList, McasHashMap, TLC

MCPrefill == <<1>>
Symmetry == Permutations(Thread)

vars == <<lvars, countVars, mapVars>>

TypeOK ==
  /\ ListTypeOK
  /\ kind \in [Thread -> {"none", "insert", "remove", "count", "find"}]
  /\ n_val \in [Thread -> Nat] /\ result \in [Thread -> Nat]
  /\ value \in [Node -> Value] /\ newValue \in [Thread -> Value]
  /\ old \in [Thread -> Value] /\ found \in [Thread -> Value \cup {NotFound}]

Init == ListInit /\ CountInit /\ MapInit

Step(t) ==
  \/ ListStep(t) /\ UNCHANGED <<countVars, mapVars>>
  \/ SortedStep(t) /\ UNCHANGED mapVars
  \/ BucketStep(t) /\ UNCHANGED countVars

Terminating == (Finished \/ crashed) /\ UNCHANGED vars

Next ==
  \/ /\ ~crashed
     /\ \E t \in Thread :
          \/ ListCall(t) /\ UNCHANGED <<countVars, mapVars>>
          \/ MapCall(t) /\ UNCHANGED countVars
          \/ Step(t)
  \/ Terminating

Spec == Init /\ [][Next]_vars

FairSpec == Spec /\ \A t \in Thread : WF_vars(~crashed /\ Step(t))

\* Types, and the two directions of the list agree whatever qcas is under way.
LinksOK == TypeOK /\ LinksAgree

\* Neither count nor find misses a node that stays in the list while it walks,
\* whatever comes and goes around it.
WalksSeeStableNodes == [][CountMissesNothing /\ FindMissesNothing]_vars

\* Every operation but find returns: a qcas or cas fails only because another one
\* succeeded, and a walk that meets a removed node starts again at the head.  The
\* program dies where an insert has reloaded a null (NullOnlyAtReload).
OperationsReturn ==
  \A t \in Thread : pc[t] # "idle" /\ kind[t] # "find" ~> pc[t] = "idle" \/ crashed
=============================================================================
