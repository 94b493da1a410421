------------------------------- MODULE MCDriver -------------------------------
(* Driver with every synchronization and algorithm that main.cpp knows.      *)
EXTENDS Driver, TLC

AllConfigs ==
  {"lock", "lockfree", "lockfree-mcas", "mcas-no-if", "mcas-htm", "mcas-htm-no-if",
   "lockfree-flock", "htm-lock", "htm-mcas", "flock-mcas"} \X
  {"mwobject", "arrayswap", "stack", "queue", "deque", "sorted-list", "hashmap", "bst"}
=============================================================================
