-------------------------- MODULE SchedulerParams --------------------------
(***************************************************************************)
(* What a scheduler of src/bnb is made with, and what is known of it.      *)
(* Each of the two has limits of its own; the caller sets them all.        *)
(***************************************************************************)
EXTENDS Naturals, FiniteSets

CONSTANTS
  Thread,        \* the threads that share the scheduler (params_.num_threads)
  Node,          \* the nodes that may become open
  Offspring,     \* Offspring[n]: the nodes that branching n may open
  InitialPools,  \* the ways the first nodes are dealt out to the threads
  MinNodes,      \* params_.num_minimum_nodes
  MaxNodes,      \* params_.num_maximum_nodes of the giving scheduler
  UIntMax,       \* the largest value of an unsigned, its counter
  None           \* nobody: the holder of a free mutex

NumThreads == Cardinality(Thread)

ASSUME WorkAssumption ==
  /\ IsFiniteSet(Thread) /\ Thread # {} /\ None \notin Thread
  /\ IsFiniteSet(Node)
  /\ Offspring \in [Node -> SUBSET Node]

\* solve deals out either no node at all or at least one to every thread.
ASSUME PoolsAssumption ==
  InitialPools \subseteq {[t \in Thread |-> {}]} \cup [Thread -> (SUBSET Node) \ {{}}]

\* config.h warns of num_minimum_nodes = 0, with which a thread would be
\* called from the queue and sent back empty-handed.
ASSUME MinNodesAssumption == MinNodes \in Nat \ {0}

\* Nothing relates the two limits to each other in the code.
ASSUME LimitsAssumption ==
  MaxNodes \in Nat /\ UIntMax \in Nat /\ NumThreads <= UIntMax
=============================================================================
