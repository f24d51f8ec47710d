----------------------------- MODULE SearchTree -----------------------------
(***************************************************************************)
(* bnb::SearchTree and its two variants for threads, over                  *)
(* RefCountedAllocator.  A node has one reference for the thread that      *)
(* holds it and one for each child that is not freed yet; release_node     *)
(* gives up one and, when it was the last, frees the node and walks up to  *)
(* the parent.                                                             *)
(*                                                                         *)
(* LockedSearchTree does all of that under a mutex.  MTSearchTree gives    *)
(* each thread a tree, that is a count of nodes and a free list, of its    *)
(* own, and no mutex; but the reference count lives in the node, and the   *)
(* children of one node are released by whichever threads got them.  The   *)
(* count is a plain size_t: decrementing it is a load and a store.  Which  *)
(* value dec_refs then compares with zero depends on the build: one kept   *)
(* in a register, or the one read back from memory.                        *)
(*                                                                         *)
(* The threads use the tree as the engines do: branch a node they hold,    *)
(* release some children at once, keep the others, release the node; hand  *)
(* nodes to each other; and release what they hold when a signal comes.    *)
(***************************************************************************)
EXTENDS Integers, FiniteSets

CONSTANTS
  Thread,     \* the threads
  Node,       \* the nodes; the addresses of freed ones are not used again here
  Root,       \* the first node
  Parent,     \* Parent[n]: the node that n is created under
  Settings,   \* pairs of "locked" or "mt", the class of search_tree_, and "register"
              \* or "memory", where dec_refs finds its result
  None        \* nobody, or no node

ASSUME TreeAssumption ==
  /\ IsFiniteSet(Thread) /\ IsFiniteSet(Node)
  /\ Root \in Node
  /\ Parent \in [Node -> Node \cup {None}]
  /\ \A n \in Node : Parent[n] = None <=> n = Root
  /\ None \notin Node \cup Thread
  /\ Settings \subseteq {"locked", "mt"} \X {"register", "memory"}

VARIABLES
  variant, build,
  alive,       \* the nodes created and not freed
  refs,        \* refs[n]: header.refs of the element of n
  num_nodes,   \* num_nodes[t]: num_nodes_ of the tree of thread t, or of the only
               \* tree if t is None
  mutex,       \* holder of the mutex of LockedSearchTree
  pc,          \* what each thread is doing
  holds,       \* holds[t]: the nodes in the container of t
  pending,     \* pending[t]: the nodes t has yet to release, the branched one last
  branched,    \* branched[t]: the node t branches, or None
  at,          \* at[t]: where release_node is on its way up, or None
  loaded       \* loaded[t]: the count t has loaded

choice == <<variant, build>>
heap == <<alive, refs, num_nodes>>
thread == <<holds, pending, branched>>
vars == <<choice, heap, mutex, pc, thread, at, loaded>>

\* In particular no count, a size_t, is lowered below zero.
TypeOK ==
  /\ <<variant, build>> \in Settings
  /\ alive \subseteq Node
  /\ refs \in [Node -> Nat]
  /\ num_nodes \in [Thread \cup {None} -> Int]
  /\ mutex \in Thread \cup {None}
  /\ pc \in [Thread -> {"idle", "release", "load", "store", "test"}]
  /\ holds \in [Thread -> SUBSET Node]
  /\ pending \in [Thread -> SUBSET Node]
  /\ branched \in [Thread -> Node \cup {None}]
  /\ at \in [Thread -> Node \cup {None}]
  /\ loaded \in [Thread -> Int]

\* thread_local_tree: with LockedSearchTree there is only one.
TreeOf(t) == IF variant = "locked" THEN None ELSE t

\* The root is created, with one reference, and pushed.
Init ==
  /\ \E s \in Settings : variant = s[1] /\ build = s[2]
  /\ alive = {Root}
  /\ refs = [n \in Node |-> IF n = Root THEN 1 ELSE 0]
  /\ mutex = None
  /\ pc = [t \in Thread |-> "idle"]
  /\ \E t \in Thread :
       /\ holds = [u \in Thread |-> IF u = t THEN {Root} ELSE {}]
       /\ num_nodes = [u \in Thread \cup {None} |-> IF u = TreeOf(t) THEN 1 ELSE 0]
  /\ pending = [t \in Thread |-> {}]
  /\ branched = [t \in Thread |-> None]
  /\ at = [t \in Thread |-> None]
  /\ loaded = [t \in Thread |-> 0]

\* Mutant: no mutex.
MayEnter_Always == TRUE

\* LockedSearchTree takes its mutex in create_node and in release_node.
MayEnter == variant = "locked" => mutex = None

\* Mutant: create_node does not add a reference to the parent.
RefsWith_NoParent(n, children) ==
  [m \in Node |-> IF m \in children THEN 1 ELSE refs[m]]

\* create_node for each child of n: one reference of its own, one more for n.
RefsWith(n, children) ==
  [m \in Node |-> IF m = n THEN refs[n] + Cardinality(children)
                  ELSE IF m \in children THEN 1 ELSE refs[m]]

\* Branch a node: create its children and keep some of them.  No other thread
\* knows these children yet, so nobody else touches the counts meanwhile.
Branch(t) ==
  /\ pc[t] = "idle" /\ MayEnter
  /\ \E n \in holds[t] :
       LET children == {c \in Node : Parent[c] = n}
       IN \E kept \in SUBSET children :
            /\ alive' = alive \cup children
            /\ refs' = RefsWith(n, children)
            /\ num_nodes' = [num_nodes EXCEPT ![TreeOf(t)] = @ + Cardinality(children)]
            /\ holds' = [holds EXCEPT ![t] = (@ \ {n}) \cup kept]
            /\ pending' = [pending EXCEPT ![t] = children \ kept]
            /\ branched' = [branched EXCEPT ![t] = n]
  /\ pc' = [pc EXCEPT ![t] = "release"]
  /\ UNCHANGED <<choice, mutex, at, loaded>>

\* clean_nodes: after a signal the nodes in a container are released unbranched.
Clean(t) ==
  /\ pc[t] = "idle" /\ holds[t] # {}
  /\ pending' = [pending EXCEPT ![t] = holds[t]]
  /\ holds' = [holds EXCEPT ![t] = {}]
  /\ pc' = [pc EXCEPT ![t] = "release"]
  /\ UNCHANGED <<choice, heap, mutex, branched, at, loaded>>

\* The scheduler hands nodes to another thread.
Share(t, u) ==
  /\ pc[t] = "idle" /\ t # u
  /\ \E n \in holds[t] :
       holds' = [holds EXCEPT ![t] = @ \ {n}, ![u] = @ \cup {n}]
  /\ UNCHANGED <<choice, heap, mutex, pc, pending, branched, at, loaded>>

\* release_node is called: first for the pruned children, then for the node.
Release(t) ==
  /\ pc[t] = "release"
  /\ MayEnter
  /\ mutex' = IF variant = "locked" THEN t ELSE mutex
  /\ \/ /\ \E c \in pending[t] :
             /\ at' = [at EXCEPT ![t] = c]
             /\ pending' = [pending EXCEPT ![t] = @ \ {c}]
        /\ UNCHANGED branched
     \/ /\ pending[t] = {} /\ branched[t] # None
        /\ at' = [at EXCEPT ![t] = branched[t]]
        /\ branched' = [branched EXCEPT ![t] = None]
        /\ UNCHANGED pending
  /\ pc' = [pc EXCEPT ![t] = "load"]
  /\ UNCHANGED <<choice, heap, holds, loaded>>

Load(t) ==
  /\ pc[t] = "load"
  /\ loaded' = [loaded EXCEPT ![t] = refs[at[t]]]
  /\ pc' = [pc EXCEPT ![t] = "store"]
  /\ UNCHANGED <<choice, heap, mutex, thread, at>>

Store(t) ==
  /\ pc[t] = "store"
  /\ refs' = [refs EXCEPT ![at[t]] = loaded[t] - 1]
  /\ pc' = [pc EXCEPT ![t] = "test"]
  /\ UNCHANGED <<choice, alive, num_nodes, mutex, thread, at, loaded>>

\* The value dec_refs returns.
Result(t) == IF build = "register" THEN loaded[t] - 1 ELSE refs[at[t]]

\* release_node returns.
Finish(t) ==
  /\ mutex' = IF mutex = t THEN None ELSE mutex
  /\ at' = [at EXCEPT ![t] = None]
  /\ pc' = [pc EXCEPT ![t] =
              IF pending[t] = {} /\ branched[t] = None THEN "idle" ELSE "release"]

\* References are left: the walk ends.
Stay(t) ==
  /\ pc[t] = "test" /\ Result(t) # 0
  /\ Finish(t)
  /\ UNCHANGED <<choice, heap, thread, loaded>>

\* The last reference is gone: free the node, and go on with its parent.
Free(t) ==
  /\ pc[t] = "test" /\ Result(t) = 0
  /\ alive' = alive \ {at[t]}
  /\ num_nodes' = [num_nodes EXCEPT ![TreeOf(t)] = @ - 1]
  /\ IF Parent[at[t]] = None
     THEN Finish(t)
     ELSE /\ at' = [at EXCEPT ![t] = Parent[at[t]]]
          /\ pc' = [pc EXCEPT ![t] = "load"]
          /\ UNCHANGED mutex
  /\ UNCHANGED <<choice, refs, thread, loaded>>

Quiet == \A t \in Thread : pc[t] = "idle" /\ holds[t] = {}

Next ==
  \/ \E t \in Thread :
       \/ Branch(t) \/ Clean(t) \/ Release(t) \/ Load(t) \/ Store(t) \/ Stay(t) \/ Free(t)
       \/ \E u \in Thread : Share(t, u)
  \/ Quiet /\ UNCHANGED vars

Spec == Init /\ [][Next]_vars

----------------------------------------------------------------------------
\* Thread t is going to read or write the element of at[t].
Touches(t) == pc[t] \in {"load", "store"} \/ (pc[t] = "test" /\ build = "memory")

\* The nodes thread t may still dereference.
InUse(t) ==
  holds[t] \cup pending[t] \cup ({branched[t]} \ {None})
    \cup {n \in {at[t]} : Touches(t)}

\* Nothing is freed too early: a node that a thread holds or releases is still
\* there, and so, as transform_node reads the edges of all its ancestors, is
\* every ancestor of it, although the counts are updated without protection.
NoUseAfterFree ==
  /\ \A t \in Thread : InUse(t) \subseteq alive
  /\ \A n \in alive \ {Root} : Parent[n] \in alive

\* CHECK(search_tree_->num_unfreed_nodes() == 0) at the end of solve, for the tree
\* with the mutex: when the containers are empty every node has been freed.
LockedFreesAll == variant = "locked" /\ Quiet => num_nodes[None] = 0
=============================================================================
