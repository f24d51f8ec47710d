-------------------------- MODULE SerialBNB_proofs --------------------------
(***************************************************************************)
(* The abstract branch and bound finds a shortest tour, for every search   *)
(* tree and every solver that honours SolverContract; SerialBNB and        *)
(* SimpleBNB carry it out, and so return the length of a shortest tour.    *)
(* What is shown of the abstract algorithm holds of the parallel engine    *)
(* too: ParallelBNB_proofs takes it from here.                             *)
(***************************************************************************)
EXTENDS SerialBNB, TLAPS

\* The search is not, or not fully, carried out.
Cut == g_interruped \/ ~searched

----------------------------------------------------------------------------
(* What branch does, for the engines too.                                  *)

\* The children of a node are nodes.
LEMMA ChildType == \A n \in Node : ChildSet(n) \subseteq Node
<1> SUFFICES ASSUME NEW n \in Node, NEW i \in DOMAIN Children[n]
             PROVE  Children[n][i] \in Node
  BY DEF ChildSet
<1>1. Children[n] \in Seq(Node)
  BY TreeAssumption
<1>2. DOMAIN Children[n] = 1..Len(Children[n])
  BY <1>1
<1> QED BY <1>1, <1>2

\* What branch leaves in the record: a value it may have, no more than before and no
\* more than that of any child that is a tour.
LEMMA RecordType ==
  ASSUME NEW n \in Node, NEW r \in Int, NEW v, IsNewRecord(n, r, v)
  PROVE  /\ v \in Int /\ v <= r
         /\ v \in {r} \cup {Value[c] : c \in ChildSet(n) \cap Tour}
         /\ ~Pruned(n, r) => \A c \in ChildSet(n) \cap Tour : v <= Value[c]
         /\ Pruned(n, r) => v = r
<1>1. v \in Records(n, r) /\ \A w \in Records(n, r) : v <= w
  BY DEF IsNewRecord
<1>2. v \in {r} \cup {Value[c] : c \in ChildSet(n) \cap Tour}
  BY <1>1 DEF Records
<1>3. v \in Int
  BY <1>2, ChildType, TypeAssumption
<1>4. v <= r
  BY <1>1 DEF Records
<1>5. ~Pruned(n, r) => \A c \in ChildSet(n) \cap Tour : v <= Value[c]
  BY <1>1 DEF Records
<1>6. Pruned(n, r) => v = r
  BY <1>1 DEF Records
<1> QED BY <1>2, <1>3, <1>4, <1>5, <1>6

\* A child that branch does not keep is no better than the record it leaves behind:
\* it is a tour, its bound reaches the record, or it reaches that of a tour before it.
LEMMA DroppedChild ==
  ASSUME NEW n \in Node, NEW r \in Int, NEW v, IsNewRecord(n, r, v), ~Pruned(n, r),
         NEW c \in ChildSet(n), c \notin Kept(n, r)
  PROVE  v <= Value[c]
<1>1. PICK i \in DOMAIN Children[n] : c = Children[n][i]
  BY DEF ChildSet
<1>2. v \in Int /\ v <= r /\ \A d \in ChildSet(n) \cap Tour : v <= Value[d]
  BY RecordType
<1>3. c \in Node /\ Value[c] \in Int
  BY ChildType, TypeAssumption
<1>4. CASE c \in Tour
  BY <1>2, <1>4
<1>5. CASE ~(Value[c] < r)
  BY <1>2, <1>3, <1>5
<1>6. CASE \E j \in 1..(i-1) : /\ Children[n][j] \in Tour
                               /\ ~(Value[c] < Value[Children[n][j]])
  <2>1. PICK j \in 1..(i-1) : /\ Children[n][j] \in Tour
                              /\ ~(Value[c] < Value[Children[n][j]])
    BY <1>6
  <2>2. DOMAIN Children[n] = 1..Len(Children[n]) /\ Len(Children[n]) \in Nat
    BY TreeAssumption
  <2>3. j \in DOMAIN Children[n]
    BY <1>1, <2>2
  <2>4. Children[n][j] \in ChildSet(n) \cap Tour
    BY <2>1, <2>3 DEF ChildSet
  <2>5. Value[Children[n][j]] \in Int
    BY <2>4, ChildType, TypeAssumption
  <2>6. v <= Value[Children[n][j]]
    BY <1>2, <2>4
  <2> QED BY <1>2, <1>3, <2>1, <2>5, <2>6
<1> QED BY <1>1, <1>3, <1>4, <1>5, <1>6 DEF Kept

\* branch keeps children that are no tours.
LEMMA KeptType ==
  ASSUME NEW n \in Node, NEW r \in Int
  PROVE  Kept(n, r) \subseteq ChildSet(n) \ Tour /\ Kept(n, r) \subseteq Node
BY DEF Kept, ChildSet

----------------------------------------------------------------------------
\* Coverage is inductive once open nodes are known to be branched completely.
AbstractInv == BB!TypeOK /\ BB!OpenNonTours /\ BB!Coverage

LEMMA AbstractInitInv ==
  ASSUME BB!RecordAssumption, SolverContract, BB!Init
  PROVE  AbstractInv
<1>1. BB!TypeOK
  BY TreeAssumption DEF BB!Init, BB!TypeOK, BB!RecordAssumption
<1>2. BB!OpenNonTours
  BY DEF BB!Init, BB!OpenNonTours
<1>3. BB!Coverage
  BY DEF BB!Init, BB!Coverage, SolverContract, AllTours
<1> QED BY <1>1, <1>2, <1>3 DEF AbstractInv

\* Dropping a node whose bound has reached the incumbent loses no better tour.
LEMMA AbstractPruneInv ==
  ASSUME SolverContract, AbstractInv, NEW n \in nodes, BB!Prune(n), UNCHANGED Cut
  PROVE  AbstractInv'
<1> USE DEF AbstractInv
<1>1. BB!TypeOK'
  BY DEF BB!TypeOK, BB!Prune
<1>2. BB!OpenNonTours'
  BY DEF BB!OpenNonTours, BB!Prune
<1>3. ASSUME ~Cut, NEW s \in Solution, ~(record <= Cost[s])
      PROVE  \E m \in nodes' : s \in Sols[m]
  <2>1. PICK m \in nodes : s \in Sols[m]
    BY <1>3 DEF BB!Coverage, Cut
  <2>2. m # n
    <3>1. n \in Node /\ record \in Int /\ record <= Value[n]
      BY TypeAssumption DEF BB!TypeOK, BB!Prune
    <3>2. s \in Sols[n] => Value[n] <= Cost[s]
      BY <3>1 DEF SolverContract, Bounds
    <3>3. Value[n] \in Int /\ Cost[s] \in Int
      BY <3>1, TypeAssumption
    <3> QED BY <2>1, <3>1, <3>2, <3>3, <1>3
  <2> QED BY <2>1, <2>2 DEF BB!Prune
<1>4. BB!Coverage'
  BY <1>3 DEF BB!Coverage, BB!Prune, Cut
<1> QED BY <1>1, <1>2, <1>4

\* Replacing a node by those of its children that could contain a better tour
\* loses none, since the children together keep the tours of the node.
LEMMA AbstractExpandInv ==
  ASSUME SolverContract, AbstractInv, NEW n \in nodes, BB!Expand(n), UNCHANGED Cut
  PROVE  AbstractInv'
<1> USE DEF AbstractInv
<1>0. PICK kept \in SUBSET (ChildSet(n) \ Tour) :
        /\ \A c \in ChildSet(n) \ kept : record' <= Value[c]
        /\ nodes' = (nodes \ {n}) \cup kept
  BY DEF BB!Expand, BB!ChildSet, ChildSet
<1>1. n \in Node /\ ChildSet(n) \subseteq Node /\ kept \subseteq Node
  BY ChildType DEF BB!TypeOK
<1>2. record' \in Int /\ record \in Int /\ record' <= record
  BY <1>1, TypeAssumption DEF BB!Expand, BB!TypeOK
<1>3. BB!TypeOK'
  BY <1>0, <1>1, <1>2 DEF BB!TypeOK
<1>4. BB!OpenNonTours'
  BY <1>0 DEF BB!OpenNonTours
<1>5. ASSUME ~Cut, NEW s \in Solution, ~(record' <= Cost[s])
      PROVE  \E m \in nodes' : s \in Sols[m]
  <2>1. Cost[s] \in Int
    BY TypeAssumption
  <2>2. PICK m \in nodes : s \in Sols[m]
    BY <1>2, <1>5, <2>1 DEF BB!Coverage, Cut
  <2>3. CASE m # n
    BY <2>2, <2>3, <1>0
  <2>4. CASE m = n
    <3>1. n \in {Root} \cup (Node \ Tour)
      BY <1>1 DEF BB!OpenNonTours
    <3>2. PICK c \in ChildSet(n) : s \in Sols[c]
      BY <2>2, <2>4, <3>1 DEF SolverContract, Covers
    <3>3. Value[c] <= Cost[s] /\ Value[c] \in Int
      BY <3>2, <1>1, TypeAssumption DEF SolverContract, Bounds
    <3>4. c \in kept
      BY <1>0, <1>2, <1>5, <2>1, <3>2, <3>3
    <3> QED BY <3>2, <3>4, <1>0
  <2> QED BY <2>3, <2>4
<1>6. BB!Coverage'
  BY <1>5 DEF BB!Coverage, Cut
<1> QED BY <1>3, <1>4, <1>6

LEMMA AbstractStepInv ==
  ASSUME SolverContract, AbstractInv, [BB!Next]_(BB!vars)
  PROVE  AbstractInv'
<1>1. CASE \E n \in nodes : BB!Prune(n) /\ UNCHANGED Cut
  BY <1>1, AbstractPruneInv
<1>2. CASE \E n \in nodes : BB!Expand(n) /\ UNCHANGED Cut
  BY <1>2, AbstractExpandInv
<1>3. CASE BB!Interrupt
  BY <1>3 DEF BB!Interrupt, AbstractInv, BB!TypeOK, BB!OpenNonTours, BB!Coverage
<1>4. CASE BB!Abandon
  BY <1>4 DEF BB!Abandon, AbstractInv, BB!TypeOK, BB!OpenNonTours, BB!Coverage
<1>5. CASE UNCHANGED BB!vars
  BY <1>5 DEF BB!vars, AbstractInv, BB!TypeOK, BB!OpenNonTours, BB!Coverage
<1> QED BY <1>1, <1>2, <1>3, <1>4, <1>5 DEF BB!Next, Cut

THEOREM AbstractInvHolds ==
  ASSUME BB!RecordAssumption, SolverContract
  PROVE  BB!Spec => []AbstractInv
<1>1. BB!Init => AbstractInv
  BY AbstractInitInv
<1>2. AbstractInv /\ [BB!Next]_(BB!vars) => AbstractInv'
  BY AbstractStepInv
<1> QED BY <1>1, <1>2, PTL DEF BB!Spec

\* The open nodes and the incumbent account for every tour at any time, for
\* every tree: Solver::branch drops nothing that could be better.
THEOREM CoverageHolds ==
  ASSUME BB!RecordAssumption, SolverContract
  PROVE  BB!Spec => []BB!Coverage
<1>1. AbstractInv => BB!Coverage
  BY DEF AbstractInv
<1> QED BY <1>1, AbstractInvHolds, PTL

\* A search that ends by itself has found a shortest tour: the result that the
\* loops of src/bnb return when their containers are empty.
THEOREM OptimalHolds ==
  ASSUME BB!RecordAssumption, SolverContract
  PROVE  BB!Spec => []BB!Optimal
<1>1. AbstractInv => BB!Optimal
  BY DEF AbstractInv, BB!Coverage, BB!Optimal
<1> QED BY <1>1, AbstractInvHolds, PTL

----------------------------------------------------------------------------
(* Where nodes nodes are in the tree.  Nothing here depends on the bounds.  *)

Closed(S) == \A x \in S : ChildSet(x) \subseteq S

\* The nodes below n: those that belong to every set that holds the children of n and
\* of all its members.
Below(n) ==
  {d \in Node : \A S \in SUBSET Node : ChildSet(n) \subseteq S /\ Closed(S) => d \in S}

\* No open node lies below an open node, itself included.
Apart == nodes \subseteq Node /\ \A m, n \in nodes : n \notin Below(m)

LEMMA BelowClosed ==
  ASSUME NEW n \in Node
  PROVE  /\ ChildSet(n) \subseteq Below(n) /\ Below(n) \subseteq Node
         /\ Closed(Below(n))
<1>1. ChildSet(n) \subseteq Below(n) /\ Below(n) \subseteq Node
  BY ChildType DEF Below
<1>2. ASSUME NEW x \in Below(n), NEW c \in ChildSet(x)
      PROVE  c \in Below(n)
  <2>1. c \in Node
    BY <1>1, <1>2, ChildType
  <2>2. ASSUME NEW S \in SUBSET Node, ChildSet(n) \subseteq S, Closed(S)
        PROVE  c \in S
    BY <1>2, <2>2 DEF Below, Closed
  <2> QED BY <2>1, <2>2 DEF Below
<1> QED BY <1>1, <1>2 DEF Closed

LEMMA BelowSmallest ==
  ASSUME NEW n \in Node, NEW S \in SUBSET Node, ChildSet(n) \subseteq S, Closed(S)
  PROVE  Below(n) \subseteq S
BY DEF Below

\* What is below a child is below its parent.
LEMMA BelowChild ==
  ASSUME NEW n \in Node, NEW c \in ChildSet(n)
  PROVE  c \in Below(n) /\ Below(c) \subseteq Below(n)
<1>1. c \in Below(n) /\ c \in Node /\ Closed(Below(n)) /\ Below(n) \subseteq Node
  BY BelowClosed
<1>2. ChildSet(c) \subseteq Below(n)
  BY <1>1 DEF Closed
<1> QED BY <1>1, <1>2, BelowSmallest

\* A child has one parent, so whatever it lies below is that parent or above it.
LEMMA BelowParent ==
  ASSUME NEW m \in Node, NEW c \in ChildSet(m), NEW o \in Node, c \in Below(o)
  PROVE  m = o \/ m \in Below(o)
<1> SUFFICES ASSUME m # o, m \notin Below(o) PROVE FALSE
  OBVIOUS
<1> DEFINE S == Below(o) \ {c}
<1>1. /\ ChildSet(o) \subseteq Below(o) /\ Below(o) \subseteq Node /\ Closed(Below(o))
  BY BelowClosed
<1>2. ChildSet(o) \subseteq S
  BY <1>1, TreeAssumption
<1>3. ASSUME NEW x \in S PROVE ChildSet(x) \subseteq S
  <2>1. ChildSet(x) \subseteq Below(o) /\ x \in Node /\ x # m
    BY <1>1, <1>3 DEF Closed
  <2>2. c \notin ChildSet(x)
    BY <2>1, TreeAssumption
  <2> QED BY <2>1, <2>2
<1>4. Closed(S)
  BY <1>3 DEF Closed
<1>5. S \in SUBSET Node
  BY <1>1
<1> HIDE DEF S
<1>6. Below(o) \subseteq S
  BY <1>2, <1>4, <1>5, BelowSmallest
<1> QED BY <1>6 DEF S

\* The root is nobody's child.
LEMMA RootOnTop == Root \notin Below(Root)
<1> DEFINE S == Node \ {Root}
<1>1. S \in SUBSET Node /\ ChildSet(Root) \subseteq S /\ Closed(S)
  BY ChildType, TreeAssumption DEF Closed
<1> HIDE DEF S
<1>2. Below(Root) \subseteq S
  BY <1>1, TreeAssumption, BelowSmallest
<1> QED BY <1>2 DEF S

\* Replacing a node by some of its children keeps the open nodes apart.
LEMMA ExpandApart ==
  ASSUME Apart, NEW n \in nodes,
         NEW kept \in SUBSET ChildSet(n), nodes' \subseteq (nodes \ {n}) \cup kept
  PROVE  Apart'
<1> SUFFICES ASSUME NEW k \in (nodes \ {n}) \cup kept, NEW l \in (nodes \ {n}) \cup kept,
                    l \in Below(k)
             PROVE  FALSE
  BY ChildType DEF Apart
<1>1. n \in Node /\ k \in Node /\ l \in Node
  BY ChildType DEF Apart
<1>2. \A c \in kept : c \in Below(n) /\ Below(c) \subseteq Below(n)
  BY <1>1, BelowChild
<1>3. CASE l \in nodes
  BY <1>2, <1>3 DEF Apart
<1>4. CASE l \in kept
  <2>1. n = k \/ n \in Below(k)
    BY <1>1, <1>4, BelowParent
  <2>2. CASE k \in nodes \ {n}
    BY <2>1, <2>2 DEF Apart
  <2>3. CASE k \in kept
    BY <2>1, <2>3, <1>2 DEF Apart
  <2> QED BY <2>2, <2>3
<1> QED BY <1>3, <1>4

LEMMA InitApart == BB!Init => Apart
BY RootOnTop, TreeAssumption DEF BB!Init, Apart

LEMMA StepApart == Apart /\ [BB!Next]_(BB!vars) => Apart'
<1> SUFFICES ASSUME Apart, [BB!Next]_(BB!vars) PROVE Apart'
  OBVIOUS
<1>1. ASSUME NEW n \in nodes, BB!Prune(n) PROVE Apart'
  BY <1>1 DEF BB!Prune, Apart
<1>2. ASSUME NEW n \in nodes, BB!Expand(n) PROVE Apart'
  BY <1>2, ExpandApart DEF BB!Expand, BB!ChildSet, ChildSet
<1>3. CASE BB!Interrupt \/ UNCHANGED BB!vars
  BY <1>3 DEF BB!Interrupt, BB!vars, Apart
<1>4. CASE BB!Abandon
  BY <1>4 DEF BB!Abandon, Apart
<1> QED BY <1>1, <1>2, <1>3, <1>4 DEF BB!Next, Cut

\* No engine ever has a node and one of its descendants open together, so a node that
\* has been branched does not come back: create_node gives each child one parent.
THEOREM ApartHolds == BB!Spec => []Apart
BY InitApart, StepApart, PTL DEF BB!Spec

----------------------------------------------------------------------------
(* The serial engines.                                                     *)

LEMMA InitType == Init => TypeOK
<1> SUFFICES ASSUME Init PROVE TypeOK
  OBVIOUS
<1>1. PICK rank \in Ranks, initSol \in Solution :
        /\ searched = (rank = "large")
        /\ record = IF searched THEN StartRecord(engine, given, Cost[initSol]) ELSE given
  BY DEF Init
<1>2. given \in Int /\ Cost[initSol] \in Int
  BY EngineAssumption, TypeAssumption DEF Init
<1>3. record \in Int
  BY <1>1, <1>2 DEF StartRecord
<1> QED BY <1>1, <1>3, TreeAssumption DEF Init, TypeOK

LEMMA StepType == TypeOK /\ [Next]_vars => TypeOK'
<1> SUFFICES ASSUME TypeOK, [Next]_vars PROVE TypeOK'
  OBVIOUS
<1>1. CASE Branch
  <2>a. PICK n \in nodes : \E v \in Records(n, record) :
          /\ IsNewRecord(n, record, v)
          /\ record' = v
          /\ nodes' = (nodes \ {n}) \cup Kept(n, record)
    BY <1>1 DEF Branch
  <2>1. PICK v \in Records(n, record) :
          /\ IsNewRecord(n, record, v)
          /\ record' = v
          /\ nodes' = (nodes \ {n}) \cup Kept(n, record)
    BY <2>a
  <2>2. n \in Node /\ record \in Int
    BY DEF TypeOK
  <2>3. record' \in Int
    BY <2>1, <2>2, RecordType
  <2>4. nodes' \subseteq Node
    BY <2>1, <2>2, KeptType, ChildType DEF TypeOK
  <2> QED BY <1>1, <2>3, <2>4 DEF Branch, TypeOK, inputs
<1>2. CASE Return
  BY <1>2 DEF Return, TypeOK, inputs
<1>3. CASE Interrupt
  BY <1>3 DEF Interrupt, TypeOK, inputs
<1>4. CASE UNCHANGED vars
  BY <1>4 DEF vars, inputs, TypeOK
<1> QED BY <1>1, <1>2, <1>3, <1>4 DEF Next

\* The container holds nodes and the record is an integer throughout solve.
THEOREM TypeOKHolds == Spec => []TypeOK
  BY InitType, StepType, PTL DEF Spec

-----------------------------------------------------------------------------
LEMMA InitRefines == Init => BB!Init
<1> SUFFICES ASSUME Init PROVE BB!Init
  OBVIOUS
<1>1. PICK rank \in Ranks, initSol \in Solution :
        /\ searched = (rank = "large")
        /\ record = IF searched THEN StartRecord(engine, given, Cost[initSol]) ELSE given
  BY DEF Init
<1>2. record \in GivenRecord \cup {Cost[s] : s \in Solution}
  BY <1>1 DEF Init, StartRecord
<1>3. searched \in BOOLEAN /\ g_interruped = FALSE
  BY <1>1 DEF Init
<1>4. \/ nodes = {Root} /\ (g_interruped \/ ~searched) = FALSE
      \/ nodes = {} /\ (g_interruped \/ ~searched) = TRUE
  BY <1>3 DEF Init
<1> QED BY <1>2, <1>4 DEF BB!Init

\* One round of the loop prunes the node or expands it.
LEMMA BranchRefines == TypeOK /\ Branch => BB!Next
<1> SUFFICES ASSUME TypeOK, Branch PROVE BB!Next
  OBVIOUS
<1>a. PICK n \in nodes : \E v \in Records(n, record) :
        /\ IsNewRecord(n, record, v)
        /\ record' = v
        /\ nodes' = (nodes \ {n}) \cup Kept(n, record)
  BY DEF Branch
<1>1. PICK v \in Records(n, record) :
        /\ IsNewRecord(n, record, v)
        /\ record' = v
        /\ nodes' = (nodes \ {n}) \cup Kept(n, record)
  BY <1>a
<1>2. n \in Node /\ record \in Int /\ Value[n] \in Int
  BY TypeAssumption DEF TypeOK
<1>3. (g_interruped \/ ~searched)' = (g_interruped \/ ~searched)
  BY DEF Branch, inputs
<1>4. CASE Pruned(n, record)
  <2>1. record' = record
    BY <1>1, <1>2, <1>4, RecordType
  <2>2. nodes' = nodes \ {n}
    BY <1>1, <1>4 DEF Kept
  <2>3. BB!Prune(n)
    BY <1>4, <2>1, <2>2 DEF BB!Prune, Pruned
  <2> QED BY <1>3, <2>3 DEF BB!Next
<1>5. CASE ~Pruned(n, record)
  <2>1. record' \in {record} \cup {Value[c] : c \in ChildSet(n) \cap Tour}
        /\ record' <= record
    BY <1>1, <1>2, RecordType
  <2>2. Kept(n, record) \in SUBSET (ChildSet(n) \ Tour)
    BY <1>2, KeptType
  <2>3. \A c \in ChildSet(n) \ Kept(n, record) : record' <= Value[c]
    BY <1>1, <1>2, <1>5, DroppedChild
  <2>4. BB!Expand(n)
    BY <1>1, <2>1, <2>2, <2>3 DEF BB!Expand, BB!ChildSet, ChildSet
  <2> QED BY <1>3, <2>4 DEF BB!Next
<1> QED BY <1>4, <1>5

LEMMA StepRefines == TypeOK /\ [Next]_vars => [BB!Next]_(BB!vars)
<1> SUFFICES ASSUME TypeOK, [Next]_vars PROVE [BB!Next]_(BB!vars)
  OBVIOUS
<1>1. CASE Branch
  BY <1>1, BranchRefines
<1>2. CASE Return
  <2>1. CASE nodes = {}
    BY <1>2, <2>1 DEF Return, inputs, BB!vars
  <2>2. CASE g_interruped
    <3>1. BB!Abandon
      BY <1>2, <2>2 DEF Return, inputs, BB!Abandon
    <3> QED BY <3>1 DEF BB!Next
  <2> QED BY <1>2, <2>1, <2>2 DEF Return
<1>3. CASE Interrupt
  <2>1. BB!Interrupt
    BY <1>3 DEF Interrupt, BB!Interrupt
  <2> QED BY <2>1 DEF BB!Next
<1>4. CASE UNCHANGED vars
  BY <1>4 DEF vars, inputs, BB!vars
<1> QED BY <1>1, <1>2, <1>3, <1>4 DEF Next

\* Every call of solve carries out the abstract algorithm, one node per round.
THEOREM RefinesBranchAndBound == Spec => ImplementsBranchAndBound
<1>1. Spec => []TypeOK
  BY TypeOKHolds
<1>2. Init => BB!Init
  BY InitRefines
<1>3. TypeOK /\ [Next]_vars => [BB!Next]_(BB!vars)
  BY StepRefines
<1> QED BY <1>1, <1>2, <1>3, PTL DEF Spec, ImplementsBranchAndBound, BB!Spec

-----------------------------------------------------------------------------
\* What the loop keeps: every tour is accounted for, by the record or by a node of
\* the container, and the record is a value that solve may report.
Reported ==
  searched => /\ record \in {given} \cup {Cost[s] : s \in Solution}
              /\ engine = "serial" => record <= given

Inv ==
  /\ TypeOK
  /\ AbstractInv
  /\ Reported
  /\ ~running => nodes = {}

LEMMA StartAssumption == BB!RecordAssumption
  BY EngineAssumption, TypeAssumption DEF BB!RecordAssumption

LEMMA InitReported == Init => Reported
<1> SUFFICES ASSUME Init PROVE Reported
  OBVIOUS
<1>1. PICK rank \in Ranks, initSol \in Solution :
        /\ searched = (rank = "large")
        /\ record = IF searched THEN StartRecord(engine, given, Cost[initSol]) ELSE given
  BY DEF Init
<1>2. given \in Int /\ Cost[initSol] \in Int
  BY EngineAssumption, TypeAssumption DEF Init
<1> QED BY <1>1, <1>2 DEF StartRecord, Reported

\* The value of a node that is a tour is the length of some tour.
LEMMA BranchReported == Attains /\ TypeOK /\ Reported /\ Branch => Reported'
<1> SUFFICES ASSUME Attains, TypeOK, Reported, Branch, searched' PROVE Reported'
  BY DEF Reported
<1>a. PICK n \in nodes : \E v \in Records(n, record) :
        /\ IsNewRecord(n, record, v)
        /\ record' = v
        /\ nodes' = (nodes \ {n}) \cup Kept(n, record)
  BY DEF Branch
<1>1. PICK v \in Records(n, record) : IsNewRecord(n, record, v) /\ record' = v
  BY <1>a
<1>2. n \in Node /\ record \in Int /\ given \in Int
  BY EngineAssumption DEF TypeOK
<1>3. /\ record' \in {record} \cup {Value[c] : c \in ChildSet(n) \cap Tour}
      /\ record' <= record /\ record' \in Int
  BY <1>1, <1>2, RecordType
<1>4. searched /\ given' = given /\ engine' = engine
  BY DEF Branch, inputs
<1>5. record \in {given} \cup {Cost[s] : s \in Solution}
  BY <1>4 DEF Reported
<1>6. record' \in {given} \cup {Cost[s] : s \in Solution}
  BY <1>3, <1>5 DEF Attains
<1>7. engine' = "serial" => record' <= given
  BY <1>2, <1>3, <1>4 DEF Reported
<1> QED BY <1>4, <1>6, <1>7 DEF Reported

LEMMA InitInv == SolverContract /\ Init => Inv
<1> SUFFICES ASSUME SolverContract, Init PROVE Inv
  OBVIOUS
<1>2. AbstractInv
  BY InitRefines, StartAssumption, AbstractInitInv
<1>3. ~running => nodes = {}
  BY DEF Init
<1> QED BY <1>2, <1>3, InitType, InitReported DEF Inv

LEMMA StepInv == SolverContract /\ Inv /\ [Next]_vars => Inv'
<1> SUFFICES ASSUME SolverContract, Inv, [Next]_vars PROVE Inv'
  OBVIOUS
<1>1. TypeOK'
  BY StepType DEF Inv
<1>2. AbstractInv'
  BY StepRefines, StartAssumption, AbstractStepInv DEF Inv
<1>3. Reported'
  <2>1. CASE Branch
    BY <2>1, BranchReported DEF Inv, SolverContract
  <2>2. CASE Return
    BY <2>2 DEF Return, inputs, Inv, Reported
  <2>3. CASE Interrupt
    BY <2>3 DEF Interrupt, inputs, Inv, Reported
  <2>4. CASE UNCHANGED vars
    BY <2>4 DEF vars, inputs, Inv, Reported
  <2> QED BY <2>1, <2>2, <2>3, <2>4 DEF Next
<1>4. (~running => nodes = {})'
  BY DEF Inv, Next, Branch, Return, Interrupt, vars
<1> QED BY <1>1, <1>2, <1>3, <1>4 DEF Inv

LEMMA InvHolds ==
  ASSUME SolverContract
  PROVE  Spec => []Inv
<1>1. Init => Inv
  BY InitInv
<1>2. Inv /\ [Next]_vars => Inv'
  BY StepInv
<1> QED BY <1>1, <1>2, PTL DEF Spec

\* A solve that no signal cuts short returns the length of a shortest tour, or a given
\* record that no tour beats: for every tree, either engine and any order of the
\* container.
THEOREM ResultOptimalHolds ==
  ASSUME SolverContract
  PROVE  Spec => []ResultOptimal
<1>1. Inv => ResultOptimal
  BY DEF Inv, ResultOptimal, TypeOK, AbstractInv, BB!Coverage, Cut
<1> QED BY <1>1, InvHolds, PTL

\* Interrupted or not, solve reports the record it was given or the length of a tour,
\* and SerialBNB never more than the record.
THEOREM ResultGenuineHolds ==
  ASSUME SolverContract
  PROVE  Spec => []ResultGenuine
<1>1. Inv => ResultGenuine
  BY DEF Inv, Reported, ResultGenuine
<1> QED BY <1>1, InvHolds, PTL
=============================================================================
