-------------------------- MODULE SearchTree_proofs --------------------------
(***************************************************************************)
(* No node is freed while somebody may still use it, for any tree and any  *)
(* number of threads: with the mutex, and without it as long as dec_refs   *)
(* compares the value it has computed.  A lost update of a reference count *)
(* only leaves the count too high.  With the mutex the counts are exact,   *)
(* and every node has been freed when the containers are empty.            *)
(***************************************************************************)
EXTENDS SearchTree, FiniteSetTheorems, TLAPS

\* dec_refs does not read back a count that another thread may have changed.
Safe == ~(variant = "mt" /\ build = "memory")

\* The build in which it does is not one that is run.
RegisterIfShared == <<"mt", "memory">> \notin Settings

(* Who has a claim on a node: each claim is one reference.                 *)

Kids(n) == {c \in alive : Parent[c] = n}

Has(t) == holds[t] \cup pending[t] \cup ({branched[t]} \ {None})
Holders(n) == {t \in Thread : n \in Has(t)}

\* The threads that have yet to lower the count of n.
Walking(t) == pc[t] \in {"load", "store"}
Walkers(n) == {t \in Thread : at[t] = n /\ Walking(t)}

Claims(n) ==
  Cardinality(Kids(n)) + Cardinality(Holders(n)) + Cardinality(Walkers(n))

----------------------------------------------------------------------------
(* The invariant.                                                          *)

\* A node is in one place of one thread.
Places ==
  \A t \in Thread :
    /\ pc[t] \in {"idle", "release"} <=> at[t] = None
    /\ pc[t] = "idle" => pending[t] = {} /\ branched[t] = None
    /\ holds[t] \cap pending[t] = {} /\ branched[t] \notin holds[t] \cup pending[t]
    /\ \A u \in Thread : t # u => Has(t) \cap Has(u) = {}

MutexHeld ==
  variant = "locked" => \A t \in Thread : at[t] # None <=> mutex = t

\* What is claimed, and what lies above it, is there.
Rooted == \A n \in alive \ {Root} : Parent[n] \in alive
Claimed == \A t \in Thread : Has(t) \subseteq alive /\ (Walking(t) => at[t] \in alive)

\* A node in a container has not been branched: nothing hangs on it yet.
Unbranched ==
  \A t \in Thread : \A n \in holds[t] : Kids(n) = {} /\ Walkers(n) = {}

\* A count may be too high, in memory and in a register, but not too low.
Counted == \A n \in alive : Claims(n) <= refs[n]
Loaded ==
  \A t \in Thread, n \in Node :
    pc[t] = "store" /\ at[t] = n => Claims(n) <= loaded[t]

\* Whoever finds that it gave up the last reference is alone in this.
Last(t) == pc[t] = "test" /\ loaded[t] = 1
LastIsLast ==
  \A t \in Thread, n \in Node : Last(t) /\ at[t] = n =>
    /\ n \in alive /\ Claims(n) = 0
    /\ \A u \in Thread : Last(u) /\ at[u] = n => u = t

\* Under the mutex the count read back is the one that was written.
ReadBack ==
  variant = "locked" =>
    \A t \in Thread : pc[t] = "test" => at[t] \in alive /\ refs[at[t]] = loaded[t] - 1

Inv ==
  /\ TypeOK /\ Places /\ MutexHeld /\ Rooted /\ Claimed /\ Unbranched
  /\ Counted /\ Loaded /\ LastIsLast /\ ReadBack

(* With the mutex, moreover, the counts are exact.                         *)

Exact == \A n \in alive : refs[n] = Claims(n)
Fresh == \A t \in Thread : pc[t] = "store" => loaded[t] = refs[at[t]]

\* A count of zero does not outlast the walk that has found it.
Positive ==
  \A n \in alive : refs[n] > 0 \/ \E t \in Thread : pc[t] = "test" /\ at[t] = n

\* There is a node at the bottom of any part of the tree.
Founded == \A S \in SUBSET alive : S # {} => \E n \in S : Kids(n) \cap S = {}

Accounted == num_nodes[None] = Cardinality(alive)

Locked == variant = "locked" => Exact /\ Fresh /\ Positive /\ Founded /\ Accounted

----------------------------------------------------------------------------
(* Counting claims.                                                        *)

LEMMA ClaimsType ==
  ASSUME TypeOK, NEW n
  PROVE  /\ IsFiniteSet(Kids(n)) /\ IsFiniteSet(Holders(n)) /\ IsFiniteSet(Walkers(n))
         /\ Cardinality(Kids(n)) \in Nat /\ Cardinality(Holders(n)) \in Nat
         /\ Cardinality(Walkers(n)) \in Nat /\ Claims(n) \in Nat
<1>1. Kids(n) \subseteq Node /\ Holders(n) \subseteq Thread /\ Walkers(n) \subseteq Thread
  BY DEF TypeOK, Kids, Holders, Walkers
<1>2. IsFiniteSet(Kids(n)) /\ IsFiniteSet(Holders(n)) /\ IsFiniteSet(Walkers(n))
  BY <1>1, TreeAssumption, FS_Subset
<1>3. /\ Cardinality(Kids(n)) \in Nat /\ Cardinality(Holders(n)) \in Nat
      /\ Cardinality(Walkers(n)) \in Nat
  BY <1>2, FS_CardinalityType
<1> QED BY <1>2, <1>3 DEF Claims

LEMMA ClaimsTypeNext ==
  ASSUME TypeOK', NEW n
  PROVE  /\ IsFiniteSet(Kids(n)') /\ IsFiniteSet(Holders(n)') /\ IsFiniteSet(Walkers(n)')
         /\ Cardinality(Kids(n)') \in Nat /\ Cardinality(Holders(n)') \in Nat
         /\ Cardinality(Walkers(n)') \in Nat /\ Claims(n)' \in Nat
<1>1. Kids(n)' \subseteq Node /\ Holders(n)' \subseteq Thread /\ Walkers(n)' \subseteq Thread
  BY DEF TypeOK, Kids, Holders, Walkers
<1>2. IsFiniteSet(Kids(n)') /\ IsFiniteSet(Holders(n)') /\ IsFiniteSet(Walkers(n)')
  BY <1>1, TreeAssumption, FS_Subset
<1>3. /\ Cardinality(Kids(n)') \in Nat /\ Cardinality(Holders(n)') \in Nat
      /\ Cardinality(Walkers(n)') \in Nat
  BY <1>2, FS_CardinalityType
<1> QED BY <1>2, <1>3 DEF Claims

LEMMA CountMore ==
  ASSUME NEW S, IsFiniteSet(S), NEW x, x \notin S
  PROVE  Cardinality(S \cup {x}) = Cardinality(S) + 1
BY FS_AddElement

LEMMA CountLess ==
  ASSUME NEW S, IsFiniteSet(S), NEW x \in S
  PROVE  Cardinality(S \ {x}) = Cardinality(S) - 1
BY FS_RemoveElement

\* Fewer claims count less.
LEMMA ClaimsFall ==
  ASSUME TypeOK, NEW n, Kids(n)' \subseteq Kids(n), Holders(n)' \subseteq Holders(n),
         Walkers(n)' \subseteq Walkers(n)
  PROVE  Claims(n)' \in Nat /\ Claims(n)' <= Claims(n)
<1>1. /\ IsFiniteSet(Kids(n)) /\ IsFiniteSet(Holders(n)) /\ IsFiniteSet(Walkers(n))
      /\ Cardinality(Kids(n)) \in Nat /\ Cardinality(Holders(n)) \in Nat
      /\ Cardinality(Walkers(n)) \in Nat
  BY ClaimsType
<1>2. /\ Cardinality(Kids(n)') <= Cardinality(Kids(n)) /\ IsFiniteSet(Kids(n)')
      /\ Cardinality(Holders(n)') <= Cardinality(Holders(n)) /\ IsFiniteSet(Holders(n)')
      /\ Cardinality(Walkers(n)') <= Cardinality(Walkers(n)) /\ IsFiniteSet(Walkers(n)')
  BY <1>1, FS_Subset
<1>3. /\ Cardinality(Kids(n)') \in Nat /\ Cardinality(Holders(n)') \in Nat
      /\ Cardinality(Walkers(n)') \in Nat
  BY <1>2, FS_CardinalityType
<1> QED BY <1>1, <1>2, <1>3 DEF Claims

\* One claim at least is more than none.
LEMMA ClaimsPositive ==
  ASSUME TypeOK, NEW n, Kids(n) # {} \/ Holders(n) # {} \/ Walkers(n) # {}
  PROVE  Claims(n) >= 1
<1>1. /\ IsFiniteSet(Kids(n)) /\ IsFiniteSet(Holders(n)) /\ IsFiniteSet(Walkers(n))
      /\ Cardinality(Kids(n)) \in Nat /\ Cardinality(Holders(n)) \in Nat
      /\ Cardinality(Walkers(n)) \in Nat
  BY ClaimsType
<1>2. \/ Cardinality(Kids(n)) # 0
      \/ Cardinality(Holders(n)) # 0
      \/ Cardinality(Walkers(n)) # 0
  BY <1>1, FS_EmptySet
<1> QED BY <1>1, <1>2 DEF Claims

\* The same sets, the same claims.
LEMMA ClaimsSame ==
  ASSUME NEW n, Kids(n)' = Kids(n), Holders(n)' = Holders(n), Walkers(n)' = Walkers(n)
  PROVE  Claims(n)' = Claims(n)
BY DEF Claims

\* The thread that has yet to lower the count of n has a claim, and so has a holder.
LEMMA WhoClaims ==
  ASSUME TypeOK, NEW t \in Thread, NEW n, (at[t] = n /\ Walking(t)) \/ n \in Has(t)
  PROVE  Claims(n) >= 1
BY ClaimsPositive DEF Holders, Walkers

----------------------------------------------------------------------------
(* Each step.                                                              *)

LEMMA InitInv == Init => Inv
<1> SUFFICES ASSUME Init PROVE Inv
  OBVIOUS
<1> PICK o \in Thread :
      /\ holds = [u \in Thread |-> IF u = o THEN {Root} ELSE {}]
      /\ num_nodes = [u \in Thread \cup {None} |-> IF u = TreeOf(o) THEN 1 ELSE 0]
  BY DEF Init
<1>1. TypeOK
  BY TreeAssumption DEF Init, TypeOK
<1>2. /\ \A t \in Thread : Has(t) = IF t = o THEN {Root} ELSE {}
      /\ \A t \in Thread : ~Walking(t) /\ ~Last(t)
  BY DEF Init, Has, Walking, Last
<1>3. \A n : Walkers(n) = {}
  BY <1>2 DEF Walkers
<1>4. Kids(Root) = {} /\ Holders(Root) = {o}
  BY <1>2, TreeAssumption DEF Init, Kids, Holders
<1>5. Claims(Root) = 1
  BY <1>3, <1>4, FS_EmptySet, FS_Singleton DEF Claims
<1>6. Places /\ MutexHeld
  BY <1>2, TreeAssumption DEF Init, Places, MutexHeld
<1>7. Rooted /\ Claimed
  BY <1>2 DEF Init, Rooted, Claimed
<1>8. Unbranched
  BY <1>3, <1>4 DEF Init, Unbranched
<1>9. Counted /\ Loaded /\ LastIsLast /\ ReadBack
  BY <1>2, <1>5, TreeAssumption DEF Init, Counted, Loaded, LastIsLast, ReadBack
<1> QED BY <1>1, <1>6, <1>7, <1>8, <1>9 DEF Inv

LEMMA CleanInv ==
  ASSUME Inv, NEW t \in Thread, Clean(t)
  PROVE  Inv' /\ \A n \in Node : Claims(n)' = Claims(n)
<1> USE DEF Inv
<1>1. TypeOK'
  BY DEF TypeOK, Clean, choice, heap
<1>2. \A u \in Thread : Has(u)' = Has(u) /\ (Walking(u)' <=> Walking(u)) /\ (Last(u)' <=> Last(u))
  BY DEF TypeOK, Clean, Has, Places, Walking, Last
<1>3. \A n : Kids(n)' = Kids(n) /\ Holders(n)' = Holders(n) /\ Walkers(n)' = Walkers(n)
  BY <1>2 DEF Clean, heap, Kids, Holders, Walkers
<1>4. \A n : Claims(n)' = Claims(n)
  BY <1>3, ClaimsSame
<1>5. Places' /\ MutexHeld'
  BY <1>2 DEF TypeOK, Clean, choice, Places, MutexHeld
<1>6. Rooted' /\ Claimed' /\ Unbranched'
  BY <1>2, <1>3 DEF TypeOK, Clean, heap, Rooted, Claimed, Unbranched
<1>7. Counted' /\ Loaded' /\ LastIsLast' /\ ReadBack'
  BY <1>2, <1>4 DEF TypeOK, Clean, choice, heap, Counted, Loaded, LastIsLast, ReadBack
<1> QED BY <1>1, <1>4, <1>5, <1>6, <1>7

\* A node handed over is claimed once, as before, and nothing hangs on it.
LEMMA ShareInv ==
  ASSUME Inv, NEW t \in Thread, NEW u \in Thread, Share(t, u)
  PROVE  Inv' /\ \A n \in Node : Claims(n)' = Claims(n)
<1> USE DEF Inv
<1> PICK x \in holds[t] : holds' = [holds EXCEPT ![t] = @ \ {x}, ![u] = @ \cup {x}]
  BY DEF Share
<1>0. /\ t # u /\ pc[t] = "idle" /\ pc' = pc /\ at' = at /\ alive' = alive /\ refs' = refs
      /\ mutex' = mutex /\ loaded' = loaded /\ variant' = variant /\ build' = build
      /\ pending' = pending /\ branched' = branched /\ num_nodes' = num_nodes
      /\ pending[t] = {} /\ branched[t] = None
  BY DEF Share, choice, heap, Places
<1>1. TypeOK'
  BY <1>0 DEF TypeOK
<1>2. /\ Has(t)' = Has(t) \ {x} /\ Has(u)' = Has(u) \cup {x} /\ x \in Has(t) /\ x \notin Has(u)
      /\ \A v \in Thread \ {t, u} : Has(v)' = Has(v) /\ x \notin Has(v)
  BY <1>0, TreeAssumption DEF TypeOK, Has, Places
<1>3. \A v \in Thread : (Walking(v)' <=> Walking(v)) /\ (Last(v)' <=> Last(v))
  BY <1>0 DEF Walking, Last
<1>4. \A n : Kids(n)' = Kids(n) /\ Walkers(n)' = Walkers(n)
  BY <1>0, <1>3 DEF Kids, Walkers
<1>5. /\ Holders(x) = {t} /\ Holders(x)' = {u}
      /\ \A n : n # x => Holders(n)' = Holders(n)
  BY <1>2 DEF Holders
<1>6. \A n : Claims(n)' = Claims(n)
  <2>1. Cardinality(Holders(x)') = Cardinality(Holders(x))
    BY <1>5, FS_Singleton
  <2>2. Claims(x)' = Claims(x)
    BY <1>4, <2>1 DEF Claims
  <2>3. ASSUME NEW n, n # x PROVE Claims(n)' = Claims(n)
    BY <1>4, <1>5, <2>3, ClaimsSame
  <2> QED BY <2>2, <2>3
<1>7. Places'
  <2>1. \A v \in Thread : \A w \in Thread : v # w => Has(v)' \cap Has(w)' = {}
    BY <1>2 DEF Places
  <2>2. ASSUME NEW v \in Thread
        PROVE  /\ holds[v]' \cap pending[v]' = {}
               /\ branched[v]' \notin holds[v]' \cup pending[v]'
    BY <1>0, <1>2, TreeAssumption DEF TypeOK, Places, Has
  <2> QED BY <1>0, <2>1, <2>2 DEF Places
<1>8. MutexHeld' /\ Rooted'
  BY <1>0 DEF MutexHeld, Rooted
<1>9. Claimed'
  BY <1>0, <1>2, <1>3 DEF Claimed
<1>10. Unbranched'
  <2> SUFFICES ASSUME NEW v \in Thread, NEW n \in holds[v]'
               PROVE  Kids(n)' = {} /\ Walkers(n)' = {}
    BY DEF Unbranched
  <2>1. n \in holds[v] \/ n = x
    BY <1>0 DEF TypeOK
  <2> QED BY <1>4, <2>1 DEF Unbranched
<1>11. Counted' /\ Loaded'
  BY <1>0, <1>6 DEF Counted, Loaded
<1>12. LastIsLast' /\ ReadBack'
  BY <1>0, <1>3, <1>6 DEF LastIsLast, ReadBack
<1> QED BY <1>1, <1>6, <1>7, <1>8, <1>9, <1>10, <1>11, <1>12

\* The count loaded is no lower than the claims.
LEMMA LoadInv ==
  ASSUME Inv, NEW t \in Thread, Load(t)
  PROVE  Inv' /\ \A n \in Node : Claims(n)' = Claims(n)
<1> USE DEF Inv
<1>0. /\ pc[t] = "load" /\ pc' = [pc EXCEPT ![t] = "store"] /\ at' = at /\ alive' = alive
      /\ refs' = refs /\ mutex' = mutex /\ loaded' = [loaded EXCEPT ![t] = refs[at[t]]]
      /\ variant' = variant /\ build' = build /\ num_nodes' = num_nodes
      /\ holds' = holds /\ pending' = pending /\ branched' = branched
  BY DEF Load, choice, heap, thread
<1>1. at[t] \in alive /\ at[t] \in Node /\ refs[at[t]] \in Nat
  BY <1>0 DEF Claimed, Walking, TypeOK
<1>2. TypeOK'
  BY <1>0, <1>1 DEF TypeOK
<1>3. \A u \in Thread : Has(u)' = Has(u) /\ (Walking(u)' <=> Walking(u)) /\ (Last(u)' <=> Last(u))
  BY <1>0 DEF TypeOK, Has, Walking, Last
<1>4. \A n : Kids(n)' = Kids(n) /\ Holders(n)' = Holders(n) /\ Walkers(n)' = Walkers(n)
  BY <1>0, <1>3 DEF Kids, Holders, Walkers
<1>5. \A n : Claims(n)' = Claims(n)
  BY <1>4, ClaimsSame
<1>6. Places' /\ MutexHeld' /\ Rooted'
  BY <1>0, <1>3 DEF TypeOK, Places, MutexHeld, Rooted
<1>7. Claimed' /\ Unbranched'
  BY <1>0, <1>3, <1>4 DEF Claimed, Unbranched
<1>8. Counted' /\ Loaded'
  BY <1>0, <1>1, <1>5 DEF TypeOK, Counted, Loaded
<1>9. LastIsLast' /\ ReadBack'
  BY <1>0, <1>3, <1>5 DEF TypeOK, LastIsLast, ReadBack
<1> QED BY <1>2, <1>5, <1>6, <1>7, <1>8, <1>9

\* A claim given up is subtracted from a count that included it.
LEMMA StoreInv ==
  ASSUME Inv, NEW t \in Thread, Store(t)
  PROVE  Inv' /\ \A n \in Node : Claims(n)' = Claims(n) - (IF n = at[t] THEN 1 ELSE 0)
<1> USE DEF Inv
<1> PICK m : m = at[t]
  OBVIOUS
<1>0. /\ pc[t] = "store" /\ pc' = [pc EXCEPT ![t] = "test"] /\ at' = at /\ alive' = alive
      /\ refs' = [refs EXCEPT ![m] = loaded[t] - 1] /\ mutex' = mutex /\ loaded' = loaded
      /\ variant' = variant /\ build' = build /\ num_nodes' = num_nodes
      /\ holds' = holds /\ pending' = pending /\ branched' = branched
  BY DEF Store, choice, thread
<1>1. m \in alive /\ m \in Node /\ Walking(t)
  BY <1>0 DEF Claimed, Walking, TypeOK
<1>2. Claims(m) >= 1 /\ Claims(m) \in Nat /\ Claims(m) <= loaded[t] /\ loaded[t] \in Int
  BY <1>0, <1>1, WhoClaims, ClaimsType DEF Loaded, TypeOK
<1>3. TypeOK'
  BY <1>0, <1>1, <1>2 DEF TypeOK
<1>4. /\ \A u \in Thread : Has(u)' = Has(u)
      /\ ~Walking(t)' /\ (Last(t)' <=> loaded[t] = 1) /\ ~Last(t)
      /\ \A u \in Thread \ {t} : (Walking(u)' <=> Walking(u)) /\ (Last(u)' <=> Last(u))
  BY <1>0 DEF TypeOK, Has, Walking, Last
<1>5. \A n : /\ Kids(n)' = Kids(n) /\ Holders(n)' = Holders(n)
             /\ Walkers(n)' = Walkers(n) \ {t}
  BY <1>0, <1>4 DEF Kids, Holders, Walkers
<1>6. \A n : Claims(n)' \in Nat /\ Claims(n)' <= Claims(n) /\ Claims(n) \in Nat
  BY <1>5, ClaimsFall, ClaimsType
<1>7. Claims(m)' = Claims(m) - 1
  <2>1. t \in Walkers(m) /\ IsFiniteSet(Walkers(m))
    BY <1>1, ClaimsType DEF Walkers
  <2>2. Cardinality(Walkers(m)') = Cardinality(Walkers(m)) - 1
    BY <1>5, <2>1, CountLess
  <2> QED BY <1>5, <2>2, ClaimsType DEF Claims
<1>8. Places' /\ MutexHeld' /\ Rooted'
  BY <1>0, <1>4 DEF TypeOK, Places, MutexHeld, Rooted
<1>9. Claimed' /\ Unbranched'
  BY <1>0, <1>4, <1>5 DEF Claimed, Unbranched
<1>10. Counted'
  <2> SUFFICES ASSUME NEW n \in alive PROVE Claims(n)' <= refs'[n]
    BY <1>0 DEF Counted
  <2>1. CASE n = m
    BY <1>0, <1>1, <1>2, <1>7, <2>1 DEF TypeOK
  <2>2. CASE n # m
    BY <1>0, <1>6, <2>2 DEF TypeOK, Counted
  <2> QED BY <2>1, <2>2
<1>11. Loaded'
  <2> SUFFICES ASSUME NEW u \in Thread, NEW n \in Node, pc'[u] = "store", at[u] = n
               PROVE  Claims(n)' <= loaded[u]
    BY <1>0 DEF Loaded
  <2>1. pc[u] = "store"
    BY <1>0 DEF TypeOK
  <2> QED BY <1>6, <2>1 DEF Loaded, TypeOK
<1>12. LastIsLast'
  <2>1. ASSUME NEW u \in Thread, Last(u) PROVE at[u] # m
    BY <1>1, <1>2, <2>1 DEF LastIsLast
  <2> SUFFICES ASSUME NEW u \in Thread, NEW n \in Node, Last(u)', at[u] = n
               PROVE  /\ n \in alive /\ Claims(n)' = 0
                      /\ \A v \in Thread : Last(v)' /\ at[v] = n => v = u
    BY <1>0 DEF LastIsLast
  <2>2. CASE u = t
    <3>1. n = m /\ loaded[t] = 1
      BY <1>4, <2>2
    <3>2. Claims(n)' = 0
      BY <1>2, <1>7, <3>1
    <3> QED BY <1>1, <1>4, <2>1, <2>2, <3>1, <3>2
  <2>3. CASE u # t
    <3>1. Last(u) /\ n # m
      BY <1>4, <2>1, <2>3
    <3>2. Claims(n) = 0 /\ n \in alive
      BY <3>1 DEF LastIsLast
    <3>3. Claims(n)' = 0
      BY <1>6, <3>2
    <3>4. ASSUME NEW v \in Thread, Last(v)', at[v] = n PROVE v = u
      <4>1. v # t
        BY <3>1, <3>4
      <4> QED BY <1>4, <3>1, <3>4, <4>1 DEF LastIsLast
    <3> QED BY <3>2, <3>3, <3>4
  <2> QED BY <2>2, <2>3
<1>13. ReadBack'
  <2> SUFFICES ASSUME variant = "locked", NEW u \in Thread, pc'[u] = "test"
               PROVE  at[u] \in alive /\ refs'[at[u]] = loaded[u] - 1
    BY <1>0 DEF ReadBack
  <2>1. at[t] # None /\ at[u] # None
    BY <1>0, <1>8, TreeAssumption DEF Places, TypeOK
  <2>2. u = t
    BY <2>1 DEF MutexHeld
  <2> QED BY <1>0, <1>1, <2>2 DEF TypeOK
<1>14. ASSUME NEW n \in Node PROVE Claims(n)' = Claims(n) - (IF n = at[t] THEN 1 ELSE 0)
  <2>1. CASE n = m
    BY <1>7, <2>1
  <2>2. CASE n # m
    <3>1. Walkers(n)' = Walkers(n)
      BY <1>5, <2>2 DEF Walkers
    <3>2. Claims(n)' = Claims(n)
      BY <1>5, <3>1, ClaimsSame
    <3> QED BY <1>6, <2>2, <3>2
  <2> QED BY <2>1, <2>2
<1> QED BY <1>3, <1>8, <1>9, <1>10, <1>11, <1>12, <1>13, <1>14

\* What dec_refs returns is what it has stored.
LEMMA ResultIs ==
  ASSUME Safe, TypeOK, ReadBack, NEW t \in Thread, pc[t] = "test"
  PROVE  Result(t) = loaded[t] - 1
BY TreeAssumption DEF Safe, TypeOK, ReadBack, Result

\* release_node returns: no thread is at a node, or only others are.
LEMMA FinishPlaces ==
  ASSUME TypeOK, Places, MutexHeld, NEW t \in Thread, pc[t] = "test", Finish(t),
         UNCHANGED <<variant, thread>>
  PROVE  Places' /\ MutexHeld' /\ pc'[t] \in {"idle", "release"} /\ at'[t] = None
<1>0. /\ mutex' = (IF mutex = t THEN None ELSE mutex) /\ at' = [at EXCEPT ![t] = None]
      /\ pc' = [pc EXCEPT ![t] =
                  IF pending[t] = {} /\ branched[t] = None THEN "idle" ELSE "release"]
      /\ holds' = holds /\ pending' = pending /\ branched' = branched /\ variant' = variant
  BY DEF Finish, thread
<1>1. \A u \in Thread : Has(u)' = Has(u)
  BY <1>0 DEF Has
<1>2. at[t] # None
  BY DEF Places, TypeOK
<1>3. Places'
  BY <1>0, <1>1, TreeAssumption DEF TypeOK, Places
<1>4. MutexHeld'
  BY <1>0, <1>2, TreeAssumption DEF TypeOK, MutexHeld
<1> QED BY <1>0, <1>3, <1>4 DEF TypeOK

LEMMA StayInv ==
  ASSUME Safe, Inv, NEW t \in Thread, Stay(t)
  PROVE  Inv' /\ \A n \in Node : Claims(n)' = Claims(n)
<1> USE DEF Inv
<1>0. /\ pc[t] = "test" /\ alive' = alive /\ refs' = refs /\ loaded' = loaded
      /\ variant' = variant /\ build' = build /\ num_nodes' = num_nodes
      /\ holds' = holds /\ pending' = pending /\ branched' = branched
      /\ \A u \in Thread \ {t} : pc'[u] = pc[u] /\ at'[u] = at[u]
  BY DEF Stay, Finish, choice, heap, thread, TypeOK
<1>1. Places' /\ MutexHeld' /\ pc'[t] \in {"idle", "release"} /\ at'[t] = None
  BY <1>0, FinishPlaces DEF Stay, thread
<1>2. TypeOK'
  BY <1>0 DEF TypeOK, Stay, Finish
<1>3. /\ \A u \in Thread : Has(u)' = Has(u) /\ (Walking(u)' <=> Walking(u))
      /\ \A u \in Thread : Last(u)' => Last(u) /\ u # t
      /\ ~Walking(t)
  BY <1>0, <1>1 DEF Has, Walking, Last
<1>4. \A n : Kids(n)' = Kids(n) /\ Holders(n)' = Holders(n) /\ Walkers(n)' = Walkers(n)
  BY <1>0, <1>3 DEF Kids, Holders, Walkers
<1>5. \A n : Claims(n)' = Claims(n)
  BY <1>4, ClaimsSame
<1>6. Rooted' /\ Claimed' /\ Unbranched'
  BY <1>0, <1>3, <1>4 DEF Rooted, Claimed, Unbranched
<1>7. Counted' /\ Loaded'
  BY <1>0, <1>1, <1>5 DEF Counted, Loaded
<1>8. LastIsLast'
  <2> SUFFICES ASSUME NEW u \in Thread, NEW n \in Node, Last(u)', at'[u] = n
               PROVE  /\ n \in alive /\ Claims(n) = 0
                      /\ \A v \in Thread : Last(v)' /\ at'[v] = n => v = u
    BY <1>0, <1>5 DEF LastIsLast
  <2>1. Last(u) /\ at[u] = n
    BY <1>0, <1>3
  <2> QED BY <1>0, <1>3, <2>1 DEF LastIsLast
<1>9. ReadBack'
  BY <1>0, <1>1 DEF ReadBack
<1> QED BY <1>1, <1>2, <1>5, <1>6, <1>7, <1>8, <1>9

\* The node freed has no claim on it; its claim on its parent goes to the thread.
LEMMA FreeInv ==
  ASSUME Safe, Inv, NEW t \in Thread, Free(t)
  PROVE  Inv' /\ \A n \in Node : Claims(n)' = Claims(n)
<1> USE DEF Inv
<1> PICK m : m = at[t]
  OBVIOUS
<1>0. /\ pc[t] = "test" /\ alive' = alive \ {m} /\ refs' = refs /\ loaded' = loaded
      /\ variant' = variant /\ build' = build
      /\ num_nodes' = [num_nodes EXCEPT ![TreeOf(t)] = @ - 1]
      /\ holds' = holds /\ pending' = pending /\ branched' = branched
      /\ \A u \in Thread \ {t} : pc'[u] = pc[u] /\ at'[u] = at[u]
  BY DEF Free, Finish, choice, thread, TypeOK
<1>1. m \in Node /\ Last(t) /\ ~Walking(t)
  <2>1. loaded[t] = 1
    BY <1>0, ResultIs DEF Free, TypeOK
  <2> QED BY <1>0, <2>1 DEF Places, TypeOK, Last, Walking
<1>2. m \in alive /\ Claims(m) = 0 /\ \A u \in Thread : Last(u) /\ at[u] = m => u = t
  BY <1>1 DEF LastIsLast
<1>3. Kids(m) = {} /\ Holders(m) = {} /\ Walkers(m) = {}
  BY <1>2, ClaimsPositive
<1>4. \/ Parent[m] = None /\ Finish(t)
      \/ /\ Parent[m] # None /\ mutex' = mutex
         /\ at' = [at EXCEPT ![t] = Parent[m]] /\ pc' = [pc EXCEPT ![t] = "load"]
  BY DEF Free
<1>5. \/ Parent[m] = None /\ pc'[t] \in {"idle", "release"} /\ at'[t] = None
      \/ Parent[m] # None /\ pc'[t] = "load" /\ at'[t] = Parent[m]
  BY <1>0, <1>4, FinishPlaces DEF TypeOK, thread
<1>6. /\ \A u \in Thread : Has(u)' = Has(u)
      /\ \A u \in Thread \ {t} : (Walking(u)' <=> Walking(u)) /\ (Last(u)' <=> Last(u))
      /\ ~Last(t)'
  BY <1>0, <1>5 DEF Has, Walking, Last
<1>7. TypeOK'
  <2>1. pc' \in [Thread -> {"idle", "release", "load", "store", "test"}]
    BY <1>4 DEF TypeOK, Finish
  <2>2. at' \in [Thread -> Node \cup {None}]
    BY <1>1, <1>4, TreeAssumption DEF TypeOK, Finish
  <2>3. mutex' \in Thread \cup {None}
    BY <1>4 DEF TypeOK, Finish
  <2>4. num_nodes' \in [Thread \cup {None} -> Int] /\ alive' \subseteq Node
    BY <1>0 DEF TypeOK, TreeOf
  <2>5. <<variant', build'>> \in Settings /\ refs' \in [Node -> Nat]
    BY <1>0 DEF TypeOK
  <2> QED BY <1>0, <2>1, <2>2, <2>3, <2>4, <2>5 DEF TypeOK
<1>8. Places' /\ MutexHeld'
  <2>1. CASE Parent[m] = None /\ Finish(t)
    BY <1>0, <2>1, FinishPlaces DEF thread
  <2>2. CASE Parent[m] # None /\ mutex' = mutex /\ pc' = [pc EXCEPT ![t] = "load"]
             /\ at' = [at EXCEPT ![t] = Parent[m]]
    <3>1. Places'
      BY <1>0, <1>1, <1>6, <2>2, TreeAssumption DEF TypeOK, Places
    <3>2. at[t] # None
      BY <1>0 DEF Places, TypeOK
    <3> QED BY <1>0, <1>1, <2>2, <3>1, <3>2 DEF TypeOK, MutexHeld
  <2> QED BY <1>4, <2>1, <2>2
<1>9. \A n : Holders(n)' = Holders(n) /\ Kids(n)' = Kids(n) \ {m}
  BY <1>0, <1>6 DEF Holders, Kids
<1>10. \A n : Walkers(n)' = IF n = Parent[m] /\ Parent[m] # None THEN Walkers(n) \cup {t}
                            ELSE Walkers(n)
  <2>1. Walking(t)' <=> Parent[m] # None
    BY <1>5 DEF Walking
  <2> QED BY <1>0, <1>1, <1>5, <1>6, <2>1 DEF Walkers
<1>11. \A n \in Node : Claims(n)' = Claims(n)
  <2> SUFFICES ASSUME NEW n \in Node PROVE Claims(n)' = Claims(n)
    OBVIOUS
  <2>1. CASE n # Parent[m]
    <3>1. m \notin Kids(n)
      BY <2>1 DEF Kids
    <3> QED BY <1>9, <1>10, <2>1, <3>1, ClaimsSame
  <2>2. CASE n = Parent[m]
    <3>1. m \in Kids(n) /\ t \notin Walkers(n) /\ n # None
      BY <1>1, <1>2, <2>2, TreeAssumption DEF Kids, Walkers
    <3>2. Cardinality(Kids(n)') = Cardinality(Kids(n)) - 1
      BY <1>9, <3>1, ClaimsType, CountLess
    <3>3. Cardinality(Walkers(n)') = Cardinality(Walkers(n)) + 1
      BY <1>10, <2>2, <3>1, ClaimsType, CountMore
    <3> QED BY <1>9, <3>2, <3>3, ClaimsType DEF Claims
  <2> QED BY <2>1, <2>2
<1>12. Rooted'
  BY <1>0, <1>3 DEF Rooted, Kids
<1>13. Claimed'
  <2>1. ASSUME NEW u \in Thread PROVE Has(u)' \subseteq alive'
    BY <1>0, <1>3, <1>6 DEF Claimed, Holders
  <2>2. ASSUME NEW u \in Thread \ {t}, Walking(u)' PROVE at'[u] \in alive'
    BY <1>0, <1>3, <1>6, <2>2 DEF Claimed, Walkers
  <2>3. Walking(t)' => at'[t] \in alive'
    BY <1>0, <1>2, <1>3, <1>5, TreeAssumption DEF Walking, Rooted, Kids
  <2> QED BY <2>1, <2>2, <2>3 DEF Claimed
<1>14. Unbranched'
  <2> SUFFICES ASSUME NEW u \in Thread, NEW n \in holds[u]
               PROVE  Kids(n)' = {} /\ Walkers(n)' = {}
    BY <1>0 DEF Unbranched
  <2>1. Kids(n) = {} /\ Walkers(n) = {}
    BY DEF Unbranched
  <2>2. n # Parent[m]
    BY <1>2, <2>1 DEF Kids
  <2> QED BY <1>9, <1>10, <2>1, <2>2
<1>15. Counted'
  BY <1>0, <1>11 DEF Counted, TypeOK
<1>16. Loaded'
  <2> SUFFICES ASSUME NEW u \in Thread, NEW n \in Node, pc'[u] = "store", at'[u] = n
               PROVE  Claims(n)' <= loaded[u]
    BY <1>0 DEF Loaded
  <2>1. u # t
    BY <1>5
  <2> QED BY <1>0, <1>11, <2>1 DEF Loaded
<1>17. LastIsLast'
  <2> SUFFICES ASSUME NEW u \in Thread, NEW n \in Node, Last(u)', at'[u] = n
               PROVE  /\ n \in alive' /\ Claims(n)' = 0
                      /\ \A v \in Thread : Last(v)' /\ at'[v] = n => v = u
    BY DEF LastIsLast
  <2>1. u # t /\ Last(u) /\ at[u] = n
    BY <1>0, <1>6
  <2>2. n # m
    BY <1>2, <2>1
  <2>3. n \in alive /\ Claims(n) = 0
    BY <2>1 DEF LastIsLast
  <2>4. ASSUME NEW v \in Thread, Last(v)', at'[v] = n PROVE v = u
    <3>1. Last(v) /\ at[v] = n
      BY <1>0, <1>6, <2>4
    <3> QED BY <2>1, <3>1 DEF LastIsLast
  <2> QED BY <1>0, <1>11, <2>2, <2>3, <2>4
<1>18. ReadBack'
  <2> SUFFICES ASSUME variant = "locked", NEW u \in Thread, pc'[u] = "test"
               PROVE  at'[u] \in alive' /\ refs[at'[u]] = loaded[u] - 1
    BY <1>0 DEF ReadBack
  <2>1. u # t /\ pc[u] = "test"
    BY <1>0, <1>5
  <2>2. at[t] # None /\ at[u] # None
    BY <1>0, <2>1 DEF Places
  <2> QED BY <2>1, <2>2 DEF MutexHeld
<1> QED BY <1>7, <1>8, <1>11, <1>12, <1>13, <1>14, <1>15, <1>16, <1>17, <1>18

\* The claim of the holder becomes that of a thread on its way up.
LEMMA ReleaseInv ==
  ASSUME Inv, NEW t \in Thread, Release(t)
  PROVE  Inv' /\ \A n \in Node : Claims(n)' = Claims(n)
<1> USE DEF Inv
<1>0. /\ pc[t] = "release" /\ MayEnter /\ pc' = [pc EXCEPT ![t] = "load"]
      /\ mutex' = (IF variant = "locked" THEN t ELSE mutex) /\ at[t] = None
      /\ alive' = alive /\ refs' = refs /\ loaded' = loaded /\ holds' = holds
      /\ variant' = variant /\ build' = build /\ num_nodes' = num_nodes
  BY DEF Release, choice, heap, Places
<1> PICK c \in Node :
      /\ at' = [at EXCEPT ![t] = c]
      /\ \/ /\ c \in pending[t] /\ pending' = [pending EXCEPT ![t] = @ \ {c}]
            /\ branched' = branched
         \/ /\ pending[t] = {} /\ c = branched[t]
            /\ branched' = [branched EXCEPT ![t] = None] /\ pending' = pending
  <2>1. CASE pending[t] = {} /\ branched[t] # None
    <3>1. branched[t] \in Node
      BY <2>1 DEF TypeOK
    <3> QED BY <2>1, <3>1 DEF Release
  <2>2. CASE ~(pending[t] = {} /\ branched[t] # None)
    <3>1. pending[t] \subseteq Node
      BY DEF TypeOK
    <3> QED BY <2>2, <3>1 DEF Release
  <2> QED BY <2>1, <2>2
<1>1. TypeOK'
  <2>1. pending' \in [Thread -> SUBSET Node] /\ branched' \in [Thread -> Node \cup {None}]
    BY DEF TypeOK
  <2> QED BY <1>0, <2>1 DEF TypeOK
<1>2. /\ c \in Has(t) /\ c # None /\ c \notin holds[t] /\ Has(t)' = Has(t) \ {c}
      /\ \A u \in Thread \ {t} : Has(u)' = Has(u) /\ c \notin Has(u)
  BY <1>0, TreeAssumption DEF TypeOK, Has, Places
<1>3. /\ Walking(t)' /\ ~Walking(t) /\ ~Last(t)' /\ ~Last(t)
      /\ \A u \in Thread \ {t} : /\ (Walking(u)' <=> Walking(u)) /\ (Last(u)' <=> Last(u))
                                 /\ at'[u] = at[u] /\ pc'[u] = pc[u]
  BY <1>0 DEF TypeOK, Walking, Last
<1>4. /\ \A n : Kids(n)' = Kids(n)
      /\ \A n : n # c => Holders(n)' = Holders(n) /\ Walkers(n)' = Walkers(n)
      /\ Holders(c)' = Holders(c) \ {t} /\ t \in Holders(c)
      /\ Walkers(c)' = Walkers(c) \cup {t} /\ t \notin Walkers(c)
  BY <1>0, <1>2, <1>3 DEF TypeOK, Kids, Holders, Walkers
<1>5. \A n : Claims(n)' = Claims(n)
  <2>1. ASSUME NEW n, n # c PROVE Claims(n)' = Claims(n)
    BY <1>4, <2>1, ClaimsSame
  <2>2. Cardinality(Holders(c)') = Cardinality(Holders(c)) - 1
    BY <1>4, ClaimsType, CountLess
  <2>3. Cardinality(Walkers(c)') = Cardinality(Walkers(c)) + 1
    BY <1>4, ClaimsType, CountMore
  <2>4. Claims(c)' = Claims(c)
    BY <1>4, <2>2, <2>3, ClaimsType DEF Claims
  <2> QED BY <2>1, <2>4
<1>6. Places'
  <2>1. \A u \in Thread : \A v \in Thread : u # v => Has(u)' \cap Has(v)' = {}
    BY <1>2 DEF Places
  <2>2. ASSUME NEW u \in Thread
        PROVE  /\ holds[u]' \cap pending[u]' = {}
               /\ branched[u]' \notin holds[u]' \cup pending[u]'
    BY <1>0, TreeAssumption DEF TypeOK, Places
  <2>3. ASSUME NEW u \in Thread
        PROVE  /\ pc'[u] \in {"idle", "release"} <=> at'[u] = None
               /\ pc'[u] = "idle" => pending'[u] = {} /\ branched'[u] = None
    BY <1>0, <1>2 DEF TypeOK, Places
  <2> QED BY <2>1, <2>2, <2>3 DEF Places
<1>7. MutexHeld'
  BY <1>0, <1>2, TreeAssumption DEF TypeOK, MayEnter, MutexHeld
<1>8. Rooted' /\ Claimed'
  <2>1. c \in alive
    BY <1>2 DEF Claimed
  <2> QED BY <1>0, <1>2, <1>3, <2>1 DEF TypeOK, Rooted, Claimed
<1>9. Unbranched'
  <2> SUFFICES ASSUME NEW u \in Thread, NEW n \in holds[u]
               PROVE  Kids(n)' = {} /\ Walkers(n)' = {}
    BY <1>0 DEF Unbranched
  <2>1. n # c
    BY <1>2 DEF Has
  <2> QED BY <1>4, <2>1 DEF Unbranched
<1>10. Counted' /\ Loaded'
  BY <1>0, <1>3, <1>5 DEF TypeOK, Counted, Loaded
<1>11. LastIsLast' /\ ReadBack'
  BY <1>0, <1>3, <1>5 DEF TypeOK, LastIsLast, ReadBack
<1> QED BY <1>1, <1>5, <1>6, <1>7, <1>8, <1>9, <1>10, <1>11

\* The children C are created under the node n, which had none.
Grows(t, n, C) ==
  /\ n \in alive /\ n \notin C /\ C \cap alive = {}
  /\ alive' = alive \cup C /\ refs' = RefsWith(n, C)
  /\ num_nodes' = [num_nodes EXCEPT ![TreeOf(t)] = @ + Cardinality(C)]
  /\ Claims(n)' = Claims(n) + Cardinality(C)
  /\ \A m \in Node : m # n /\ m \notin C => Claims(m)' = Claims(m)
  /\ \A c \in C : Claims(c)' = 1 /\ Kids(c)' = {}
  /\ \A m \in Node : m # n => Kids(m)' = Kids(m)
  /\ Kids(n)' = C

\* The children are new, each is claimed once, by the thread; n by each of them too.
LEMMA BranchInv ==
  ASSUME Inv, NEW t \in Thread, Branch(t)
  PROVE  Inv' /\ \E n \in Node, C \in SUBSET Node : Grows(t, n, C)
<1> USE DEF Inv
<1> PICK n \in holds[t] :
      LET children == {c \in Node : Parent[c] = n}
      IN \E kept \in SUBSET children :
           /\ alive' = alive \cup children
           /\ refs' = RefsWith(n, children)
           /\ num_nodes' = [num_nodes EXCEPT ![TreeOf(t)] = @ + Cardinality(children)]
           /\ holds' = [holds EXCEPT ![t] = (@ \ {n}) \cup kept]
           /\ pending' = [pending EXCEPT ![t] = children \ kept]
           /\ branched' = [branched EXCEPT ![t] = n]
  BY DEF Branch
<1> PICK children : children = {c \in Node : Parent[c] = n}
  OBVIOUS
<1> PICK kept \in SUBSET children :
      /\ alive' = alive \cup children
      /\ refs' = RefsWith(n, children)
      /\ num_nodes' = [num_nodes EXCEPT ![TreeOf(t)] = @ + Cardinality(children)]
      /\ holds' = [holds EXCEPT ![t] = (@ \ {n}) \cup kept]
      /\ pending' = [pending EXCEPT ![t] = children \ kept]
      /\ branched' = [branched EXCEPT ![t] = n]
  OBVIOUS
<1>0. /\ pc[t] = "idle" /\ MayEnter /\ pc' = [pc EXCEPT ![t] = "release"]
      /\ mutex' = mutex /\ at' = at /\ loaded' = loaded /\ variant' = variant /\ build' = build
      /\ pending[t] = {} /\ branched[t] = None /\ at[t] = None
  BY DEF Branch, choice, Places
<1>1. n \in Node /\ n # None /\ n \in alive /\ n \in Has(t) /\ Kids(n) = {} /\ Walkers(n) = {}
  BY TreeAssumption DEF TypeOK, Claimed, Has, Unbranched
<1>2. children \subseteq Node /\ children \cap alive = {} /\ n \notin children
  BY <1>1 DEF Kids
<1>3. IsFiniteSet(children) /\ Cardinality(children) \in Nat
  BY <1>2, TreeAssumption, FS_Subset, FS_CardinalityType
<1>4. TypeOK'
  <2>1. refs' \in [Node -> Nat]
    <3>1. refs[n] + Cardinality(children) \in Nat
      BY <1>1, <1>3 DEF TypeOK
    <3> QED BY <3>1 DEF TypeOK, RefsWith
  <2>2. num_nodes' \in [Thread \cup {None} -> Int]
    BY <1>3 DEF TypeOK, TreeOf
  <2>3. /\ holds' \in [Thread -> SUBSET Node] /\ pending' \in [Thread -> SUBSET Node]
        /\ branched' \in [Thread -> Node \cup {None}] /\ alive' \subseteq Node
    BY <1>1, <1>2 DEF TypeOK
  <2> QED BY <1>0, <2>1, <2>2, <2>3 DEF TypeOK
<1>5. /\ Has(t)' = Has(t) \cup children
      /\ \A u \in Thread \ {t} : Has(u)' = Has(u)
      /\ \A u \in Thread : Has(u) \cap children = {}
  <2>1. Has(t)' = Has(t) \cup children
    BY <1>0, <1>1, TreeAssumption DEF TypeOK, Has
  <2>2. \A u \in Thread \ {t} : Has(u)' = Has(u)
    BY DEF TypeOK, Has
  <2>3. \A u \in Thread : Has(u) \cap children = {}
    BY <1>2 DEF Claimed
  <2> QED BY <2>1, <2>2, <2>3
<1>6. \A u \in Thread : /\ (Walking(u)' <=> Walking(u)) /\ (Last(u)' <=> Last(u))
                        /\ (pc'[u] = "store" <=> pc[u] = "store")
                        /\ (pc'[u] = "test" <=> pc[u] = "test")
  BY <1>0 DEF TypeOK, Walking, Last
<1>7. \A m : /\ Walkers(m)' = Walkers(m)
             /\ Kids(m)' = Kids(m) \cup (IF m = n THEN children ELSE {})
  BY <1>0, <1>2, <1>6 DEF Walkers, Kids, TypeOK
<1>8. \A m : Holders(m)' = IF m \in children THEN {t} ELSE Holders(m)
  BY <1>5 DEF Holders
<1>9. \A c \in children : Kids(c) = {} /\ Walkers(c) = {}
  BY <1>2, TreeAssumption DEF Kids, Walkers, Rooted, Claimed, TypeOK
<1>10. /\ Claims(n)' = Claims(n) + Cardinality(children)
       /\ \A m \in Node : m # n /\ m \notin children => Claims(m)' = Claims(m)
       /\ \A c \in children : Claims(c)' = 1
  <2>1. Claims(n)' = Claims(n) + Cardinality(children)
    <3>1. Cardinality(Kids(n)') = Cardinality(children) /\ Cardinality(Kids(n)) = 0
      BY <1>1, <1>7, FS_EmptySet
    <3>2. Holders(n)' = Holders(n) /\ Walkers(n)' = Walkers(n)
      BY <1>2, <1>7, <1>8
    <3> QED BY <1>3, <3>1, <3>2, ClaimsType DEF Claims
  <2>2. ASSUME NEW m \in Node, m # n, m \notin children PROVE Claims(m)' = Claims(m)
    <3>1. Kids(m)' = Kids(m) /\ Holders(m)' = Holders(m) /\ Walkers(m)' = Walkers(m)
      BY <1>7, <1>8, <2>2
    <3> QED BY <3>1, ClaimsSame
  <2>3. ASSUME NEW c \in children PROVE Claims(c)' = 1
    <3>1. Kids(c)' = {} /\ Holders(c)' = {t} /\ Walkers(c)' = {}
      BY <1>2, <1>7, <1>8, <1>9
    <3>2. Cardinality({}) = 0 /\ Cardinality({t}) = 1
      BY FS_EmptySet, FS_Singleton
    <3> QED BY <3>1, <3>2 DEF Claims
  <2> QED BY <2>1, <2>2, <2>3
<1>11. Places'
  <2>1. \A u \in Thread : \A v \in Thread : u # v => Has(u)' \cap Has(v)' = {}
    BY <1>5 DEF Places
  <2>2. ASSUME NEW u \in Thread
        PROVE  /\ holds'[u] \cap pending'[u] = {}
               /\ branched'[u] \notin holds'[u] \cup pending'[u]
    <3>1. CASE u = t
      <4>1. holds[t] \cap children = {}
        BY <1>5 DEF Has
      <4> QED BY <1>0, <1>2, <3>1, <4>1 DEF TypeOK
    <3>2. CASE u # t
      BY <3>2 DEF TypeOK, Places
    <3> QED BY <3>1, <3>2
  <2>3. ASSUME NEW u \in Thread
        PROVE  /\ pc'[u] \in {"idle", "release"} <=> at'[u] = None
               /\ pc'[u] = "idle" => pending'[u] = {} /\ branched'[u] = None
    BY <1>0 DEF TypeOK, Places
  <2> QED BY <2>1, <2>2, <2>3 DEF Places
<1>12. MutexHeld' /\ Rooted'
  BY <1>0, <1>1, TreeAssumption DEF MutexHeld, Rooted
<1>13. Claimed'
  BY <1>0, <1>5, <1>6 DEF Claimed
<1>14. Unbranched'
  <2> SUFFICES ASSUME NEW u \in Thread, NEW m \in holds'[u]
               PROVE  Kids(m)' = {} /\ Walkers(m)' = {}
    BY DEF Unbranched
  <2>1. CASE m \in children
    BY <1>2, <1>7, <1>9, <2>1
  <2>2. CASE m \notin children
    <3>1. m \in holds[u] /\ m # n
      BY <1>1, <2>2 DEF TypeOK, Places, Has
    <3> QED BY <1>7, <3>1 DEF Unbranched
  <2> QED BY <2>1, <2>2
<1>15. Counted'
  <2> SUFFICES ASSUME NEW m \in alive' PROVE Claims(m)' <= refs'[m]
    BY DEF Counted
  <2>1. CASE m = n
    BY <1>1, <1>3, <1>10, <2>1, ClaimsType DEF TypeOK, RefsWith, Counted
  <2>2. CASE m \in children
    BY <1>2, <1>10, <2>2 DEF TypeOK, RefsWith
  <2>3. CASE m # n /\ m \notin children
    BY <1>10, <2>3 DEF TypeOK, RefsWith, Counted
  <2> QED BY <2>1, <2>2, <2>3
<1>16. \A u \in Thread : (Walking(u) \/ Last(u)) => at[u] # n /\ at[u] \notin children
  <2>1. ASSUME NEW u \in Thread, Walking(u) PROVE at[u] # n /\ at[u] \notin children
    BY <1>1, <1>2, <2>1 DEF Walkers, Claimed
  <2>2. ASSUME NEW u \in Thread, Last(u) PROVE at[u] # n /\ at[u] \notin children
    <3>1. Claims(n) >= 1
      BY <1>1, WhoClaims
    <3>2. at[u] \in Node
      BY <2>2 DEF Last, Places, TypeOK
    <3> QED BY <1>1, <1>2, <2>2, <3>1, <3>2 DEF LastIsLast
  <2> QED BY <2>1, <2>2
<1>17. Loaded'
  BY <1>0, <1>6, <1>10, <1>16 DEF Loaded, Walking
<1>18. LastIsLast'
  BY <1>0, <1>6, <1>10, <1>16 DEF LastIsLast
<1>19. ReadBack'
  <2> SUFFICES ASSUME variant = "locked", NEW u \in Thread, pc[u] = "test" PROVE FALSE
    BY <1>0, <1>6 DEF ReadBack
  <2>1. at[u] # None
    BY DEF Places
  <2> QED BY <1>0, <2>1, TreeAssumption DEF MayEnter, MutexHeld
<1>20. Grows(t, n, children)
  BY <1>1, <1>2, <1>7, <1>9, <1>10 DEF Grows
<1> QED
  BY <1>1, <1>2, <1>4, <1>11, <1>12, <1>13, <1>14, <1>15, <1>17, <1>18, <1>19, <1>20

----------------------------------------------------------------------------
LEMMA StepInv ==
  ASSUME Safe, Inv, [Next]_vars
  PROVE  Inv'
<1>1. CASE UNCHANGED vars
  <2>1. \A n : Claims(n)' = Claims(n)
    BY <1>1 DEF vars, heap, thread, Claims, Kids, Holders, Walkers, Has, Walking
  <2> QED
    BY <1>1, <2>1 DEF vars, choice, heap, thread, Inv, TypeOK, Places, MutexHeld, Rooted,
       Claimed, Unbranched, Counted, Loaded, LastIsLast, ReadBack, Kids, Walkers, Has,
       Walking, Last
<1>2. CASE \E t \in Thread : Branch(t)
  BY <1>2, BranchInv
<1>3. CASE \E t \in Thread : Clean(t)
  BY <1>3, CleanInv
<1>4. CASE \E t \in Thread : Release(t)
  BY <1>4, ReleaseInv
<1>5. CASE \E t \in Thread : Load(t)
  BY <1>5, LoadInv
<1>6. CASE \E t \in Thread : Store(t)
  BY <1>6, StoreInv
<1>7. CASE \E t \in Thread : Stay(t)
  BY <1>7, StayInv
<1>8. CASE \E t \in Thread : Free(t)
  BY <1>8, FreeInv
<1>9. CASE \E t \in Thread : \E u \in Thread : Share(t, u)
  BY <1>9, ShareInv
<1> QED
  BY <1>1, <1>2, <1>3, <1>4, <1>5, <1>6, <1>7, <1>8, <1>9 DEF Next

LEMMA InvHolds == Spec => [](Safe => Inv)
<1>1. Init => (Safe => Inv)
  BY InitInv
<1>2. (Safe => Inv) /\ [Next]_vars => (Safe => Inv)'
  <2> SUFFICES ASSUME Safe => Inv, [Next]_vars, Safe' PROVE Inv'
    OBVIOUS
  <2>1. variant' = variant /\ build' = build
    BY DEF Next, vars, choice, Branch, Clean, Share, Release, Load, Store, Stay, Free
  <2> QED BY <2>1, StepInv DEF Safe
<1> QED
  BY <1>1, <1>2, PTL DEF Spec

LEMMA SafeHolds == ASSUME RegisterIfShared PROVE Spec => []Safe
<1>1. Init => Safe
  <2> SUFFICES ASSUME Init, RegisterIfShared PROVE Safe
    OBVIOUS
  <2>1. PICK s \in Settings : variant = s[1] /\ build = s[2]
    BY DEF Init
  <2>2. s = <<variant, build>>
    BY <2>1, TreeAssumption
  <2> QED BY <2>2 DEF Safe, RegisterIfShared
<1>2. Safe /\ [Next]_vars => Safe'
  BY DEF Safe, Next, vars, choice, Branch, Clean, Share, Release, Load, Store, Stay, Free
<1> QED
  BY <1>1, <1>2, PTL DEF Spec

\* In these builds no count is lowered below zero, whoever overwrites whose update.
THEOREM TypeOKHolds == ASSUME RegisterIfShared PROVE Spec => []TypeOK
<1>1. Inv => TypeOK
  BY DEF Inv
<1> QED
  BY InvHolds, SafeHolds, <1>1, PTL

\* What is in use has not been freed, nor has anything above it: release_node only frees a
\* node on which no thread and no child has a claim, and claims are made on nodes in use.
THEOREM NoUseAfterFreeHolds == ASSUME RegisterIfShared PROVE Spec => []NoUseAfterFree
<1>1. Safe /\ Inv => NoUseAfterFree
  <2> SUFFICES ASSUME Safe, Inv PROVE NoUseAfterFree
    OBVIOUS
  <2>1. ASSUME NEW t \in Thread, Touches(t), ~Walking(t) PROVE at[t] \in alive
    <3>1. pc[t] = "test" /\ build = "memory"
      BY <2>1 DEF Touches, Walking
    <3>2. variant = "locked"
      BY <3>1, TreeAssumption DEF Safe, Inv, TypeOK
    <3> QED BY <3>1, <3>2 DEF Inv, ReadBack
  <2>2. ASSUME NEW t \in Thread PROVE InUse(t) \subseteq alive
    BY <2>1 DEF Inv, Claimed, InUse, Has
  <2> QED BY <2>2 DEF Inv, Rooted, NoUseAfterFree
<1> QED
  BY InvHolds, SafeHolds, <1>1, PTL

----------------------------------------------------------------------------
(* The tree with the mutex.                                                *)

\* Under the mutex one thread is on its way up at a time.
LEMMA Alone ==
  ASSUME Inv, variant = "locked", NEW t \in Thread, at[t] # None,
         NEW u \in Thread, at[u] # None
  PROVE  u = t
BY DEF Inv, MutexHeld

\* A thread enters when nobody is on its way up.
LEMMA Entered ==
  ASSUME Inv, variant = "locked", MayEnter, NEW t \in Thread
  PROVE  pc[t] \in {"idle", "release"}
BY TreeAssumption DEF Inv, MutexHeld, MayEnter, Places

\* The same nodes, counts and claims.
LEMMA HeapSame ==
  ASSUME TypeOK, Exact, Founded, Accounted, UNCHANGED heap,
         \A n \in Node : Claims(n)' = Claims(n)
  PROVE  Exact' /\ Founded' /\ Accounted'
<1>1. \A n : Kids(n)' = Kids(n)
  BY DEF heap, Kids
<1>2. Exact' /\ Accounted'
  BY DEF TypeOK, heap, Exact, Accounted
<1>3. Founded'
  BY <1>1 DEF heap, Founded
<1> QED BY <1>2, <1>3

LEMMA InitLocked == Init => Locked
<1> SUFFICES ASSUME Init, variant = "locked"
             PROVE  Exact /\ Fresh /\ Positive /\ Founded /\ Accounted
  BY DEF Locked
<1> PICK o \in Thread :
      /\ holds = [u \in Thread |-> IF u = o THEN {Root} ELSE {}]
      /\ num_nodes = [u \in Thread \cup {None} |-> IF u = TreeOf(o) THEN 1 ELSE 0]
  BY DEF Init
<1>1. alive = {Root} /\ refs[Root] = 1 /\ num_nodes[None] = 1 /\ Inv
  BY TreeAssumption, InitInv DEF Init, TreeOf
<1>2. Kids(Root) = {} /\ Holders(Root) = {o} /\ Walkers(Root) = {}
  BY TreeAssumption DEF Init, Kids, Holders, Has, Walkers, Walking
<1>3. Claims(Root) = 1
  <2>1. /\ Cardinality(Kids(Root)) = 0 /\ Cardinality(Holders(Root)) = 1
        /\ Cardinality(Walkers(Root)) = 0
    BY <1>2, FS_EmptySet, FS_Singleton
  <2> QED BY <2>1 DEF Claims
<1>4. Exact /\ Fresh /\ Positive
  BY <1>1, <1>3 DEF Init, Exact, Fresh, Positive
<1>5. Founded
  BY <1>1, <1>2 DEF Founded
<1>6. Accounted
  BY <1>1, FS_Singleton DEF Accounted
<1> QED BY <1>4, <1>5, <1>6

\* The children are at the bottom, and their claims on the node branched are counted.
LEMMA BranchLocked ==
  ASSUME Inv, Locked, NEW t \in Thread, Branch(t)
  PROVE  Locked'
<1> SUFFICES ASSUME variant = "locked"
             PROVE  Exact' /\ Fresh' /\ Positive' /\ Founded' /\ Accounted'
  BY DEF Locked, Branch, choice
<1> PICK n \in Node : \E C \in SUBSET Node : Grows(t, n, C)
  BY BranchInv
<1> PICK C \in SUBSET Node : Grows(t, n, C)
  OBVIOUS
<1>0. Inv /\ Exact /\ Positive /\ Founded /\ Accounted /\ TypeOK
  BY DEF Locked, Inv
<1>1. pc[t] = "idle" /\ pc' = [pc EXCEPT ![t] = "release"]
      /\ \A u \in Thread : pc[u] \in {"idle", "release"}
  BY Entered DEF Branch
<1>2. Fresh'
  BY <1>0, <1>1 DEF Fresh, TypeOK
<1>3. IsFiniteSet(C) /\ IsFiniteSet(alive) /\ Cardinality(C) \in Nat
  BY <1>0, TreeAssumption, FS_Subset, FS_CardinalityType DEF TypeOK
<1>4. \A m \in alive : refs[m] \in Nat /\ refs[m] > 0 /\ refs[m] = Claims(m)
  BY <1>0, <1>1 DEF Positive, Exact, TypeOK
<1>5. ASSUME NEW m \in alive' PROVE refs'[m] = Claims(m)' /\ refs'[m] > 0
  <2>1. m \in Node
    BY <1>0 DEF Grows, TypeOK
  <2>2. CASE m = n
    BY <1>3, <1>4, <2>1, <2>2 DEF Grows, RefsWith
  <2>3. CASE m \in C
    BY <1>4, <2>1, <2>3 DEF Grows, RefsWith
  <2>4. CASE m # n /\ m \notin C
    BY <1>4, <2>1, <2>4 DEF Grows, RefsWith
  <2> QED BY <2>2, <2>3, <2>4
<1>6. Founded'
  <2> SUFFICES ASSUME NEW S \in SUBSET alive', S # {} PROVE \E m \in S : Kids(m)' \cap S = {}
    BY DEF Founded
  <2>1. CASE S \cap C # {}
    BY <2>1 DEF Grows
  <2>2. CASE S \cap C = {}
    <3>1. S \subseteq alive
      BY <2>2 DEF Grows
    <3>2. PICK m \in S : Kids(m) \cap S = {}
      BY <1>0, <3>1 DEF Founded
    <3>3. m \in Node
      BY <1>0, <3>1 DEF TypeOK
    <3> QED BY <2>2, <3>2, <3>3 DEF Grows
  <2> QED BY <2>1, <2>2
<1>7. Accounted'
  <2>1. Cardinality(alive \cup C) = Cardinality(alive) + Cardinality(C) - Cardinality({})
    <3>1. alive \cap C = {}
      BY DEF Grows
    <3> QED BY <1>3, <3>1, FS_Union
  <2>2. Cardinality({}) = 0 /\ Cardinality(alive) \in Nat
    BY <1>3, FS_EmptySet, FS_CardinalityType
  <2>3. num_nodes'[None] = num_nodes[None] + Cardinality(C)
    BY <1>0 DEF Grows, TreeOf, TypeOK
  <2> QED BY <1>0, <1>3, <2>1, <2>2, <2>3 DEF Accounted, Grows
<1> QED BY <1>2, <1>5, <1>6, <1>7 DEF Exact, Positive

\* A step that changes no count, and no thread that stores or tests.
LEMMA QuietLocked ==
  ASSUME Inv, Locked, UNCHANGED <<variant, heap, loaded>>,
         \A n \in Node : Claims(n)' = Claims(n),
         \A u \in Thread : /\ pc[u] = "test" => pc'[u] = "test" /\ at'[u] = at[u]
                           /\ pc'[u] = "store" => pc[u] = "store" /\ at'[u] = at[u]
  PROVE  Locked'
<1> SUFFICES ASSUME variant = "locked"
             PROVE  Exact' /\ Fresh' /\ Positive' /\ Founded' /\ Accounted'
  BY DEF Locked
<1>0. TypeOK /\ Exact /\ Fresh /\ Positive /\ Founded /\ Accounted
  BY DEF Locked, Inv
<1>1. Exact' /\ Founded' /\ Accounted'
  BY <1>0, HeapSame
<1>2. Fresh' /\ Positive'
  BY <1>0 DEF Fresh, Positive, heap
<1> QED BY <1>1, <1>2

LEMMA LoadLocked ==
  ASSUME Inv, Locked, NEW t \in Thread, Load(t)
  PROVE  Locked'
<1> SUFFICES ASSUME variant = "locked"
             PROVE  Exact' /\ Fresh' /\ Positive' /\ Founded' /\ Accounted'
  BY DEF Locked, Load, choice
<1>0. TypeOK /\ Exact /\ Fresh /\ Positive /\ Founded /\ Accounted
  BY DEF Locked, Inv
<1>1. \A n \in Node : Claims(n)' = Claims(n)
  BY LoadInv
<1>2. Exact' /\ Founded' /\ Accounted'
  BY <1>0, <1>1, HeapSame DEF Load
<1>3. Fresh' /\ Positive'
  BY <1>0 DEF Load, Fresh, Positive, heap, TypeOK
<1> QED BY <1>2, <1>3

\* What is stored is one less than the count, as nobody has changed it since.
LEMMA StoreLocked ==
  ASSUME Inv, Locked, NEW t \in Thread, Store(t)
  PROVE  Locked'
<1> SUFFICES ASSUME variant = "locked"
             PROVE  Exact' /\ Fresh' /\ Positive' /\ Founded' /\ Accounted'
  BY DEF Locked, Store, choice
<1> PICK m : m = at[t]
  OBVIOUS
<1>0. TypeOK /\ Places /\ Exact /\ Fresh /\ Positive /\ Founded /\ Accounted
  BY DEF Locked, Inv
<1>1. /\ pc[t] = "store" /\ pc' = [pc EXCEPT ![t] = "test"] /\ at' = at /\ alive' = alive
      /\ refs' = [refs EXCEPT ![m] = loaded[t] - 1] /\ num_nodes' = num_nodes
  BY DEF Store
<1>2. m \in alive /\ m \in Node /\ loaded[t] = refs[m]
  BY <1>0, <1>1 DEF Inv, Claimed, Walking, TypeOK, Fresh
<1>3. \A n \in Node : Claims(n)' = Claims(n) - (IF n = m THEN 1 ELSE 0)
  BY StoreInv
<1>4. \A u \in Thread \ {t} : pc[u] \in {"idle", "release"}
  BY <1>0, <1>1, <1>2, TreeAssumption, Alone DEF Places
<1>5. Exact'
  <2> SUFFICES ASSUME NEW n \in alive PROVE refs'[n] = Claims(n)'
    BY <1>1 DEF Exact
  <2>1. n \in Node /\ refs[n] \in Nat /\ refs[n] = Claims(n)
    BY <1>0 DEF TypeOK, Exact
  <2> QED BY <1>0, <1>1, <1>2, <1>3, <2>1 DEF TypeOK
<1>6. Fresh'
  BY <1>0, <1>1, <1>4 DEF Fresh, TypeOK
<1>7. Positive'
  BY <1>0, <1>1, <1>2, <1>4 DEF Positive, TypeOK
<1>8. Founded' /\ Accounted'
  <2>1. \A n : Kids(n)' = Kids(n)
    BY <1>1 DEF Kids
  <2> QED BY <1>0, <1>1, <2>1 DEF Founded, Accounted
<1> QED BY <1>5, <1>6, <1>7, <1>8

\* A walk that ends leaves a count that is not zero.
LEMMA StayLocked ==
  ASSUME Inv, Locked, NEW t \in Thread, Stay(t)
  PROVE  Locked'
<1> SUFFICES ASSUME variant = "locked"
             PROVE  Exact' /\ Fresh' /\ Positive' /\ Founded' /\ Accounted'
  BY DEF Locked, Stay, choice
<1>0. TypeOK /\ Places /\ Exact /\ Fresh /\ Positive /\ Founded /\ Accounted /\ Safe
  BY DEF Locked, Inv, Safe
<1>1. /\ pc[t] = "test" /\ Result(t) # 0 /\ alive' = alive /\ refs' = refs
      /\ \A u \in Thread \ {t} : pc'[u] = pc[u] /\ at'[u] = at[u]
      /\ pc'[t] \in {"idle", "release"} /\ UNCHANGED heap
  BY <1>0 DEF Stay, Finish, heap, TypeOK
<1>2. \A n \in Node : Claims(n)' = Claims(n)
  BY <1>0, StayInv
<1>3. Exact' /\ Founded' /\ Accounted'
  BY <1>0, <1>1, <1>2, HeapSame
<1>4. at[t] \in alive /\ at[t] # None /\ refs[at[t]] = loaded[t] - 1 /\ Result(t) = loaded[t] - 1
  BY <1>0, <1>1, ResultIs DEF Inv, ReadBack, Places
<1>5. \A u \in Thread \ {t} : pc[u] \in {"idle", "release"}
  BY <1>0, <1>4, Alone DEF Places
<1>6. Fresh'
  BY <1>1, <1>5 DEF Fresh
<1>7. Positive'
  <2> SUFFICES ASSUME NEW n \in alive PROVE refs[n] > 0
    BY <1>1 DEF Positive
  <2>1. CASE n = at[t]
    <3>1. refs[n] \in Nat /\ refs[n] # 0
      BY <1>0, <1>1, <1>4, <2>1 DEF TypeOK
    <3> QED BY <3>1
  <2>2. CASE n # at[t]
    BY <1>0, <1>5, <2>2 DEF Positive
  <2> QED BY <2>1, <2>2
<1> QED BY <1>3, <1>6, <1>7

\* The node whose count is zero is freed, and it was the only one.
LEMMA FreeLocked ==
  ASSUME Inv, Locked, NEW t \in Thread, Free(t)
  PROVE  Locked'
<1> SUFFICES ASSUME variant = "locked"
             PROVE  Exact' /\ Fresh' /\ Positive' /\ Founded' /\ Accounted'
  BY DEF Locked, Free, choice
<1> PICK m : m = at[t]
  OBVIOUS
<1>0. TypeOK /\ Places /\ Exact /\ Fresh /\ Positive /\ Founded /\ Accounted /\ Safe
  BY DEF Locked, Inv, Safe
<1>1. /\ pc[t] = "test" /\ alive' = alive \ {m} /\ refs' = refs
      /\ num_nodes' = [num_nodes EXCEPT ![None] = @ - 1]
      /\ \A u \in Thread \ {t} : pc'[u] = pc[u] /\ at'[u] = at[u]
  BY <1>0 DEF Free, Finish, TypeOK, TreeOf
<1>2. pc'[t] \in {"idle", "release", "load"}
  BY <1>0, <1>1 DEF Free, Finish, TypeOK
<1>3. \A n \in Node : Claims(n)' = Claims(n)
  BY <1>0, FreeInv
<1>4. m \in alive /\ m # None
  BY <1>0, <1>1 DEF Inv, ReadBack, Places
<1>5. \A u \in Thread \ {t} : pc[u] \in {"idle", "release"}
  BY <1>0, <1>4, Alone DEF Places
<1>6. Exact' /\ Fresh'
  BY <1>0, <1>1, <1>2, <1>3, <1>5 DEF Exact, Fresh, TypeOK
<1>7. Positive'
  BY <1>0, <1>1, <1>5 DEF Positive
<1>8. Founded'
  <2>1. \A n : Kids(n)' \subseteq Kids(n)
    BY <1>1 DEF Kids
  <2> SUFFICES ASSUME NEW S \in SUBSET alive', S # {} PROVE \E n \in S : Kids(n)' \cap S = {}
    BY DEF Founded
  <2>2. PICK n \in S : Kids(n) \cap S = {}
    BY <1>0, <1>1 DEF Founded
  <2> QED BY <2>1, <2>2
<1>9. Accounted'
  <2>1. IsFiniteSet(alive)
    BY <1>0, TreeAssumption, FS_Subset DEF TypeOK
  <2>2. Cardinality(alive \ {m}) = Cardinality(alive) - 1
    BY <1>4, <2>1, FS_RemoveElement
  <2> QED BY <1>0, <1>1, <2>2 DEF Accounted, TypeOK
<1> QED BY <1>6, <1>7, <1>8, <1>9

LEMMA StepLocked ==
  ASSUME Inv, Locked, [Next]_vars
  PROVE  Locked'
<1>0. TypeOK /\ Places
  BY DEF Inv
<1>1. CASE UNCHANGED vars
  <2>1. \A n : Claims(n)' = Claims(n)
    BY <1>1 DEF vars, heap, thread, Claims, Kids, Holders, Walkers, Has, Walking
  <2> QED BY <1>1, <2>1, QuietLocked DEF vars, choice
<1>2. ASSUME NEW t \in Thread, Branch(t) PROVE Locked'
  BY <1>2, BranchLocked
<1>3. ASSUME NEW t \in Thread, Clean(t) PROVE Locked'
  BY <1>0, <1>3, CleanInv, QuietLocked DEF Clean, choice, TypeOK
<1>4. ASSUME NEW t \in Thread, Release(t) PROVE Locked'
  <2>1. \A n \in Node : Claims(n)' = Claims(n)
    BY <1>4, ReleaseInv
  <2>2. UNCHANGED <<variant, heap, loaded>>
    BY <1>4 DEF Release, choice
  <2>3. \A u \in Thread : /\ pc[u] = "test" => pc'[u] = "test" /\ at'[u] = at[u]
                          /\ pc'[u] = "store" => pc[u] = "store" /\ at'[u] = at[u]
    BY <1>0, <1>4 DEF Release, TypeOK
  <2> QED BY <2>1, <2>2, <2>3, QuietLocked
<1>5. ASSUME NEW t \in Thread, Load(t) PROVE Locked'
  BY <1>5, LoadLocked
<1>6. ASSUME NEW t \in Thread, Store(t) PROVE Locked'
  BY <1>6, StoreLocked
<1>7. ASSUME NEW t \in Thread, Stay(t) PROVE Locked'
  BY <1>7, StayLocked
<1>8. ASSUME NEW t \in Thread, Free(t) PROVE Locked'
  BY <1>8, FreeLocked
<1>9. ASSUME NEW t \in Thread, NEW u \in Thread, Share(t, u) PROVE Locked'
  BY <1>9, ShareInv, QuietLocked DEF Share, choice
<1> QED
  BY <1>1, <1>2, <1>3, <1>4, <1>5, <1>6, <1>7, <1>8, <1>9 DEF Next

LEMMA LockedHolds == Spec => [](variant = "locked" => Inv /\ Locked)
<1> DEFINE P == variant = "locked" => Inv /\ Locked
<1>1. Init => P
  BY InitInv, InitLocked
<1>2. P /\ [Next]_vars => P'
  <2> SUFFICES ASSUME P, [Next]_vars, variant' = "locked" PROVE Inv' /\ Locked'
    OBVIOUS
  <2>1. variant = "locked"
    BY DEF Next, vars, choice, Branch, Clean, Share, Release, Load, Store, Stay, Free
  <2> QED BY <2>1, StepInv, StepLocked DEF Safe
<1> QED
  BY <1>1, <1>2, PTL DEF Spec

\* With the mutex every node has been freed when the containers are empty: a node at the
\* bottom of what is left would have no claim on it, and a count that is not zero.
THEOREM LockedFreesAllHolds == Spec => []LockedFreesAll
<1> DEFINE P == variant = "locked" => Inv /\ Locked
<1>1. P => LockedFreesAll
  <2> SUFFICES ASSUME Inv, Locked, variant = "locked", Quiet PROVE num_nodes[None] = 0
    BY DEF LockedFreesAll
  <2>0. TypeOK /\ Places /\ Exact /\ Positive /\ Founded /\ Accounted
    BY DEF Inv, Locked
  <2>1. \A t \in Thread : pc[t] = "idle" /\ Has(t) = {}
    BY <2>0 DEF Quiet, Has, Places
  <2>2. ASSUME alive # {} PROVE FALSE
    <3>1. PICK n \in alive : Kids(n) \cap alive = {}
      BY <2>0, <2>2 DEF Founded
    <3>2. Kids(n) = {} /\ Holders(n) = {} /\ Walkers(n) = {}
      BY <2>1, <3>1 DEF Kids, Holders, Walkers, Walking
    <3>3. Claims(n) = 0
      BY <3>2, FS_EmptySet DEF Claims
    <3> QED BY <2>0, <2>1, <3>3 DEF Exact, Positive
  <2> QED BY <2>0, <2>2, FS_EmptySet DEF Accounted
<1> QED
  BY <1>1, LockedHolds, PTL

=============================================================================
