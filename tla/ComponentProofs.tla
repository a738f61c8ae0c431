--------------------------- MODULE ComponentProofs ---------------------------
(***************************************************************************)
(* Proofs about the components that stand alone: BiList, ExpandingBuffer   *)
(* and AtomicRead, for every value of their constants.                     *)
(***************************************************************************)
EXTENDS BiList, ExpandingBuffer, AtomicRead, FiniteSetTheorems, SequenceTheorems,
        WellFoundedInduction, TLAPS

\* A set of numbers has a least element, from which recursive functions are
\* reasoned about.
LEMMA Least ==
  ASSUME NEW T \in SUBSET Nat, T # {}
  PROVE  \E m \in T : \A k \in T : m <= k
<1> DEFINE R == OpToRel(<, Nat)
<1>1. IsWellFoundedOn(R, Nat)
  BY NatLessThanWellFounded, Zenon
<1>2. \A x, y \in Nat : y < x => <<y, x>> \in R
  BY Zenon DEF OpToRel
<1> HIDE DEF R
<1>3. PICK m \in T : \A y \in T : ~ (<<y, m>> \in R)
  BY <1>1, WFMin, Zenon
<1>4. \A y \in T : ~ (y < m)
  BY <1>2, <1>3
<1>5. QED
  BY <1>4

\* A function on the first n numbers is a sequence of length n.
LEMMA FunctionIsSeq ==
  ASSUME NEW S, NEW n \in Nat, NEW f \in [1 .. n -> S]
  PROVE  f \in Seq(S) /\ Len(f) = n
<1>1. f \in Seq(S)
  BY SeqDef
<1>2. Len(f) \in Nat /\ DOMAIN f = 1 .. Len(f)
  BY <1>1, LenProperties
<1>3. DOMAIN f = 1 .. n
  OBVIOUS
<1>4. n = Len(f)
  BY <1>2, <1>3
<1>5. QED
  BY <1>1, <1>4

-----------------------------------------------------------------------------
(***************************************************************************)
(* The intrusive list.  First the pointers of live nodes: they are to live *)
(* nodes, and a node that is constructed and not linked is alone.          *)
(***************************************************************************)
Pointers ==
  /\ next \in [All -> All \cup {Freed}]
  /\ prev \in [All -> All \cup {Freed}]
  /\ fresh \in SUBSET Nodes

NodesInv ==
  /\ Pointers
  /\ NeighboursAgree
  /\ next[Anchor] # Freed
  /\ \A n \in All : next[n] # Freed => next[next[n]] # Freed /\ next[prev[n]] # Freed
  /\ \A n \in fresh : next[n] = n /\ prev[n] = n

LEMMA NodesInitInv == Init => NodesInv
<1> SUFFICES ASSUME Init PROVE NodesInv
  OBVIOUS
<1>1. Freed \notin All /\ Anchor \in All
  BY ListAssumption DEF All
<1>2. QED
  BY <1>1 DEF Init, NodesInv, Pointers, NeighboursAgree

\* A constructed node is alone.
LEMMA ConstructInv ==
  ASSUME NodesInv, NEW n \in Nodes, Construct(n)
  PROVE  NodesInv'
<1>1. /\ n \in All /\ Anchor \in All /\ n # Anchor /\ Freed \notin All /\ next[n] = Freed
      /\ n \notin fresh
  BY ListAssumption DEF NodesInv, Construct, All
<1>2. Pointers'
  BY <1>1 DEF NodesInv, Pointers, Construct
<1>3. \A k \in All : /\ next'[k] = IF k = n THEN n ELSE next[k]
                     /\ prev'[k] = IF k = n THEN n ELSE prev[k]
  BY <1>1 DEF NodesInv, Pointers, Construct
<1>4. \A k \in All : k # n /\ next[k] # Freed => next[k] # n /\ prev[k] # n
  BY <1>1 DEF NodesInv
<1>5. NeighboursAgree'
  BY <1>1, <1>3, <1>4 DEF NodesInv, NeighboursAgree
<1>6. \A k \in fresh' : next'[k] = k /\ prev'[k] = k
  BY <1>1, <1>3 DEF NodesInv, Pointers, Construct, All
<1>7. QED
  BY <1>1, <1>2, <1>3, <1>4, <1>5, <1>6 DEF NodesInv, NeighboursAgree

\* A node that is linked comes between the last node and the anchor.
LEMMA AddWaiterInv ==
  ASSUME NodesInv, NEW n \in Nodes, AddWaiter(n)
  PROVE  NodesInv'
<1> DEFINE last == prev[Anchor]
<1>1. /\ n \in All /\ Anchor \in All /\ n # Anchor /\ Freed \notin All
      /\ n \in fresh /\ next[n] = n /\ prev[n] = n
  BY ListAssumption DEF NodesInv, AddWaiter, All
<1>2. /\ last \in All /\ next[last] = Anchor /\ last # n /\ next[last] # Freed
  BY <1>1 DEF NodesInv, NeighboursAgree
<1>3. /\ next' = [next EXCEPT ![n] = Anchor, ![last] = n]
      /\ prev' = [prev EXCEPT ![n] = last, ![Anchor] = n]
      /\ fresh' = fresh \ {n}
  BY DEF AddWaiter, LinkBefore
<1> HIDE DEF last
<1>4. Pointers'
  BY <1>1, <1>2, <1>3 DEF NodesInv, Pointers
<1>5. \A k \in All :
        /\ next'[k] = IF k = last THEN n ELSE IF k = n THEN Anchor ELSE next[k]
        /\ prev'[k] = IF k = Anchor THEN n ELSE IF k = n THEN last ELSE prev[k]
  BY <1>1, <1>2, <1>3 DEF NodesInv, Pointers
<1>6. \A k \in All : k \notin {n, last} /\ next[k] # Freed => next[k] \in All \ {n, Anchor}
  <2> SUFFICES ASSUME NEW k \in All, k \notin {n, last}, next[k] # Freed
               PROVE  next[k] \in All \ {n, Anchor}
    OBVIOUS
  <2>1. next[k] \in All /\ prev[next[k]] = k
    BY DEF NodesInv, NeighboursAgree
  <2>2. QED
    BY <1>1, <1>2, <2>1 DEF last
<1>7. \A k \in All : k \notin {n, Anchor} /\ next[k] # Freed => prev[k] \in All \ {n, last}
  <2> SUFFICES ASSUME NEW k \in All, k \notin {n, Anchor}, next[k] # Freed
               PROVE  prev[k] \in All \ {n, last}
    OBVIOUS
  <2>1. prev[k] \in All /\ next[prev[k]] = k
    BY DEF NodesInv, NeighboursAgree
  <2>2. QED
    BY <1>1, <1>2, <2>1
<1>8. NeighboursAgree'
  BY <1>1, <1>2, <1>5, <1>6, <1>7 DEF NodesInv, NeighboursAgree
<1>9. \A k \in fresh' : next'[k] = k /\ prev'[k] = k
  <2>1. last \notin fresh /\ Anchor \notin fresh
    BY <1>1, <1>2, ListAssumption DEF NodesInv, Pointers
  <2>2. QED
    BY <1>3, <1>5, <2>1 DEF NodesInv, Pointers, All
<1>10. \A k \in All : next'[k] # Freed => next'[next'[k]] # Freed /\ next'[prev'[k]] # Freed
  <2>1. \A k \in All : next'[k] # Freed <=> next[k] # Freed
    BY <1>1, <1>2, <1>5
  <2>2. \A k \in All : next[k] # Freed => next'[k] \in All /\ prev'[k] \in All
    BY <1>8, <2>1 DEF NeighboursAgree
  <2>3. \A k \in All : next[k] # Freed => next[next'[k]] # Freed /\ next[prev'[k]] # Freed
    BY <1>1, <1>2, <1>5 DEF NodesInv, last
  <2>4. QED
    BY <2>1, <2>2, <2>3
<1>11. QED
  BY <1>1, <1>2, <1>4, <1>5, <1>8, <1>9, <1>10 DEF NodesInv

\* A node that is unlinked leaves its neighbours to each other.
LEMMA CompleteInv ==
  ASSUME NodesInv, NEW n \in Nodes, Complete(n)
  PROVE  NodesInv'
<1> DEFINE p == prev[n]
           s == next[n]
<1>1. /\ n \in All /\ Anchor \in All /\ n # Anchor /\ Freed \notin All
      /\ s # Freed /\ s \in All /\ p \in All
      /\ prev[s] = n /\ next[p] = n
      /\ next[s] # Freed
  BY ListAssumption DEF NodesInv, NeighboursAgree, Complete, All
<1>2. /\ next' = [[next EXCEPT ![p] = s] EXCEPT ![n] = Freed]
      /\ prev' = [[prev EXCEPT ![s] = p] EXCEPT ![n] = Freed]
      /\ fresh' = fresh \ {n}
  BY DEF Complete, NextUnlinked, PrevUnlinked
<1>3. p = n <=> s = n
  BY <1>1
<1> HIDE DEF p, s
<1>4. Pointers'
  BY <1>1, <1>2 DEF NodesInv, Pointers
<1>5. \A k \in All :
        /\ next'[k] = IF k = n THEN Freed ELSE IF k = p THEN s ELSE next[k]
        /\ prev'[k] = IF k = n THEN Freed ELSE IF k = s THEN p ELSE prev[k]
  BY <1>1, <1>2 DEF NodesInv, Pointers
<1>6. \A k \in All : k \notin {n, p} /\ next[k] # Freed => next[k] \in All \ {n, s}
  <2> SUFFICES ASSUME NEW k \in All, k \notin {n, p}, next[k] # Freed
               PROVE  next[k] \in All \ {n, s}
    OBVIOUS
  <2>1. next[k] \in All /\ prev[next[k]] = k
    BY DEF NodesInv, NeighboursAgree
  <2>2. QED
    BY <1>1, <2>1 DEF p
<1>7. \A k \in All : k \notin {n, s} /\ next[k] # Freed => prev[k] \in All \ {n, p}
  <2> SUFFICES ASSUME NEW k \in All, k \notin {n, s}, next[k] # Freed
               PROVE  prev[k] \in All \ {n, p}
    OBVIOUS
  <2>1. prev[k] \in All /\ next[prev[k]] = k
    BY DEF NodesInv, NeighboursAgree
  <2>2. QED
    BY <1>1, <2>1 DEF s
<1>8. \A k \in All : k # n /\ next[k] # Freed => prev[next[k]] = k /\ next[prev[k]] = k
  BY DEF NodesInv, NeighboursAgree
<1>9. \A k \in All : next'[k] # Freed => k # n /\ next[k] # Freed
  BY <1>1, <1>5
<1>10. NeighboursAgree'
  <2> SUFFICES ASSUME NEW k \in All, next'[k] # Freed
               PROVE  /\ next'[k] \in All /\ prev'[k] \in All
                      /\ prev'[next'[k]] = k /\ next'[prev'[k]] = k
    BY DEF NeighboursAgree
  <2>1. k # n /\ next[k] # Freed
    BY <1>9
  <2>2. next'[k] \in All /\ prev'[next'[k]] = k
    BY <1>1, <1>3, <1>5, <1>6, <1>8, <2>1
  <2>3. prev'[k] \in All /\ next'[prev'[k]] = k
    BY <1>1, <1>3, <1>5, <1>7, <1>8, <2>1
  <2>4. QED
    BY <2>2, <2>3
<1>11. \A k \in fresh' : next'[k] = k /\ prev'[k] = k
  BY <1>1, <1>2, <1>5 DEF NodesInv, Pointers, All
<1>12. \A k \in All : next'[k] # Freed => next'[next'[k]] # Freed /\ next'[prev'[k]] # Freed
  <2> SUFFICES ASSUME NEW k \in All, next'[k] # Freed
               PROVE  next'[next'[k]] # Freed /\ next'[prev'[k]] # Freed
    OBVIOUS
  <2>1. k # n /\ next[k] # Freed
    BY <1>9
  <2>2. next'[prev'[k]] = k
    BY <1>10 DEF NeighboursAgree
  <2>3. next[p] # Freed /\ \A j \in All : next[j] # Freed => next[next[j]] # Freed
    BY <1>1 DEF NodesInv
  <2>4. next'[k] \in All /\ next'[k] # n /\ next[next'[k]] # Freed
    BY <1>1, <1>3, <1>5, <1>6, <2>1, <2>3
  <2>5. next'[next'[k]] # Freed
    BY <1>1, <1>5, <2>4
  <2>6. QED
    BY <1>1, <2>2, <2>5
<1>13. next'[Anchor] # Freed
  BY <1>1, <1>5 DEF NodesInv
<1>14. QED
  BY <1>4, <1>10, <1>11, <1>12, <1>13 DEF NodesInv

LEMMA NodesNextInv == NodesInv /\ [Next]_vars => NodesInv'
<1> SUFFICES ASSUME NodesInv, [Next]_vars
             PROVE  NodesInv'
  OBVIOUS
<1>1. CASE UNCHANGED vars
  BY <1>1 DEF vars, NodesInv, Pointers, NeighboursAgree
<1>2. QED
  BY <1>1, ConstructInv, AddWaiterInv, CompleteInv DEF Next

(***************************************************************************)
(* Then the sequence that the pointers stand for, and the walks over it.   *)
(***************************************************************************)
\* A walk is determined by its first node and its steps.
LEMMA WalkIs ==
  ASSUME NEW p, NEW w, w = [i \in 0 .. Cardinality(Nodes) |-> w[i]],
         w[0] = p[Anchor],
         \A i \in 1 .. Cardinality(Nodes) :
           w[i] = IF w[i - 1] \in Nodes THEN p[w[i - 1]] ELSE w[i - 1]
  PROVE  Walk(p) = w
<1> DEFINE N == Cardinality(Nodes)
           Steps(f) == [i \in 0 .. N |->
                          IF i = 0 THEN p[Anchor]
                          ELSE IF f[i - 1] \in Nodes THEN p[f[i - 1]] ELSE f[i - 1]]
           at == Walk(p)
<1>1. N \in Nat
  BY ListAssumption, FS_CardinalityType
<1>2. \A i \in 0 .. N : Steps(w)[i] = w[i]
  BY <1>1
<1>3. w = Steps(w)
  BY <1>2
<1>4. at = CHOOSE f : f = Steps(f)
  BY DEF Walk
<1>5. at = Steps(at)
  BY <1>3, <1>4, Zenon
<1> HIDE DEF at
<1>6. /\ at[0] = p[Anchor]
      /\ \A i \in 1 .. N : at[i] = IF at[i - 1] \in Nodes THEN p[at[i - 1]] ELSE at[i - 1]
  <2>1. \A i \in 0 .. N : at[i] = IF i = 0 THEN p[Anchor]
                                ELSE IF at[i - 1] \in Nodes THEN p[at[i - 1]] ELSE at[i - 1]
    BY <1>5, Zenon
  <2>2. 0 \in 0 .. N /\ \A i \in 1 .. N : i \in 0 .. N /\ i # 0
    BY <1>1
  <2>3. QED
    BY <2>1, <2>2, Zenon
<1>7. ASSUME NEW k \in 0 .. N, at[k] # w[k]
      PROVE  FALSE
  <2> DEFINE T == {i \in 0 .. N : at[i] # w[i]}
  <2>1. T \in SUBSET Nat /\ T # {}
    BY <1>1, <1>7
  <2>2. PICK m \in T : \A i \in T : m <= i
    BY <2>1, Least, Zenon
  <2>3. m \in 1 .. N /\ at[m] # w[m]
    BY <1>1, <1>6, <2>2
  <2>4. m - 1 \in 0 .. N /\ m - 1 \notin T
    BY <1>1, <2>2, <2>3
  <2>5. at[m - 1] = w[m - 1]
    BY <2>4
  <2>6. QED
    BY <1>6, <2>3, <2>5
<1>8. QED
  BY <1>5, <1>7 DEF at

\* The node at position i of s; the anchor is before the first and after the last.
Node(s, i) == IF i \in 1 .. Len(s) THEN s[i] ELSE Anchor

\* A node is in the list once.
Distinct(s) == s \in Seq(Nodes) /\ \A i, j \in 1 .. Len(s) : s[i] = s[j] => i = j

\* The pointers of the anchor and of the nodes of s are those of a list of s.
Chain(s) ==
  \A i \in 0 .. Len(s) : next[Node(s, i)] = Node(s, i + 1) /\ prev[Node(s, i + 1)] = Node(s, i)

\* The anchor is at both ends, and every node at one position.
LEMMA DistinctNodes ==
  ASSUME NEW s, Distinct(s)
  PROVE  /\ Len(s) \in Nat
         /\ s \in [1 .. Len(s) -> Nodes]
         /\ \A i \in 1 .. Len(s) : Node(s, i) = s[i] /\ s[i] \in Nodes
         /\ \A i \in Int : i \notin 1 .. Len(s) => Node(s, i) = Anchor
         /\ \A i \in Int : Node(s, i) \in All
         /\ \A i \in Int : Node(s, i) \in Nodes <=> i \in 1 .. Len(s)
         /\ \A i, j \in 0 .. Len(s) : Node(s, i) = Node(s, j) => i = j
         /\ \A i, j \in 1 .. Len(s) + 1 : Node(s, i) = Node(s, j) => i = j
<1>1. Len(s) \in Nat /\ s \in [1 .. Len(s) -> Nodes]
  BY LenProperties DEF Distinct
<1>2. Anchor \notin Nodes
  BY ListAssumption
<1>3. \A i \in 1 .. Len(s) : Node(s, i) = s[i] /\ s[i] \in Nodes
  BY <1>1 DEF Node
<1>4. \A i \in Int : i \notin 1 .. Len(s) => Node(s, i) = Anchor
  BY DEF Node
<1>5. \A i \in Int : Node(s, i) \in Nodes <=> i \in 1 .. Len(s)
  BY <1>2, <1>3, <1>4
<1>6. \A i \in Int : Node(s, i) \in All
  BY <1>3, <1>4 DEF All
<1>7. \A i, j \in 1 .. Len(s) : Node(s, i) = Node(s, j) => i = j
  BY <1>3 DEF Distinct
<1>8. ASSUME NEW i \in 0 .. Len(s) + 1, NEW j \in 0 .. Len(s) + 1, Node(s, i) = Node(s, j)
      PROVE  i \in 1 .. Len(s) <=> j \in 1 .. Len(s)
  BY <1>1, <1>5, <1>8
<1>9. QED
  BY <1>1, <1>3, <1>4, <1>5, <1>6, <1>7, <1>8

\* Different nodes are not more than there are.
LEMMA DistinctCardinality ==
  ASSUME NEW s, Distinct(s)
  PROVE  /\ Len(s) <= Cardinality(Nodes)
         /\ Cardinality(Nodes) \in Nat
         /\ Cardinality({s[i] : i \in 1 .. Len(s)}) = Len(s)
<1> DEFINE T == {s[i] : i \in 1 .. Len(s)}
<1>1. Len(s) \in Nat /\ s \in [1 .. Len(s) -> Nodes]
  BY DistinctNodes
<1>2. s \in [1 .. Len(s) -> T]
  BY <1>1
<1>3. s \in Injection(1 .. Len(s), T)
  BY <1>2 DEF Distinct, Injection, IsInjective
<1>4. s \in Surjection(1 .. Len(s), T)
  BY <1>2 DEF Surjection
<1>5. ExistsBijection(1 .. Len(s), T)
  BY <1>3, <1>4 DEF ExistsBijection, Bijection
<1>6. Cardinality(T) = Len(s)
  BY <1>1, <1>5, FS_CountingElements
<1>7. Cardinality(T) <= Cardinality(Nodes) /\ Cardinality(Nodes) \in Nat
  <2>1. T \in SUBSET Nodes
    BY <1>1
  <2>2. QED
    BY <2>1, ListAssumption, FS_Subset, FS_CardinalityType
<1>8. QED
  BY <1>6, <1>7

\* Both loops pass through a chain, in opposite orders.
LEMMA ChainWalks ==
  ASSUME NEW s, Distinct(s), Chain(s)
  PROVE  /\ Walk(next) = [i \in 0 .. Cardinality(Nodes) |-> Node(s, i + 1)]
         /\ Walk(prev) = [i \in 0 .. Cardinality(Nodes) |-> Node(s, Len(s) - i)]
<1> DEFINE N == Cardinality(Nodes)
           ahead == [i \in 0 .. N |-> Node(s, i + 1)]
           back == [i \in 0 .. N |-> Node(s, Len(s) - i)]
<1>1. /\ N \in Nat /\ Len(s) \in Nat
      /\ Node(s, 0) = Anchor /\ Node(s, Len(s) + 1) = Anchor
      /\ \A i \in Int : Node(s, i) \in Nodes <=> i \in 1 .. Len(s)
      /\ \A i \in Int : i \notin 1 .. Len(s) => Node(s, i) = Anchor
  <2>1. /\ N \in Nat /\ Len(s) \in Nat
        /\ \A i \in Int : Node(s, i) \in Nodes <=> i \in 1 .. Len(s)
        /\ \A i \in Int : i \notin 1 .. Len(s) => Node(s, i) = Anchor
    BY DistinctNodes, DistinctCardinality, Zenon
  <2>2. /\ 0 \in Int /\ 0 \notin 1 .. Len(s)
        /\ Len(s) + 1 \in Int /\ Len(s) + 1 \notin 1 .. Len(s)
    BY <2>1
  <2>3. QED
    BY <2>1, <2>2
<1>2. \A i \in 0 .. Len(s) : next[Node(s, i)] = Node(s, i + 1) /\ prev[Node(s, i + 1)] = Node(s, i)
  BY DEF Chain
<1>3. ahead[0] = next[Anchor] /\ back[0] = prev[Anchor]
  BY <1>1, <1>2
<1>4. ASSUME NEW i \in 1 .. N
      PROVE  ahead[i] = IF ahead[i - 1] \in Nodes THEN next[ahead[i - 1]] ELSE ahead[i - 1]
  <2>1. ahead[i] = Node(s, i + 1) /\ ahead[i - 1] = Node(s, i)
    BY <1>1
  <2>2. CASE i \in 1 .. Len(s)
    BY <1>1, <1>2, <2>1, <2>2
  <2>3. CASE i \notin 1 .. Len(s)
    <3>1. i + 1 \notin 1 .. Len(s)
      BY <1>1, <2>3
    <3>2. QED
      BY <1>1, <2>1, <2>3, <3>1
  <2>4. QED
    BY <2>2, <2>3
<1>5. ASSUME NEW i \in 1 .. N
      PROVE  back[i] = IF back[i - 1] \in Nodes THEN prev[back[i - 1]] ELSE back[i - 1]
  <2>1. back[i] = Node(s, Len(s) - i) /\ back[i - 1] = Node(s, (Len(s) - i) + 1)
    BY <1>1
  <2>2. CASE i \in 1 .. Len(s)
    <3>1. Len(s) - i \in 0 .. Len(s) /\ (Len(s) - i) + 1 \in 1 .. Len(s)
      BY <1>1, <2>2
    <3>2. prev[Node(s, (Len(s) - i) + 1)] = Node(s, Len(s) - i)
      BY <1>2, <3>1
    <3>3. QED
      BY <1>1, <2>1, <3>1, <3>2
  <2>3. CASE i \notin 1 .. Len(s)
    <3>1. Len(s) - i \notin 1 .. Len(s) /\ (Len(s) - i) + 1 \notin 1 .. Len(s)
      BY <1>1, <2>3
    <3>2. QED
      BY <1>1, <2>1, <3>1
  <2>4. QED
    BY <2>2, <2>3
<1>6. ahead = [i \in 0 .. N |-> ahead[i]] /\ back = [i \in 0 .. N |-> back[i]]
  OBVIOUS
<1> HIDE DEF ahead, back
<1>7. Walk(next) = ahead /\ Walk(prev) = back
  BY <1>3, <1>4, <1>5, <1>6, WalkIs
<1>8. QED
  BY <1>7 DEF ahead, back

\* size() counts the chain, and the walk lists it.
LEMMA ChainForward ==
  ASSUME NEW s, Distinct(s), Chain(s)
  PROVE  Size = Len(s) /\ Forward = s
<1> DEFINE N == Cardinality(Nodes)
<1>1. /\ N \in Nat /\ Len(s) \in Nat /\ Len(s) <= N /\ s \in [1 .. Len(s) -> Nodes]
      /\ Walk(next) = [i \in 0 .. N |-> Node(s, i + 1)]
  BY DistinctNodes, DistinctCardinality, ChainWalks
<1>2. {i \in DOMAIN Walk(next) : Walk(next)[i] # Anchor} = 0 .. Len(s) - 1
  <2>1. DOMAIN Walk(next) = 0 .. N
    BY <1>1
  <2>2. \A i \in 0 .. N : Walk(next)[i] # Anchor <=> i + 1 \in 1 .. Len(s)
    BY <1>1, DistinctNodes, ListAssumption
  <2>3. \A i \in Int : i \in 0 .. N /\ i + 1 \in 1 .. Len(s) <=> i \in 0 .. Len(s) - 1
    BY <1>1
  <2>4. QED
    BY <1>1, <2>1, <2>2, <2>3
<1>3. Cardinality(0 .. Len(s) - 1) = Len(s)
  <2>1. 0 \in Int /\ Len(s) - 1 \in Int
    BY <1>1
  <2>2. Cardinality(0 .. Len(s) - 1) = IF 0 > Len(s) - 1 THEN 0 ELSE (Len(s) - 1) - 0 + 1
    BY <2>1, FS_Interval
  <2>3. QED
    BY <1>1, <2>2
<1>4. Size = Len(s)
  BY <1>2, <1>3 DEF Size
<1>5. Forward = [i \in 1 .. Len(s) |-> s[i]]
  <2>1. \A i \in 1 .. Len(s) : Walk(next)[i - 1] = s[i]
    <3>1. SUFFICES ASSUME NEW i \in 1 .. Len(s)
                   PROVE  Walk(next)[i - 1] = s[i]
      OBVIOUS
    <3>2. i - 1 \in 0 .. N /\ (i - 1) + 1 = i
      BY <1>1, <3>1
    <3>3. QED
      BY <1>1, <3>2, DistinctNodes
  <2>2. QED
    BY <1>4, <2>1 DEF Forward
<1>6. QED
  BY <1>1, <1>4, <1>5

\* s is the list.
Listed(s) ==
  /\ Distinct(s)
  /\ Chain(s)
  /\ Linked = {s[i] : i \in 1 .. Len(s)}

\* What the invariant says of the walks.
LEMMA ListedAgrees ==
  ASSUME NEW s, Listed(s)
  PROVE  WalksAgree
<1> DEFINE N == Cardinality(Nodes)
<1>1. /\ N \in Nat /\ Len(s) \in Nat /\ Len(s) <= N
      /\ Walk(next) = [i \in 0 .. N |-> Node(s, i + 1)]
      /\ Walk(prev) = [i \in 0 .. N |-> Node(s, Len(s) - i)]
      /\ Size = Len(s) /\ Forward = s
      /\ Cardinality(Linked) = Len(s)
  BY DistinctNodes, DistinctCardinality, ChainWalks, ChainForward DEF Listed
<1>2. ASSUME NEW n \in Linked
      PROVE  Cardinality({i \in DOMAIN Walk(next) : Walk(next)[i] = n}) = 1
  <2>1. PICK k \in 1 .. Len(s) : n = s[k]
    BY DEF Listed
  <2>2. k - 1 \in 0 .. N /\ Walk(next)[k - 1] = n
    <3>1. k - 1 \in 0 .. N /\ (k - 1) + 1 = k
      BY <1>1
    <3>2. QED
      BY <1>1, <2>1, <3>1, DistinctNodes DEF Listed
  <2>3. ASSUME NEW i \in 0 .. N, Walk(next)[i] = n
        PROVE  i = k - 1
    <3>1. Node(s, i + 1) = n /\ i + 1 \in Int
      BY <1>1, <2>3
    <3>2. i + 1 \in 1 .. Len(s)
      BY <2>1, <3>1, DistinctNodes DEF Listed
    <3>3. s[i + 1] = s[k]
      BY <2>1, <3>1, <3>2, DistinctNodes DEF Listed
    <3>4. i + 1 = k
      BY <3>2, <3>3 DEF Listed, Distinct
    <3>5. QED
      BY <1>1, <3>4
  <2>4. {i \in DOMAIN Walk(next) : Walk(next)[i] = n} = {k - 1}
    BY <1>1, <2>2, <2>3
  <2>5. QED
    BY <2>4, FS_Singleton
<1>3. ASSUME NEW i \in 1 .. Size
      PROVE  Walk(prev)[Size - i] = Forward[i]
  <2>1. Size - i \in 0 .. N /\ Len(s) - (Size - i) = i
    BY <1>1
  <2>2. Walk(prev)[Size - i] = Node(s, i)
    BY <1>1, <2>1
  <2>3. QED
    BY <1>1, <2>2, DistinctNodes DEF Listed
<1>4. QED
  BY <1>1, <1>2, <1>3 DEF WalksAgree

\* Pointers as functions, and where the listed nodes are.
LEMMA ListFacts ==
  ASSUME NodesInv, NEW s, Listed(s)
  PROVE  /\ next \in [All -> All \cup {Freed}] /\ prev \in [All -> All \cup {Freed}]
         /\ Anchor \in All /\ Nodes \subseteq All /\ Freed \notin All /\ Anchor \notin Nodes
         /\ Linked \subseteq Nodes
         /\ Len(s) \in Nat
         /\ \A i \in Int : Node(s, i) \in All /\ (Node(s, i) = Anchor \/ Node(s, i) \in Linked)
<1>1. /\ Anchor \in All /\ Nodes \subseteq All /\ Freed \notin All /\ Anchor \notin Nodes
  BY ListAssumption DEF All
<1>2. next \in [All -> All \cup {Freed}] /\ prev \in [All -> All \cup {Freed}]
  BY DEF NodesInv, Pointers
<1>3. \A i \in Int : Node(s, i) \in All /\ (Node(s, i) = Anchor \/ Node(s, i) \in Linked)
  <2>1. \A i \in 1 .. Len(s) : Node(s, i) \in Linked
    BY DEF Node, Listed
  <2>2. QED
    BY <2>1, DistinctNodes DEF Listed
<1>4. QED
  BY <1>1, <1>2, <1>3, DistinctNodes DEF Listed, Linked

\* A node that is constructed is not in the list.
LEMMA ConstructListed ==
  ASSUME NodesInv, NEW s, Listed(s), NEW n \in Nodes, Construct(n)
  PROVE  Listed(s)'
<1>1. /\ next[n] = Freed /\ n \notin Linked /\ n \in All /\ n # Anchor
      /\ next' = [next EXCEPT ![n] = n] /\ prev' = [prev EXCEPT ![n] = n]
      /\ fresh' = fresh \cup {n}
  BY ListFacts DEF Construct, Linked
<1>2. \A k \in All : k # n => next'[k] = next[k] /\ prev'[k] = prev[k]
  BY <1>1, ListFacts
<1>3. Linked' = Linked
  BY <1>1, <1>2, ListFacts DEF Linked
<1>4. \A i \in Int : Node(s, i) \in All /\ Node(s, i) # n
  BY <1>1, ListFacts
<1>5. Chain(s)'
  <2>1. SUFFICES ASSUME NEW i \in 0 .. Len(s)
                 PROVE  next'[Node(s, i)] = Node(s, i + 1) /\ prev'[Node(s, i + 1)] = Node(s, i)
    BY DEF Chain, Node
  <2>2. next[Node(s, i)] = Node(s, i + 1) /\ prev[Node(s, i + 1)] = Node(s, i)
    BY <2>1 DEF Listed, Chain
  <2>3. i \in Int /\ i + 1 \in Int
    BY <2>1, ListFacts
  <2>4. QED
    BY <1>2, <1>4, <2>2, <2>3
<1>6. QED
  BY <1>3, <1>5 DEF Listed, Distinct

\* The nodes of the longer list.
LEMMA AppendNode ==
  ASSUME NEW s, Distinct(s), NEW n \in Nodes, n \notin {s[i] : i \in 1 .. Len(s)}
  PROVE  /\ Distinct(Append(s, n)) /\ Len(Append(s, n)) = Len(s) + 1
         /\ \A i \in Int : Node(Append(s, n), i) = IF i = Len(s) + 1 THEN n ELSE Node(s, i)
         /\ {Append(s, n)[i] : i \in 1 .. Len(s) + 1} = {s[i] : i \in 1 .. Len(s)} \cup {n}
<1> DEFINE t == Append(s, n)
<1>1. /\ t \in Seq(Nodes) /\ Len(t) = Len(s) + 1 /\ Len(s) \in Nat
      /\ \A i \in 1 .. Len(s) : t[i] = s[i]
      /\ t[Len(s) + 1] = n
  BY AppendProperties, DistinctNodes DEF Distinct
<1> HIDE DEF t
<1>2. \A i \in 1 .. Len(s) + 1 : i \in 1 .. Len(s) \/ i = Len(s) + 1
  BY <1>1
<1>3. \A i, j \in 1 .. Len(s) + 1 : t[i] = t[j] => i = j
  BY <1>1, <1>2 DEF Distinct
<1>4. \A i \in Int : Node(t, i) = IF i = Len(s) + 1 THEN n ELSE Node(s, i)
  BY <1>1, <1>2 DEF Node
<1>5. {t[i] : i \in 1 .. Len(s) + 1} = {s[i] : i \in 1 .. Len(s)} \cup {n}
  <2>1. 1 .. Len(s) + 1 = (1 .. Len(s)) \cup {Len(s) + 1}
    BY <1>1
  <2>2. QED
    BY <1>1, <2>1
<1>6. QED
  BY <1>1, <1>3, <1>4, <1>5 DEF t, Distinct

\* A node that is linked is the last of the list.
LEMMA AddWaiterListed ==
  ASSUME NodesInv, NEW s, Listed(s), NEW n \in Nodes, AddWaiter(n)
  PROVE  Listed(Append(s, n))' /\ n \notin Linked
<1> DEFINE last == prev[Anchor]
           t == Append(s, n)
<1>1. /\ n \in All /\ n # Anchor /\ n \in fresh /\ n \notin Linked /\ next[n] # Freed
      /\ next' = [next EXCEPT ![n] = Anchor, ![last] = n]
      /\ prev' = [prev EXCEPT ![n] = last, ![Anchor] = n]
      /\ fresh' = fresh \ {n}
  BY ListFacts DEF AddWaiter, LinkBefore, Linked, NodesInv
<1>2. last = Node(s, Len(s)) /\ last \in All /\ last # n /\ next[last] = Anchor
  <2>1. Len(s) \in 0 .. Len(s) /\ Node(s, Len(s) + 1) = Anchor
    BY DistinctNodes DEF Listed
  <2>2. next[Node(s, Len(s))] = Anchor /\ prev[Anchor] = Node(s, Len(s))
    BY <2>1 DEF Listed, Chain
  <2>3. QED
    BY <1>1, <2>2, ListFacts
<1> HIDE DEF last
<1>3. \A k \in All :
        /\ next'[k] = IF k = last THEN n ELSE IF k = n THEN Anchor ELSE next[k]
        /\ prev'[k] = IF k = Anchor THEN n ELSE IF k = n THEN last ELSE prev[k]
  BY <1>1, <1>2, ListFacts
<1>4. Linked' = Linked \cup {n}
  <2>1. \A k \in Nodes : next'[k] # Freed <=> next[k] # Freed
    BY <1>1, <1>2, <1>3, ListFacts
  <2>2. QED
    BY <1>1, <2>1 DEF Linked
<1>5. /\ Distinct(t) /\ Len(t) = Len(s) + 1 /\ Len(s) \in Nat
      /\ \A i \in Int : Node(t, i) = IF i = Len(s) + 1 THEN n ELSE Node(s, i)
      /\ {t[i] : i \in 1 .. Len(s) + 1} = Linked'
  BY <1>1, <1>4, AppendNode, ListFacts DEF Listed
<1> HIDE DEF t
<1>6. ASSUME NEW i \in 0 .. Len(s) + 1
      PROVE  next'[Node(t, i)] = Node(t, i + 1) /\ prev'[Node(t, i + 1)] = Node(t, i)
  <2>1. CASE i \in 0 .. Len(s) - 1
    <3>1. i \in 0 .. Len(s) /\ Len(s) \in 0 .. Len(s) /\ i # Len(s) /\ i + 1 \in 1 .. Len(s)
      BY <1>5, <2>1
    <3>2. Node(t, i) = Node(s, i) /\ Node(t, i + 1) = Node(s, i + 1)
      BY <1>5, <3>1
    <3>3. /\ Node(s, i) \in All /\ Node(s, i) # n /\ Node(s, i) # last
          /\ Node(s, i + 1) \in All /\ Node(s, i + 1) # n /\ Node(s, i + 1) # Anchor
      BY <1>1, <1>2, <3>1, DistinctNodes, ListFacts DEF Listed
    <3>4. next[Node(s, i)] = Node(s, i + 1) /\ prev[Node(s, i + 1)] = Node(s, i)
      BY <3>1 DEF Listed, Chain
    <3>5. QED
      BY <1>3, <3>2, <3>3, <3>4
  <2>2. CASE i = Len(s)
    <3>1. Node(t, i) = last /\ Node(t, i + 1) = n
      BY <1>2, <1>5, <2>2
    <3>2. QED
      BY <1>1, <1>2, <1>3, <3>1
  <2>3. CASE i = Len(s) + 1
    <3>1. Node(t, i) = n /\ Node(t, i + 1) = Node(s, i + 1) /\ i + 1 \in Int /\ i + 1 \notin 1 .. Len(s)
      BY <1>5, <2>3
    <3>2. Node(t, i + 1) = Anchor
      BY <3>1, DistinctNodes DEF Listed
    <3>3. QED
      BY <1>1, <1>2, <1>3, <3>1, <3>2, ListFacts
  <2>4. QED
    BY <1>5, <2>1, <2>2, <2>3
<1>7. Chain(t)'
  BY <1>5, <1>6 DEF Chain, Node, t
<1>8. QED
  BY <1>1, <1>5, <1>7 DEF Listed, Distinct, t

\* The sequence without its element at position k, as the specification has it.
LEMMA RemoveAtIs ==
  ASSUME NEW S, NEW s \in Seq(S), NEW k \in 1 .. Len(s)
  PROVE  /\ Abstract!RemoveAt(s, k) \in Seq(S)
         /\ Len(Abstract!RemoveAt(s, k)) = Len(s) - 1
         /\ \A i \in 1 .. Len(s) - 1 :
              Abstract!RemoveAt(s, k)[i] = IF i < k THEN s[i] ELSE s[i + 1]
<1> DEFINE a == SubSeq(s, 1, k - 1)
           b == SubSeq(s, k + 1, Len(s))
<1>1. Len(s) \in Nat /\ k \in Int /\ \A i \in 1 .. Len(s) : s[i] \in S
  BY LenProperties, ElementOfSeq
<1>2. /\ a \in Seq(S)
      /\ Len(a) = k - 1
      /\ \A i \in 1 .. k - 1 : a[i] = s[i]
  <2>1. \A i \in 1 .. k - 1 : s[i] \in S
    BY <1>1
  <2>2. /\ a \in Seq(S)
        /\ Len(a) = IF 1 <= k - 1 THEN k - 1 - 1 + 1 ELSE 0
        /\ \A i \in 1 .. k - 1 - 1 + 1 : a[i] = s[1 + i - 1]
    BY <1>1, <2>1, SubSeqProperties
  <2>3. QED
    BY <1>1, <2>2
<1>3. /\ b \in Seq(S)
      /\ Len(b) = Len(s) - k
      /\ \A i \in 1 .. Len(s) - k : b[i] = s[k + i]
  <2>1. \A i \in k + 1 .. Len(s) : s[i] \in S
    BY <1>1
  <2>2. /\ b \in Seq(S)
        /\ Len(b) = IF k + 1 <= Len(s) THEN Len(s) - (k + 1) + 1 ELSE 0
        /\ \A i \in 1 .. Len(s) - (k + 1) + 1 : b[i] = s[k + 1 + i - 1]
    BY <1>1, <2>1, SubSeqProperties
  <2>3. QED
    BY <1>1, <2>2
<1>4. Abstract!RemoveAt(s, k) = a \o b
  BY DEF Abstract!RemoveAt
<1> HIDE DEF a, b
<1>5. /\ a \o b \in Seq(S)
      /\ Len(a \o b) = Len(s) - 1
      /\ \A i \in 1 .. Len(s) - 1 : (a \o b)[i] = IF i <= k - 1 THEN a[i] ELSE b[i - (k - 1)]
  <2>1. Len(a) + Len(b) = Len(s) - 1
    BY <1>1, <1>2, <1>3
  <2>2. /\ a \o b \in Seq(S)
        /\ Len(a \o b) = Len(a) + Len(b)
        /\ \A i \in 1 .. Len(a) + Len(b) :
             (a \o b)[i] = IF i <= Len(a) THEN a[i] ELSE b[i - Len(a)]
    BY <1>2, <1>3, ConcatProperties
  <2>3. QED
    BY <1>2, <2>1, <2>2
<1>6. ASSUME NEW i \in 1 .. Len(s) - 1
      PROVE  (a \o b)[i] = IF i < k THEN s[i] ELSE s[i + 1]
  <2>1. CASE i < k
    BY <1>1, <1>2, <1>5, <2>1
  <2>2. CASE ~(i < k)
    <3>1. i - (k - 1) \in 1 .. Len(s) - k /\ k + (i - (k - 1)) = i + 1 /\ ~(i <= k - 1)
      BY <1>1, <2>2
    <3>2. QED
      BY <1>3, <1>5, <2>2, <3>1
  <2>3. QED
    BY <2>1, <2>2
<1>7. QED
  BY <1>4, <1>5, <1>6

\* The nodes of the shorter list.
IsWithout(t, s, k) ==
  /\ Distinct(t) /\ Len(t) = Len(s) - 1
  /\ \A i \in 0 .. Len(s) : Node(t, i) = IF i < k THEN Node(s, i) ELSE Node(s, i + 1)
  /\ {t[i] : i \in 1 .. Len(t)} = {s[i] : i \in 1 .. Len(s)} \ {s[k]}

LEMMA RemoveNode ==
  ASSUME NEW s, Distinct(s), NEW k \in 1 .. Len(s)
  PROVE  IsWithout(Abstract!RemoveAt(s, k), s, k)
<1> DEFINE t == Abstract!RemoveAt(s, k)
<1>1. /\ t \in Seq(Nodes) /\ Len(t) = Len(s) - 1 /\ Len(s) \in Nat /\ k \in Int
      /\ \A i \in 1 .. Len(s) - 1 : t[i] = IF i < k THEN s[i] ELSE s[i + 1]
  BY RemoveAtIs, DistinctNodes DEF Distinct
<1> HIDE DEF t
<1> DEFINE at(i) == IF i < k THEN i ELSE i + 1
<1>2. \A i \in 1 .. Len(s) - 1 : t[i] = s[at(i)] /\ at(i) \in 1 .. Len(s) /\ at(i) # k
  BY <1>1
<1>3. \A i, j \in 1 .. Len(s) - 1 : at(i) = at(j) => i = j
  BY <1>1
<1>4. \A i, j \in 1 .. Len(s) - 1 : t[i] = t[j] => i = j
  <2>1. SUFFICES ASSUME NEW i \in 1 .. Len(s) - 1, NEW j \in 1 .. Len(s) - 1, t[i] = t[j]
                 PROVE  i = j
    OBVIOUS
  <2>2. s[at(i)] = s[at(j)] /\ at(i) \in 1 .. Len(s) /\ at(j) \in 1 .. Len(s)
    BY <1>2, <2>1
  <2>3. at(i) = at(j)
    BY <2>2 DEF Distinct
  <2>4. QED
    BY <1>3, <2>3
<1>5. ASSUME NEW i \in 0 .. Len(s)
      PROVE  Node(t, i) = IF i < k THEN Node(s, i) ELSE Node(s, i + 1)
  <2>1. CASE i \in 1 .. Len(s) - 1
    <3>1. Node(t, i) = t[i] /\ Node(s, at(i)) = s[at(i)]
      BY <1>1, <1>2, <2>1 DEF Node
    <3>2. QED
      BY <1>1, <1>2, <2>1, <3>1
  <2>2. CASE i = 0
    BY <1>1, <2>2 DEF Node
  <2>3. CASE i = Len(s)
    BY <1>1, <2>3 DEF Node
  <2>4. QED
    BY <1>1, <2>1, <2>2, <2>3
<1>6. ASSUME NEW j \in 1 .. Len(s), j # k
      PROVE  \E i \in 1 .. Len(s) - 1 : t[i] = s[j]
  <2>1. CASE j < k
    BY <1>1, <2>1
  <2>2. CASE j > k
    <3>1. j - 1 \in 1 .. Len(s) - 1 /\ ~(j - 1 < k) /\ (j - 1) + 1 = j
      BY <1>1, <2>2
    <3>2. QED
      BY <1>1, <3>1
  <2>3. QED
    BY <1>1, <1>6, <2>1, <2>2
<1>7. \A i \in 1 .. Len(s) : s[i] = s[k] => i = k
  BY DEF Distinct
<1>8. {t[i] : i \in 1 .. Len(t)} = {s[i] : i \in 1 .. Len(s)} \ {s[k]}
  <2>1. ASSUME NEW i \in 1 .. Len(t)
        PROVE  t[i] \in {s[j] : j \in 1 .. Len(s)} \ {s[k]}
    BY <1>1, <1>2, <1>7
  <2>2. ASSUME NEW j \in 1 .. Len(s), s[j] # s[k]
        PROVE  s[j] \in {t[i] : i \in 1 .. Len(t)}
    <3>1. PICK i \in 1 .. Len(s) - 1 : t[i] = s[j]
      BY <1>6, <2>2
    <3>2. QED
      BY <1>1, <3>1
  <2>3. QED
    BY <2>1, <2>2
<1>9. QED
  BY <1>1, <1>4, <1>5, <1>8 DEF Distinct, IsWithout, t

\* A node that was not linked leaves the list as it is.
LEMMA CompleteFresh ==
  ASSUME NodesInv, NEW s, Listed(s), NEW n \in Nodes, Complete(n), n \in fresh
  PROVE  Listed(s)'
<1>1. n \in All /\ n # Anchor /\ n \notin Linked /\ next[n] = n /\ prev[n] = n
  BY ListFacts DEF NodesInv, Linked
<1>2. /\ next' = [next EXCEPT ![n] = Freed] /\ prev' = [prev EXCEPT ![n] = Freed]
      /\ fresh' = fresh \ {n}
  BY <1>1, ListFacts DEF Complete, NextUnlinked, PrevUnlinked
<1>3. /\ \A k \in All : k # n => next'[k] = next[k] /\ prev'[k] = prev[k]
      /\ next'[n] = Freed
  BY <1>1, <1>2, ListFacts
<1>4. Linked' = Linked
  BY <1>1, <1>2, <1>3, ListFacts DEF Linked
<1>5. \A i \in Int : Node(s, i) \in All /\ Node(s, i) # n
  BY <1>1, ListFacts
<1>6. Chain(s)'
  <2>1. SUFFICES ASSUME NEW i \in 0 .. Len(s)
                 PROVE  next'[Node(s, i)] = Node(s, i + 1) /\ prev'[Node(s, i + 1)] = Node(s, i)
    BY DEF Chain, Node
  <2>2. next[Node(s, i)] = Node(s, i + 1) /\ prev[Node(s, i + 1)] = Node(s, i)
    BY <2>1 DEF Listed, Chain
  <2>3. i \in Int /\ i + 1 \in Int
    BY <2>1, ListFacts
  <2>4. QED
    BY <1>3, <1>5, <2>2, <2>3
<1>7. QED
  BY <1>4, <1>6 DEF Listed, Distinct

\* A linked node leaves the list, wherever it is.
LEMMA CompleteListed ==
  ASSUME NodesInv, NEW s, Listed(s), NEW n \in Nodes, Complete(n), n \notin fresh,
         NEW k \in 1 .. Len(s), n = s[k], NEW t, t = Abstract!RemoveAt(s, k)
  PROVE  Listed(t)'
<1> DEFINE p == Node(s, k - 1)
           q == Node(s, k + 1)
<1>1. /\ k \in Int /\ Len(s) \in Nat /\ n = Node(s, k) /\ n \in All /\ n # Anchor
      /\ p \in All /\ q \in All /\ Freed \notin All /\ p # n /\ q # n
  <2>1. k \in Int /\ Len(s) \in Nat /\ k - 1 \in 0 .. Len(s) /\ k + 1 \in 1 .. Len(s) + 1
        /\ k \in 0 .. Len(s) /\ k \in 1 .. Len(s) + 1 /\ k - 1 # k /\ k + 1 # k
    BY ListFacts
  <2>2. n = Node(s, k)
    BY DistinctNodes DEF Listed
  <2>3. p # n /\ q # n
    BY <2>1, <2>2, DistinctNodes DEF Listed
  <2>4. QED
    BY <2>1, <2>2, <2>3, ListFacts
<1>2. next[n] = q /\ prev[n] = p
  <2>1. k \in 0 .. Len(s) /\ k - 1 \in 0 .. Len(s) /\ (k - 1) + 1 = k
    BY <1>1
  <2>2. QED
    BY <1>1, <2>1 DEF Listed, Chain
<1> HIDE DEF p, q
<1>3. /\ next' = [[next EXCEPT ![p] = q] EXCEPT ![n] = Freed]
      /\ prev' = [[prev EXCEPT ![q] = p] EXCEPT ![n] = Freed]
      /\ fresh' = fresh \ {n}
  BY <1>2 DEF Complete, NextUnlinked, PrevUnlinked
<1>4. \A j \in All :
        /\ next'[j] = IF j = n THEN Freed ELSE IF j = p THEN q ELSE next[j]
        /\ prev'[j] = IF j = n THEN Freed ELSE IF j = q THEN p ELSE prev[j]
  BY <1>1, <1>3, ListFacts
<1>5. Linked' = Linked \ {n}
  <2>1. p \in Nodes => next[p] # Freed
    BY <1>1, ListFacts DEF p, Linked
  <2>2. \A j \in Nodes : next'[j] # Freed <=> j # n /\ next[j] # Freed
    BY <1>1, <1>4, <2>1, ListFacts
  <2>3. QED
    BY <1>3, <2>2 DEF Linked
<1>6. /\ Distinct(t) /\ Len(t) = Len(s) - 1
      /\ \A i \in 0 .. Len(s) : Node(t, i) = IF i < k THEN Node(s, i) ELSE Node(s, i + 1)
      /\ {t[i] : i \in 1 .. Len(t)} = Linked'
  <2>1. Distinct(s) /\ {s[i] : i \in 1 .. Len(s)} = Linked
    BY DEF Listed
  <2>2. IsWithout(t, s, k)
    BY <2>1, RemoveNode
  <2>3. QED
    BY <1>5, <2>1, <2>2, Zenon DEF IsWithout
<1>7. \A i \in 0 .. Len(s) : next[Node(s, i)] = Node(s, i + 1) /\ prev[Node(s, i + 1)] = Node(s, i)
  BY DEF Listed, Chain
<1>8. ASSUME NEW i \in 0 .. Len(s) - 1
      PROVE  next'[Node(t, i)] = Node(t, i + 1) /\ prev'[Node(t, i + 1)] = Node(t, i)
  <2>1. i \in 0 .. Len(s) /\ i + 1 \in 0 .. Len(s) /\ (i + 1) + 1 \in Int /\ i \in Int
    BY <1>1
  <2>2. CASE i < k - 1
    <3>1. i < k /\ i + 1 < k /\ k \in 0 .. Len(s) /\ k - 1 \in 0 .. Len(s)
          /\ i + 1 \in 1 .. Len(s) + 1 /\ k + 1 \in 1 .. Len(s) + 1 /\ k \in 1 .. Len(s) + 1
      BY <1>1, <2>2
    <3>2. Node(t, i) = Node(s, i) /\ Node(t, i + 1) = Node(s, i + 1)
      BY <1>6, <2>1, <3>1
    <3>3. Node(s, i) # n /\ Node(s, i) # p
      BY <1>1, <2>1, <2>2, <3>1, DistinctNodes DEF Listed, p
    <3>4. Node(s, i + 1) # n /\ Node(s, i + 1) # q
      BY <1>1, <2>1, <2>2, <3>1, DistinctNodes DEF Listed, q
    <3>5. QED
      BY <1>4, <1>7, <2>1, <3>2, <3>3, <3>4, ListFacts
  <2>3. CASE i = k - 1
    <3>1. Node(t, i) = p /\ Node(t, i + 1) = q
      BY <1>1, <1>6, <2>1, <2>3 DEF p, q
    <3>2. QED
      BY <1>1, <1>4, <3>1
  <2>4. CASE i > k - 1
    <3>1. ~(i < k) /\ ~(i + 1 < k) /\ k \in 0 .. Len(s) /\ k - 1 \in 0 .. Len(s)
          /\ (i + 1) + 1 \in 1 .. Len(s) + 1 /\ k + 1 \in 1 .. Len(s) + 1 /\ k \in 1 .. Len(s) + 1
      BY <1>1, <2>4
    <3>2. Node(t, i) = Node(s, i + 1) /\ Node(t, i + 1) = Node(s, (i + 1) + 1)
      BY <1>6, <2>1, <3>1
    <3>3. Node(s, i + 1) # n /\ Node(s, i + 1) # p
      BY <1>1, <2>1, <2>4, <3>1, DistinctNodes DEF Listed, p
    <3>4. Node(s, (i + 1) + 1) # n /\ Node(s, (i + 1) + 1) # q
      BY <1>1, <2>1, <2>4, <3>1, DistinctNodes DEF Listed, q
    <3>5. QED
      BY <1>4, <1>7, <2>1, <3>2, <3>3, <3>4, ListFacts
  <2>5. QED
    BY <1>1, <2>1, <2>2, <2>3, <2>4
<1>9. Chain(t)'
  <2>1. SUFFICES ASSUME NEW i \in 0 .. Len(t)
                 PROVE  next'[Node(t, i)] = Node(t, i + 1) /\ prev'[Node(t, i + 1)] = Node(t, i)
    BY DEF Chain, Node
  <2>2. QED
    BY <1>6, <1>8, <2>1
<1>10. QED
  BY <1>6, <1>9 DEF Listed, Distinct

\* What a step does to the list, which is what the specification says.
LEMMA ListedStep ==
  ASSUME NodesInv, [Next]_vars, NEW s, Listed(s)
  PROVE  \E t : /\ Listed(t)'
                /\ \/ t = s
                   \/ \E n \in Nodes : n \notin {s[i] : i \in DOMAIN s} /\ t = Append(s, n)
                   \/ \E k \in DOMAIN s : t = Abstract!RemoveAt(s, k)
<1>1. DOMAIN s = 1 .. Len(s)
  BY DistinctNodes DEF Listed
<1>2. ASSUME NEW n \in Nodes, AddWaiter(n)
      PROVE  Listed(Append(s, n))' /\ n \notin {s[i] : i \in DOMAIN s}
  BY <1>1, <1>2, AddWaiterListed DEF Listed
<1>3. ASSUME NEW n \in Nodes, Complete(n), n \notin fresh
      PROVE  \E k \in DOMAIN s : Listed(Abstract!RemoveAt(s, k))'
  <2>1. n \in Linked
    BY <1>3 DEF Complete, Linked
  <2>2. PICK k \in 1 .. Len(s) : n = s[k]
    BY <2>1 DEF Listed
  <2>3. Listed(Abstract!RemoveAt(s, k))'
    BY <1>3, <2>2, CompleteListed
  <2>4. QED
    BY <1>1, <2>3
<1>4. CASE UNCHANGED vars
  <2>1. Listed(s)'
    BY <1>4 DEF vars, Listed, Distinct, Chain, Linked, Node
  <2>2. QED
    BY <2>1
<1>5. ASSUME NEW n \in Nodes, Construct(n) \/ AddWaiter(n) \/ Complete(n)
      PROVE  \E t : /\ Listed(t)'
                    /\ \/ t = s
                       \/ \E m \in Nodes : m \notin {s[i] : i \in DOMAIN s} /\ t = Append(s, m)
                       \/ \E k \in DOMAIN s : t = Abstract!RemoveAt(s, k)
  <2>1. CASE Construct(n)
    BY <2>1, ConstructListed
  <2>2. CASE AddWaiter(n)
    BY <1>2, <2>2
  <2>3. CASE Complete(n) /\ n \in fresh
    BY <2>3, CompleteFresh
  <2>4. CASE Complete(n) /\ n \notin fresh
    BY <1>3, <2>4
  <2>5. QED
    BY <1>5, <2>1, <2>2, <2>3, <2>4
<1>6. QED
  BY <1>4, <1>5 DEF Next

\* The inductive invariant: the pointers are those of some sequence.
ListInv == NodesInv /\ \E s : Listed(s)

LEMMA ListInitInv == Init => ListInv /\ Listed(<< >>)
<1>. SUFFICES ASSUME Init
             PROVE  ListInv /\ Listed(<< >>)
  OBVIOUS
<1>1. /\ << >> \in Seq(Nodes) /\ Len(<< >>) = 0
      /\ \A i \in Int : Node(<< >>, i) = Anchor
  BY EmptySeq DEF Node
<1>2. next[Anchor] = Anchor /\ prev[Anchor] = Anchor /\ Linked = {}
  BY ListAssumption DEF Init, Linked, All
<1>3. Listed(<< >>)
  BY <1>1, <1>2 DEF Listed, Distinct, Chain
<1>4. QED
  BY <1>3, NodesInitInv DEF ListInv

LEMMA ListNextInv == ListInv /\ [Next]_vars => ListInv'
<1>. SUFFICES ASSUME ListInv, [Next]_vars
             PROVE  ListInv'
  OBVIOUS
<1>1. PICK s : Listed(s)
  BY DEF ListInv
<1>2. PICK t : Listed(t)'
  BY <1>1, ListedStep DEF ListInv
<1>3. QED
  BY <1>2, NodesNextInv DEF ListInv

\* A list is its forward walk.
LEMMA ForwardIs == \A s : Listed(s) => Forward = s
BY ChainForward DEF Listed

\* Types: a node that link_before() is called on is linked to itself.
THEOREM ListTypeCorrect == Spec => []TypeOK
<1>1. NodesInv => TypeOK
  BY DEF NodesInv, Pointers, TypeOK
<1>2. QED
  BY <1>1, NodesInitInv, NodesNextInv, PTL DEF Spec

\* For any number of nodes, and however often their memory serves again: no
\* pointer that unlink() and link_before() follow is dangling, and neighbours agree.
THEOREM NeighboursAgreeHolds == Spec => []NeighboursAgree
<1>1. NodesInv => NeighboursAgree
  BY DEF NodesInv
<1>2. QED
  BY <1>1, NodesInitInv, NodesNextInv, PTL DEF Spec

\* For any number of nodes: the loops of size() and of the destructors end, and
\* meet every linked node once, forwards and backwards.
THEOREM WalksAgreeHolds == Spec => []WalksAgree
<1>1. ListInv => WalksAgree
  BY ListedAgrees DEF ListInv
<1>2. QED
  BY <1>1, ListInitInv, ListNextInv, PTL DEF Spec

\* The pointers are the sequence of waiters with which the semaphore is specified:
\* an operation is linked at the back, and leaves from anywhere.
THEOREM ListImplements == Spec => ImplementsWaiterList
<1>1. Init => Abstract!Init
  <2>1. SUFFICES ASSUME Init
                 PROVE  Forward = << >>
    BY DEF Abstract!Init
  <2>2. QED
    BY <2>1, ListInitInv, ForwardIs
<1>2. (\A s : Listed(s) => Forward = s)'
  BY ForwardIs, PTL
<1>3. ListInv /\ [Next]_vars => [Abstract!Next]_Forward
  <2>1. SUFFICES ASSUME ListInv, [Next]_vars
                 PROVE  [Abstract!Next]_Forward
    OBVIOUS
  <2>2. PICK s : Listed(s)
    BY <2>1 DEF ListInv
  <2>3. PICK t : /\ Listed(t)'
                 /\ \/ t = s
                    \/ \E n \in Nodes : n \notin {s[i] : i \in DOMAIN s} /\ t = Append(s, n)
                    \/ \E k \in DOMAIN s : t = Abstract!RemoveAt(s, k)
    BY <2>1, <2>2, ListedStep DEF ListInv
  <2>4. Forward = s /\ Forward' = t
    BY <1>2, <2>2, <2>3, ForwardIs
  <2>5. QED
    BY <2>3, <2>4 DEF Abstract!Next, Abstract!Link, Abstract!Leave
<1>4. QED
  BY <1>1, <1>3, ListInitInv, ListNextInv, PTL DEF Spec, ImplementsWaiterList, Abstract!Spec

-----------------------------------------------------------------------------
(***************************************************************************)
(* The circular buffer.  The end of the queue is determined by its front   *)
(* and its size, also after the array has grown.                           *)
(***************************************************************************)
Wrap(pos, cap) == IF pos >= cap THEN pos - cap ELSE pos

BufferInv ==
  /\ BufferTypeOK
  /\ capacity > 0 => back_pos = Wrap(front_pos + size, capacity)

\* The elements of the queue that begins at f and has n elements.
Segment(f, n, cap, s) == [i \in 1 .. n |-> s[(f + i - 1) % cap]]

LEMMA ModWraps ==
  ASSUME NEW c \in Nat \ {0}, NEW x \in 0 .. 2 * c - 1
  PROVE  x % c = Wrap(x, c) /\ Wrap(x, c) \in 0 .. c - 1
BY DEF Wrap

\* What the queue is, without the remainder.
LEMMA SegmentIs ==
  ASSUME NEW c \in Nat \ {0}, NEW f \in 0 .. c - 1, NEW n \in 0 .. c,
         NEW s \in [0 .. c - 1 -> Elements]
  PROVE  /\ Segment(f, n, c, s) \in Seq(Elements)
         /\ Len(Segment(f, n, c, s)) = n
         /\ \A i \in 1 .. n : Segment(f, n, c, s)[i] = s[Wrap(f + i - 1, c)]
<1>1. ASSUME NEW i \in 1 .. n
      PROVE  (f + i - 1) % c = Wrap(f + i - 1, c) /\ Wrap(f + i - 1, c) \in 0 .. c - 1
  <2>1. f + i - 1 \in 0 .. 2 * c - 1
    OBVIOUS
  <2>2. QED
    BY <2>1, ModWraps
<1>2. Segment(f, n, c, s) \in [1 .. n -> Elements]
  BY <1>1 DEF Segment
<1>3. Segment(f, n, c, s) \in Seq(Elements) /\ Len(Segment(f, n, c, s)) = n
  BY <1>2, FunctionIsSeq
<1>4. \A i \in 1 .. n : Segment(f, n, c, s)[i] = s[Wrap(f + i - 1, c)]
  BY <1>1 DEF Segment
<1>5. QED
  BY <1>3, <1>4

\* A store at the end of a queue that is not full appends to it.
LEMMA StoreAppends ==
  ASSUME size \in Nat, NEW cap \in Nat, size < cap, cap <= SizeMax,
         NEW f \in 0 .. cap - 1, NEW s \in [0 .. cap - 1 -> Elements],
         NEW p \in Elements, result \in Elements,
         Store(p, cap, f, Wrap(f + size, cap), s)
  PROVE  /\ BufferInv'
         /\ Segment(front_pos', size', capacity', storage') = Append(Segment(f, size, cap, s), p)
         /\ result' = result
<1> DEFINE b == Wrap(f + size, cap)
<1>1. /\ b \in 0 .. cap - 1 /\ SizeMax \in Nat
      /\ cap \in Nat \ {0} /\ size \in 0 .. cap /\ size + 1 \in 0 .. cap
  BY BufferAssumption DEF Wrap
<1>2. /\ capacity' = cap /\ size' = size + 1 /\ front_pos' = f /\ back_pos' = Advance(b, cap)
      /\ storage' = [s EXCEPT ![b] = p] /\ result' = result
  BY DEF Store
<1>3. Advance(b, cap) = Wrap(f + size + 1, cap) /\ Advance(b, cap) \in 0 .. cap - 1
  BY <1>1 DEF Advance, Wrap
<1>4. storage' \in [0 .. cap - 1 -> Elements]
  BY <1>1, <1>2
<1>5. BufferInv'
  BY <1>1, <1>2, <1>3, <1>4 DEF BufferInv, BufferTypeOK
<1>6. /\ Segment(f, size, cap, s) \in Seq(Elements)
      /\ Len(Segment(f, size, cap, s)) = size
      /\ \A i \in 1 .. size : Segment(f, size, cap, s)[i] = s[Wrap(f + i - 1, cap)]
  BY <1>1, SegmentIs
<1>7. /\ Segment(f, size + 1, cap, storage') \in Seq(Elements)
      /\ Len(Segment(f, size + 1, cap, storage')) = size + 1
      /\ \A i \in 1 .. size + 1 : Segment(f, size + 1, cap, storage')[i] = storage'[Wrap(f + i - 1, cap)]
  BY <1>1, <1>4, SegmentIs
<1>8. \A i \in 1 .. size : Wrap(f + i - 1, cap) \in 0 .. cap - 1 /\ Wrap(f + i - 1, cap) # b
  BY DEF Wrap
<1> DEFINE old == Segment(f, size, cap, s)
           new == Segment(f, size + 1, cap, storage')
<1>9. ASSUME NEW i \in 1 .. size
      PROVE  new[i] = old[i]
  <2>1. i \in 1 .. size + 1 /\ old[i] = s[Wrap(f + i - 1, cap)]
    BY <1>6
  <2>2. new[i] = storage'[Wrap(f + i - 1, cap)]
    BY <1>7, <2>1
  <2>3. storage'[Wrap(f + i - 1, cap)] = s[Wrap(f + i - 1, cap)]
    BY <1>2, <1>8
  <2>4. QED
    BY <2>1, <2>2, <2>3
<1>10. new[size + 1] = p
  <2>1. Wrap(f + (size + 1) - 1, cap) = b /\ storage'[b] = p
    BY <1>1, <1>2
  <2>2. QED
    BY <1>1, <1>7, <2>1
<1>11. Segment(f, size + 1, cap, storage') = Append(Segment(f, size, cap, s), p)
  BY <1>6, <1>7, <1>9, <1>10
<1>12. QED
  BY <1>2, <1>5, <1>11

\* grow() copies the queue, split or not, to the start of the new array.
LEMMA CopiedIs ==
  ASSUME BufferInv, size = capacity, capacity > 0
  PROVE  /\ Copied \in Seq(Elements)
         /\ Len(Copied) = size
         /\ \A i \in 1 .. size : Copied[i] = storage[Wrap(front_pos + i - 1, capacity)]
<1>1. /\ capacity \in Nat /\ front_pos \in 0 .. capacity - 1 /\ back_pos = front_pos
      /\ storage \in [0 .. capacity - 1 -> Elements]
  BY BufferAssumption DEF BufferInv, BufferTypeOK, Wrap
<1> DEFINE a == Slice(front_pos, capacity)
           c == Slice(0, front_pos)
<1>2. /\ a \in Seq(Elements) /\ Len(a) = capacity - front_pos
      /\ \A i \in 1 .. capacity - front_pos : a[i] = storage[front_pos + i - 1]
  <2>1. a \in [1 .. capacity - front_pos -> Elements]
    BY <1>1 DEF Slice
  <2>2. QED
    BY <1>1, <2>1 DEF Slice
<1>3. /\ c \in Seq(Elements) /\ Len(c) = front_pos
      /\ \A i \in 1 .. front_pos : c[i] = storage[i - 1]
  <2>1. c \in [1 .. front_pos -> Elements]
    BY <1>1 DEF Slice
  <2>2. QED
    BY <1>1, <2>1 DEF Slice
<1>4. Copied = a \o c
  BY <1>1 DEF Copied
<1> HIDE DEF a, c
<1>5. /\ a \o c \in Seq(Elements) /\ Len(a \o c) = capacity
      /\ \A i \in 1 .. capacity : (a \o c)[i] = IF i <= Len(a) THEN a[i] ELSE c[i - Len(a)]
  <2>1. Len(a) + Len(c) = capacity
    BY <1>1, <1>2, <1>3
  <2>2. QED
    BY <1>2, <1>3, <2>1, ConcatProperties
<1>6. ASSUME NEW i \in 1 .. capacity
      PROVE  (a \o c)[i] = storage[Wrap(front_pos + i - 1, capacity)]
  <2>1. CASE i <= capacity - front_pos
    BY <1>1, <1>2, <1>5, <2>1 DEF Wrap
  <2>2. CASE i > capacity - front_pos
    <3>1. i - (capacity - front_pos) \in 1 .. front_pos
      BY <1>1, <2>2
    <3>2. (a \o c)[i] = c[i - (capacity - front_pos)]
      BY <1>1, <1>2, <1>5, <2>2
    <3>3. Wrap(front_pos + i - 1, capacity) = i - (capacity - front_pos) - 1
      BY <1>1, <2>2 DEF Wrap
    <3>4. QED
      BY <1>3, <3>1, <3>2, <3>3
  <2>3. i <= capacity - front_pos \/ i > capacity - front_pos
    BY <1>1
  <2>4. QED
    BY <2>1, <2>2, <2>3
<1>7. QED
  BY <1>4, <1>5, <1>6

\* The queue of the refinement.
LEMMA QueueIs ==
  ASSUME BufferInv
  PROVE  /\ Segment(front_pos, size, capacity, storage) \in Seq(Elements)
         /\ Len(Segment(front_pos, size, capacity, storage)) = size
<1>1. capacity \in Nat /\ size \in 0 .. capacity
  BY BufferAssumption DEF BufferInv, BufferTypeOK
<1>2. CASE capacity = 0
  <2>1. Segment(front_pos, size, capacity, storage) \in [1 .. 0 -> Elements]
    BY <1>1, <1>2 DEF Segment
  <2>2. QED
    BY <1>1, <1>2, <2>1
<1>3. CASE capacity # 0
  BY <1>1, <1>3, SegmentIs DEF BufferInv, BufferTypeOK
<1>4. QED
  BY <1>2, <1>3

\* The three ways of push() append.
LEMMA PushStep ==
  ASSUME BufferInv, NEW p \in Elements, PushFirst(p) \/ PushGrowing(p) \/ PushStoring(p)
  PROVE  /\ BufferInv'
         /\ Segment(front_pos', size', capacity', storage')
              = Append(Segment(front_pos, size, capacity, storage), p)
         /\ result' = result
<1>1. /\ capacity \in Nat /\ capacity <= SizeMax /\ size \in 0 .. capacity /\ SizeMax \in Nat
      /\ result \in Elements /\ storage \in [0 .. capacity - 1 -> Elements]
      /\ InitialCapacity \in Nat \ {0} /\ InitialCapacity <= SizeMax /\ Zero \in Elements
  BY BufferAssumption DEF BufferInv, BufferTypeOK
<1>2. CASE PushFirst(p)
  <2> DEFINE s == [i \in 0 .. InitialCapacity - 1 |-> Zero]
  <2>1. size = 0 /\ Store(p, InitialCapacity, 0, 0, s) /\ s \in [0 .. InitialCapacity - 1 -> Elements]
    BY <1>1, <1>2 DEF PushFirst
  <2>2. Wrap(0 + size, InitialCapacity) = 0
    BY <1>1, <2>1 DEF Wrap
  <2>3. Segment(0, size, InitialCapacity, s) = Segment(front_pos, size, capacity, storage)
    BY <2>1 DEF Segment
  <2> HIDE DEF s
  <2>4. QED
    BY <1>1, <2>1, <2>2, <2>3, StoreAppends
<1>3. CASE PushGrowing(p)
  <2> DEFINE cap == 2 * capacity
             s == [i \in 0 .. 2 * capacity - 1 |-> IF i < Len(Copied) THEN Copied[i + 1] ELSE Zero]
  <2>1. /\ size = capacity /\ capacity > 0 /\ capacity <= SizeMax \div 2
        /\ Store(p, cap, 0, Len(Copied), s)
    BY <1>3 DEF PushGrowing
  <2>2. /\ Copied \in Seq(Elements) /\ Len(Copied) = size
        /\ \A i \in 1 .. size : Copied[i] = storage[Wrap(front_pos + i - 1, capacity)]
    BY <2>1, CopiedIs
  <2>3. /\ cap \in Nat /\ size < cap /\ cap <= SizeMax /\ 0 \in 0 .. cap - 1
      /\ cap \in Nat \ {0} /\ size \in 0 .. cap
    BY <1>1, <2>1
  <2>4. s \in [0 .. cap - 1 -> Elements]
    <3>1. ASSUME NEW i \in 0 .. cap - 1, i < Len(Copied)
          PROVE  Copied[i + 1] \in Elements
      BY <1>1, <2>2, <3>1
    <3>2. QED
      BY <1>1, <3>1
  <2>5. Wrap(0 + size, cap) = Len(Copied)
    BY <1>1, <2>2, <2>3 DEF Wrap
  <2>6. \A i \in 1 .. size : s[Wrap(0 + i - 1, cap)] = storage[Wrap(front_pos + i - 1, capacity)]
    <3>1. ASSUME NEW i \in 1 .. size
          PROVE  s[Wrap(0 + i - 1, cap)] = Copied[i]
      <4>1. Wrap(0 + i - 1, cap) = i - 1 /\ i - 1 \in 0 .. cap - 1 /\ i - 1 < Len(Copied)
        BY <1>1, <2>2, <2>3 DEF Wrap
      <4>2. QED
        BY <4>1
    <3>2. QED
      BY <2>2, <3>1
  <2>7. front_pos \in 0 .. capacity - 1 /\ capacity \in Nat \ {0}
    BY <1>1, <2>1 DEF BufferInv, BufferTypeOK
  <2> HIDE DEF s, cap
  <2>8. Segment(0, size, cap, s) = Segment(front_pos, size, capacity, storage)
    <3>1. /\ Segment(0, size, cap, s) \in Seq(Elements)
          /\ Len(Segment(0, size, cap, s)) = size
          /\ \A i \in 1 .. size : Segment(0, size, cap, s)[i] = s[Wrap(0 + i - 1, cap)]
      BY <2>3, <2>4, SegmentIs
    <3>2. /\ Segment(front_pos, size, capacity, storage) \in Seq(Elements)
          /\ Len(Segment(front_pos, size, capacity, storage)) = size
          /\ \A i \in 1 .. size :
               Segment(front_pos, size, capacity, storage)[i] = storage[Wrap(front_pos + i - 1, capacity)]
      BY <1>1, <2>1, <2>7, SegmentIs
    <3>3. QED
      BY <2>6, <3>1, <3>2
  <2>9. QED
    BY <1>1, <2>1, <2>3, <2>4, <2>5, <2>8, StoreAppends
<1>4. CASE PushStoring(p)
  <2>1. size < capacity /\ Store(p, capacity, front_pos, back_pos, storage)
    BY <1>1, <1>4 DEF PushStoring
  <2>2. front_pos \in 0 .. capacity - 1 /\ back_pos = Wrap(front_pos + size, capacity)
    BY <1>1, <2>1 DEF BufferInv, BufferTypeOK
  <2>3. QED
    BY <1>1, <2>1, <2>2, StoreAppends
<1>5. QED
  BY <1>2, <1>3, <1>4

\* pop() takes the head.
LEMMA PopStep ==
  ASSUME BufferInv, Pop
  PROVE  /\ BufferInv'
         /\ size > 0
         /\ result' = Head(Segment(front_pos, size, capacity, storage))
         /\ Segment(front_pos', size', capacity', storage')
              = Tail(Segment(front_pos, size, capacity, storage))
<1> DEFINE q == Segment(front_pos, size, capacity, storage)
           f == Advance(front_pos, capacity)
           r == Segment(f, size - 1, capacity, storage)
<1>1. /\ capacity \in Nat \ {0} /\ capacity <= SizeMax /\ size \in 1 .. capacity /\ SizeMax \in Nat
      /\ front_pos \in 0 .. capacity - 1 /\ storage \in [0 .. capacity - 1 -> Elements]
      /\ back_pos = Wrap(front_pos + size, capacity) /\ back_pos \in 0 .. capacity - 1
      /\ size \in 0 .. capacity /\ size - 1 \in 0 .. capacity
  BY BufferAssumption DEF BufferInv, BufferTypeOK, Pop
<1>2. /\ result' = storage[front_pos] /\ front_pos' = f /\ size' = size - 1
      /\ capacity' = capacity /\ back_pos' = back_pos /\ storage' = storage
  BY DEF Pop
<1>3. f \in 0 .. capacity - 1 /\ back_pos = Wrap(f + (size - 1), capacity)
  BY <1>1 DEF Advance, Wrap
<1>4. \A i \in 1 .. size - 1 : Wrap(f + i - 1, capacity) = Wrap(front_pos + (i + 1) - 1, capacity)
  BY <1>1 DEF Advance, Wrap
<1>5. Wrap(front_pos + 1 - 1, capacity) = front_pos
  BY <1>1 DEF Wrap
<1> HIDE DEF f
<1>6. /\ q \in Seq(Elements) /\ Len(q) = size
      /\ \A i \in 1 .. size : q[i] = storage[Wrap(front_pos + i - 1, capacity)]
  <2>1. /\ capacity \in Nat \ {0} /\ front_pos \in 0 .. capacity - 1 /\ size \in 0 .. capacity
        /\ storage \in [0 .. capacity - 1 -> Elements]
    BY <1>1
  <2>2. /\ Segment(front_pos, size, capacity, storage) \in Seq(Elements)
        /\ Len(Segment(front_pos, size, capacity, storage)) = size
        /\ \A i \in 1 .. size :
             Segment(front_pos, size, capacity, storage)[i] = storage[Wrap(front_pos + i - 1, capacity)]
    BY <2>1, SegmentIs
  <2>3. QED
    BY <2>2
<1>7. /\ r \in Seq(Elements) /\ Len(r) = size - 1
      /\ \A i \in 1 .. size - 1 : r[i] = storage[Wrap(f + i - 1, capacity)]
  <2>1. /\ capacity \in Nat \ {0} /\ f \in 0 .. capacity - 1 /\ size - 1 \in 0 .. capacity
        /\ storage \in [0 .. capacity - 1 -> Elements]
    BY <1>1, <1>3
  <2>2. /\ Segment(f, size - 1, capacity, storage) \in Seq(Elements)
        /\ Len(Segment(f, size - 1, capacity, storage)) = size - 1
        /\ \A i \in 1 .. size - 1 :
             Segment(f, size - 1, capacity, storage)[i] = storage[Wrap(f + i - 1, capacity)]
    BY <2>1, SegmentIs
  <2>3. QED
    BY <2>2
<1> HIDE DEF q, r
<1>8. Head(q) = storage[front_pos]
  BY <1>1, <1>5, <1>6
<1>9. r = Tail(q)
  <2>1. /\ Tail(q) \in Seq(Elements) /\ Len(Tail(q)) = size - 1
        /\ \A i \in 1 .. size - 1 : Tail(q)[i] = q[i + 1]
    BY <1>1, <1>6
  <2>2. \A i \in 1 .. size - 1 : r[i] = q[i + 1]
    BY <1>1, <1>4, <1>6, <1>7
  <2>3. QED
    BY <1>7, <2>1, <2>2
<1>10. BufferInv'
  <2>1. result' \in Elements
    BY <1>1, <1>2
  <2>2. QED
    BY <1>1, <1>2, <1>3, <2>1 DEF BufferInv, BufferTypeOK
<1>11. QED
  BY <1>1, <1>2, <1>8, <1>9, <1>10 DEF q, r

LEMMA BufferInitInv == BufferInit => BufferInv
BY BufferAssumption DEF BufferInit, BufferInv, BufferTypeOK

LEMMA BufferNextInv == BufferInv /\ [BufferNext]_bufferVars => BufferInv'
<1>1. ASSUME BufferInv, UNCHANGED bufferVars
      PROVE  BufferInv'
  BY <1>1 DEF bufferVars, BufferInv, BufferTypeOK
<1>2. QED
  BY <1>1, PushStep, PopStep DEF BufferNext

\* Positions are within the array, or zero when there is none.
THEOREM BufferTypeCorrect == BufferSpec => []BufferTypeOK
<1>1. BufferInv => BufferTypeOK
  BY DEF BufferInv
<1>2. QED
  BY <1>1, BufferInitInv, BufferNextInv, PTL DEF BufferSpec

\* For any elements, capacities and number of pushes and pops, elements come out
\* of the circular array in the order in which they went in: grow() rejoins a
\* split queue and loses none (test/transaction.cpp:31-150).
THEOREM BufferImplementsFifo == BufferSpec => ImplementsFifo
<1>1. BufferInit => Queue!Init
  <2>1. SUFFICES ASSUME BufferInit
                 PROVE  Queue!Init
    OBVIOUS
  <2>2. size = 0 /\ result \in Elements
    BY <2>1, BufferAssumption DEF BufferInit
  <2>3. [i \in 1 .. size |-> storage[(front_pos + i - 1) % capacity]] = << >>
    BY <2>2
  <2>4. QED
    BY <2>2, <2>3 DEF Queue!Init
<1>2. BufferInv /\ [BufferNext]_bufferVars => [Queue!Next]_Queue!vars
  <2>1. SUFFICES ASSUME BufferInv, [BufferNext]_bufferVars
                 PROVE  [Queue!Next]_Queue!vars
    OBVIOUS
  <2>2. ASSUME NEW p \in Elements, PushFirst(p) \/ PushGrowing(p) \/ PushStoring(p)
        PROVE  Queue!Push(p)
    BY <2>1, <2>2, PushStep DEF Queue!Push, Segment
  <2>3. CASE Pop
    <3>1. /\ size > 0 /\ result' = Head(Segment(front_pos, size, capacity, storage))
          /\ Segment(front_pos', size', capacity', storage')
               = Tail(Segment(front_pos, size, capacity, storage))
      BY <2>1, <2>3, PopStep
    <3>2. Segment(front_pos, size, capacity, storage) # << >>
      BY <2>1, <3>1, QueueIs
    <3>3. Queue!Pop
      BY <3>1, <3>2, Zenon DEF Queue!Pop, Segment
    <3>4. QED
      BY <3>3, Zenon DEF Queue!Next
  <2>4. CASE UNCHANGED bufferVars
    BY <2>4 DEF bufferVars, Queue!vars
  <2>5. QED
    BY <2>1, <2>2, <2>3, <2>4 DEF BufferNext, Queue!Next
<1>3. QED
  BY <1>1, <1>2, BufferInitInv, BufferNextInv, PTL DEF BufferSpec, ImplementsFifo, Queue!Spec

-----------------------------------------------------------------------------
(***************************************************************************)
(* Latched reads.  A latch is taken exactly when its group has a winner,   *)
(* and then a second cannot come; where the bytes are follows from the     *)
(* guard of each branch.                                                   *)
(***************************************************************************)
Won(g) ==
  /\ \A r, s \in Winners(g) : r = s
  /\ timer[g] = "tripped" => Winners(g) = {}
  /\ transferred[g] <=> Winners(g) # {} \/ timer[g] = "tripped"

ReadInv ==
  /\ ReadTypeOK
  /\ BytesConserved
  /\ \A g \in Groups : Won(g)

\* What the winners of a group are after a read has an outcome.
LEMMA OutcomeGiven ==
  ASSUME ReadTypeOK, NEW r \in Readers, NEW o, outcome' = [outcome EXCEPT ![r] = o],
         NEW g \in Groups
  PROVE  /\ g # GroupOf[r] => Winners(g)' = Winners(g)
         /\ g = GroupOf[r] /\ o \in {"read", "eof", "aborted"} => Winners(g)' = Winners(g) \cup {r}
         /\ outcome[r] = "none" /\ o = "denied" => Winners(g)' = Winners(g)
<1>1. \A s \in Readers : outcome'[s] = IF s = r THEN o ELSE outcome[s]
  BY DEF ReadTypeOK
<1>2. QED
  BY <1>1 DEF Winners

LEMMA ReadInitInv == ReadInit => ReadInv
<1>. SUFFICES ASSUME ReadInit
             PROVE  ReadInv
  OBVIOUS
<1>1. ReadTypeOK /\ BytesConserved
  <2>1. inbox = 0 /\ sent = 0 /\ delivered = 0 /\ MaxSent \in Nat /\ shut = FALSE
    BY ReadAssumption DEF ReadInit
  <2>2. /\ op \in [Readers -> {"waiting", "ready", "cancelled", "done"}]
        /\ outcome \in [Readers -> {"none", "read", "eof", "aborted", "denied"}]
        /\ \A r \in Readers : outcome[r] = "none"
    BY DEF ReadInit
  <2>3. /\ transferred \in [Groups -> BOOLEAN]
        /\ timer \in [Groups -> {"armed", "tripped", "missed"}]
    BY DEF ReadInit
  <2>4. QED
    <3>1. BytesConserved
      BY <2>1 DEF BytesConserved
    <3>2. inbox \in 0 .. MaxSent /\ sent \in 0 .. MaxSent /\ delivered \in 0 .. MaxSent
      BY <2>1
    <3>3. QED
      BY <2>1, <2>2, <2>3, <3>1, <3>2, Zenon DEF ReadTypeOK
<1>2. \A g \in Groups : Winners(g) = {}
  BY DEF ReadInit, Winners
<1>3. QED
  BY <1>1, <1>2 DEF ReadInit, ReadInv, Won

\* The branches in which a read takes the latch.
LEMMA ReadWins ==
  ASSUME ReadInv, NEW r \in Readers, op[r] # "done", ~transferred[GroupOf[r]],
         NEW o \in {"read", "eof", "aborted"}, CommitLatch(r), CompleteWith(r, o)
  PROVE  \A g \in Groups : Won(g)'
<1>. SUFFICES ASSUME NEW g \in Groups
             PROVE  Won(g)'
  OBVIOUS
<1>1. /\ GroupOf[r] \in Groups
      /\ timer' = timer
      /\ transferred'[g] = (g = GroupOf[r] \/ transferred[g])
      /\ outcome' = [outcome EXCEPT ![r] = o]
  BY ReadAssumption DEF ReadInv, ReadTypeOK, CommitLatch, CompleteWith
<1>2. Won(g) /\ ReadTypeOK
  BY DEF ReadInv
<1>3. CASE g # GroupOf[r]
  BY <1>1, <1>2, <1>3, OutcomeGiven DEF Won
<1>4. CASE g = GroupOf[r]
  <2>1. Winners(g) = {} /\ timer[g] # "tripped"
    BY <1>2, <1>4 DEF Won
  <2>2. Winners(g)' = {r}
    BY <1>1, <1>2, <1>4, <2>1, OutcomeGiven
  <2>3. QED
    BY <1>1, <1>4, <2>1, <2>2 DEF Won
<1>5. QED
  BY <1>3, <1>4

\* Steps that give no outcome and leave latches and timers alone.
LEMMA ReadKeeps ==
  ASSUME \A g \in Groups : Won(g), UNCHANGED <<outcome, timer, transferred>>
  PROVE  \A g \in Groups : Won(g)'
BY DEF Won, Winners

LEMMA HandleInv ==
  ASSUME ReadInv, NEW r \in Readers, Handle(r)
  PROVE  ReadInv'
<1>1. /\ op[r] # "done" /\ outcome[r] = "none" /\ GroupOf[r] \in Groups
      /\ MaxSent \in Nat /\ inbox \in Nat /\ delivered \in Nat /\ sent \in Nat
      /\ sent <= MaxSent /\ sent = inbox + delivered /\ ReadTypeOK
      /\ sent' = sent /\ shut' = shut
  BY ReadAssumption DEF ReadInv, ReadTypeOK, BytesConserved, Handle, peer
<1>2. ASSUME NEW ops \in [Readers -> {"waiting", "ready", "cancelled", "done"}]
      PROVE  /\ CancelOthers(GroupOf[r], ops) \in [Readers -> {"waiting", "ready", "cancelled", "done"}]
             /\ \A s \in Readers : CancelOthers(GroupOf[r], ops)[s] = "done" <=> ops[s] = "done"
  BY DEF CancelOthers
<1>3. ASSUME NEW o \in {"read", "eof", "aborted", "denied"}, CompleteWith(r, o)
      PROVE  /\ op' \in [Readers -> {"waiting", "ready", "cancelled", "done"}]
             /\ outcome' \in [Readers -> {"none", "read", "eof", "aborted", "denied"}]
             /\ timer' = timer
             /\ \A s \in Readers : op'[s] # "done" => outcome'[s] = "none"
  <2> DEFINE ops == [op EXCEPT ![r] = "done"]
  <2>1. /\ ops \in [Readers -> {"waiting", "ready", "cancelled", "done"}]
        /\ \A s \in Readers : ops[s] # "done" => s # r /\ op[s] # "done"
    BY <1>1 DEF ReadTypeOK
  <2>2. op' = CancelOthers(GroupOf[r], ops) /\ outcome' = [outcome EXCEPT ![r] = o]
    BY <1>3 DEF CompleteWith
  <2> HIDE DEF ops
  <2>3. /\ op' \in [Readers -> {"waiting", "ready", "cancelled", "done"}]
        /\ \A s \in Readers : op'[s] # "done" => s # r /\ op[s] # "done"
    BY <1>2, <2>1, <2>2
  <2>4. /\ outcome' \in [Readers -> {"none", "read", "eof", "aborted", "denied"}]
        /\ \A s \in Readers : s # r => outcome'[s] = outcome[s]
    BY <1>1, <2>2 DEF ReadTypeOK
  <2>5. QED
    BY <1>1, <1>3, <2>3, <2>4 DEF CompleteWith, ReadTypeOK
<1>4. CommitLatch(r) => transferred' \in [Groups -> BOOLEAN]
  BY <1>1 DEF CommitLatch, ReadTypeOK
<1>5. CASE Deny(r)
  <2>1. CompleteWith(r, "denied") /\ UNCHANGED <<transferred, inbox, delivered>>
    BY <1>5 DEF Deny
  <2>2. ReadTypeOK' /\ BytesConserved'
    BY <1>1, <1>3, <2>1 DEF ReadTypeOK, BytesConserved
  <2>3. \A g \in Groups : Winners(g)' = Winners(g)
    BY <1>1, <2>1, OutcomeGiven DEF CompleteWith
  <2>4. \A g \in Groups : Won(g)'
    BY <2>1, <2>3 DEF ReadInv, Won, CompleteWith
  <2>5. QED
    BY <2>2, <2>4 DEF ReadInv
<1>6. CASE Fail(r)
  <2>1. /\ CompleteWith(r, "aborted") /\ CommitLatch(r) /\ ~transferred[GroupOf[r]]
        /\ UNCHANGED <<inbox, delivered>>
    BY <1>6 DEF Fail
  <2>2. ReadTypeOK' /\ BytesConserved'
    BY <1>1, <1>3, <1>4, <2>1 DEF ReadTypeOK, BytesConserved
  <2>3. QED
    BY <1>1, <2>1, <2>2, ReadWins DEF ReadInv
<1>7. ASSUME NEW n \in 1 .. inbox, Read(r, n)
      PROVE  ReadInv'
  <2>1. /\ CompleteWith(r, "read") /\ CommitLatch(r) /\ ~transferred[GroupOf[r]]
        /\ inbox' = inbox - n /\ delivered' = delivered + n
    BY <1>7 DEF Read
  <2>2. ReadTypeOK' /\ BytesConserved'
    BY <1>1, <1>3, <1>4, <2>1 DEF ReadTypeOK, BytesConserved
  <2>3. QED
    BY <1>1, <2>1, <2>2, ReadWins DEF ReadInv
<1>8. CASE Eof(r)
  <2>1. /\ CompleteWith(r, "eof") /\ CommitLatch(r) /\ ~transferred[GroupOf[r]]
        /\ UNCHANGED <<inbox, delivered>>
    BY <1>8 DEF Eof
  <2>2. ReadTypeOK' /\ BytesConserved'
    BY <1>1, <1>3, <1>4, <2>1 DEF ReadTypeOK, BytesConserved
  <2>3. QED
    BY <1>1, <2>1, <2>2, ReadWins DEF ReadInv
<1>9. CASE WouldBlock(r)
  <2>1. UNCHANGED <<transferred, outcome, timer, inbox, delivered>>
    BY <1>9 DEF WouldBlock
  <2>2. ReadTypeOK' /\ BytesConserved'
    BY <1>1, <1>9, <2>1 DEF WouldBlock, ReadTypeOK, BytesConserved
  <2>3. QED
    BY <2>1, <2>2, ReadKeeps DEF ReadInv
<1>10. QED
  BY <1>5, <1>6, <1>7, <1>8, <1>9 DEF Handle

\* The timer takes the latch when nobody has.
LEMMA TripInv ==
  ASSUME ReadInv, NEW g \in Groups, Trip(g)
  PROVE  ReadInv'
<1>1. ReadTypeOK' /\ BytesConserved'
  <2>1. /\ op' \in [Readers -> {"waiting", "ready", "cancelled", "done"}]
        /\ \A r \in Readers : op'[r] # "done" => op[r] # "done"
    BY DEF ReadInv, ReadTypeOK, Trip, CancelOthers
  <2>2. /\ transferred' \in [Groups -> BOOLEAN]
        /\ timer' \in [Groups -> {"armed", "tripped", "missed"}]
    BY DEF ReadInv, ReadTypeOK, Trip
  <2>3. UNCHANGED <<outcome, inbox, shut, sent, delivered>>
    BY DEF Trip, peer
  <2>4. QED
    BY <2>1, <2>2, <2>3 DEF ReadInv, ReadTypeOK, BytesConserved
<1>2. \A h \in Groups : Winners(h)' = Winners(h)
  BY DEF Trip, Winners
<1>3. \A h \in Groups :
        /\ timer'[h] = IF h = g THEN IF transferred[g] THEN "missed" ELSE "tripped" ELSE timer[h]
        /\ transferred'[h] = (h = g \/ transferred[h])
  BY DEF ReadInv, ReadTypeOK, Trip
<1>4. timer[g] = "armed"
  BY DEF Trip
<1>5. ASSUME NEW h \in Groups
      PROVE  Won(h)'
  <2>1. Won(h) /\ Winners(h)' = Winners(h)
    BY <1>2 DEF ReadInv
  <2>2. CASE h # g
    BY <1>3, <2>1, <2>2 DEF Won
  <2>3. CASE h = g
    <3>1. timer'[g] = (IF transferred[g] THEN "missed" ELSE "tripped") /\ transferred'[g]
      BY <1>3
    <3>2. QED
      BY <1>4, <2>1, <2>3, <3>1 DEF Won
  <2>4. QED
    BY <2>2, <2>3
<1>6. QED
  BY <1>1, <1>5 DEF ReadInv

\* After the reset of its latch a group has no winner.
LEMMA RestartInv ==
  ASSUME ReadInv, NEW g \in Groups, Restart(g)
  PROVE  ReadInv'
<1>1. ReadTypeOK' /\ BytesConserved'
  <2>1. /\ op' \in [Readers -> {"waiting", "ready", "cancelled", "done"}]
        /\ outcome' \in [Readers -> {"none", "read", "eof", "aborted", "denied"}]
        /\ \A r \in Readers : op'[r] # "done" => outcome'[r] = "none"
    BY DEF ReadInv, ReadTypeOK, Restart
  <2>2. /\ transferred' \in [Groups -> BOOLEAN]
        /\ timer' \in [Groups -> {"armed", "tripped", "missed"}]
    BY DEF ReadInv, ReadTypeOK, Restart
  <2>3. UNCHANGED <<inbox, shut, sent, delivered>>
    BY DEF Restart, peer
  <2>4. QED
    BY <2>1, <2>2, <2>3 DEF ReadInv, ReadTypeOK, BytesConserved
<1>2. \A h \in Groups : Winners(h)' = IF h = g THEN {} ELSE Winners(h)
  BY DEF Restart, Winners
<1>3. \A h \in Groups :
        /\ timer'[h] = IF h = g THEN "armed" ELSE timer[h]
        /\ transferred'[h] = (h # g /\ transferred[h])
  BY DEF ReadInv, ReadTypeOK, Restart
<1>4. \A h \in Groups : Won(h)'
  BY <1>2, <1>3 DEF ReadInv, Won
<1>5. QED
  BY <1>1, <1>4 DEF ReadInv

LEMMA ReadNextInv == ReadInv /\ [ReadNext]_readVars => ReadInv'
<1>. SUFFICES ASSUME ReadInv, [ReadNext]_readVars
             PROVE  ReadInv'
  OBVIOUS
<1>1. ASSUME NEW r \in Readers, Readable(r)
      PROVE  ReadInv'
  <2>1. ReadTypeOK' /\ BytesConserved'
    BY <1>1 DEF ReadInv, ReadTypeOK, BytesConserved, Readable, peer
  <2>2. QED
    BY <1>1, <2>1, ReadKeeps DEF ReadInv, Readable
<1>2. CASE CancelSocket
  <2>1. ReadTypeOK' /\ BytesConserved'
    BY <1>2 DEF ReadInv, ReadTypeOK, BytesConserved, CancelSocket, peer
  <2>2. QED
    BY <1>2, <2>1, ReadKeeps DEF ReadInv, CancelSocket
<1>3. CASE Send
  <2>1. ReadTypeOK' /\ BytesConserved'
    BY <1>3, ReadAssumption DEF ReadInv, ReadTypeOK, BytesConserved, Send
  <2>2. QED
    BY <1>3, <2>1, ReadKeeps DEF ReadInv, Send
<1>4. CASE Shutdown
  <2>1. ReadTypeOK' /\ BytesConserved'
    BY <1>4 DEF ReadInv, ReadTypeOK, BytesConserved, Shutdown
  <2>2. QED
    BY <1>4, <2>1, ReadKeeps DEF ReadInv, Shutdown
<1>5. CASE UNCHANGED readVars
  <2>1. ReadTypeOK' /\ BytesConserved'
    BY <1>5 DEF ReadInv, ReadTypeOK, BytesConserved, readVars
  <2>2. QED
    BY <1>5, <2>1, ReadKeeps DEF ReadInv, readVars
<1>6. QED
  BY <1>1, <1>2, <1>3, <1>4, <1>5, HandleInv, TripInv, RestartInv DEF ReadNext

LEMMA ReadInvHolds == ReadSpec => []ReadInv
BY ReadInitInv, ReadNextInv, PTL DEF ReadSpec

\* Types of reads, timers and latches; what was delivered is within what was sent.
THEOREM ReadTypeCorrect == ReadSpec => []ReadTypeOK
<1>1. ReadInv => ReadTypeOK
  BY DEF ReadInv
<1>2. QED
  BY <1>1, ReadInvHolds, PTL

\* No byte is lost to a read that lost its race, for any number of reads, groups
\* and turns (async_read_some.hpp:47-70).
THEOREM BytesConservedHolds == ReadSpec => []BytesConserved
<1>1. ReadInv => BytesConserved
  BY DEF ReadInv
<1>2. QED
  BY <1>1, ReadInvHolds, PTL

\* One member of a group wins its latch, and the latch says so: commit and rollback
\* in every branch of the handler, the timer and the reset are right together.
THEOREM OneWinnerHolds == ReadSpec => []OneWinner
<1>1. ReadInv => OneWinner
  <2>. SUFFICES ASSUME ReadInv, NEW g \in Groups
               PROVE  /\ Cardinality(Winners(g)) + (IF timer[g] = "tripped" THEN 1 ELSE 0) <= 1
                      /\ transferred[g] <=> Winners(g) # {} \/ timer[g] = "tripped"
    BY DEF OneWinner
  <2>1. Won(g)
    BY DEF ReadInv
  <2>2. CASE Winners(g) = {}
    <3>1. Cardinality(Winners(g)) = 0
      BY <2>2, FS_EmptySet
    <3>2. QED
      BY <2>1, <3>1 DEF Won
  <2>3. CASE Winners(g) # {}
    <3>1. PICK r \in Winners(g) : Winners(g) = {r}
      BY <2>1, <2>3 DEF Won
    <3>2. Cardinality(Winners(g)) = 1
      BY <3>1, FS_Singleton
    <3>3. QED
      BY <2>1, <2>3, <3>2 DEF Won
  <2>4. QED
    BY <2>2, <2>3
<1>2. QED
  BY <1>1, ReadInvHolds, PTL

-----------------------------------------------------------------------------
(***************************************************************************)
(* The safety part of GroupCompletes: a timer that fired took the latch or *)
(* found it taken, and no read of its group waits then, nor ever again in  *)
(* this turn: would_block, which waits again, comes under a free latch.    *)
(***************************************************************************)
NoneWaits ==
  \A g \in Groups :
    timer[g] # "armed" =>
      transferred[g] /\ \A r \in Readers : GroupOf[r] = g => op[r] # "waiting"

LEMMA HandleNoneWaits ==
  ASSUME ReadInv, NoneWaits, NEW r \in Readers, Handle(r)
  PROVE  NoneWaits'
<1>1. /\ GroupOf[r] \in Groups /\ op[r] \in {"ready", "cancelled"} /\ ReadTypeOK
      /\ timer' = timer
  BY ReadAssumption
     DEF ReadInv, Handle, Deny, Fail, Read, Eof, WouldBlock, CompleteWith
<1>2. CASE transferred' = transferred \/ CommitLatch(r)
  <2>1. \A g \in Groups : transferred[g] => transferred'[g]
    BY <1>1, <1>2 DEF CommitLatch, ReadTypeOK
  <2>2. CASE \E o \in {"read", "eof", "aborted", "denied"} : CompleteWith(r, o)
    <3>1. \A s \in Readers : op'[s] = "waiting" => op[s] = "waiting"
      BY <1>1, <2>2 DEF CompleteWith, CancelOthers, ReadTypeOK
    <3>2. QED
      BY <1>1, <2>1, <3>1 DEF NoneWaits
  <2>3. CASE ~transferred[GroupOf[r]] /\ op' = [op EXCEPT ![r] = "waiting"]
    <3>1. timer[GroupOf[r]] = "armed"
      BY <1>1, <2>3 DEF NoneWaits
    <3>2. \A s \in Readers : s # r => op'[s] = op[s]
      BY <1>1, <2>3 DEF ReadTypeOK
    <3>3. QED
      BY <1>1, <2>1, <3>1, <3>2 DEF NoneWaits
  <2>4. QED
    BY <2>2, <2>3 DEF Handle, Deny, Fail, Read, Eof, WouldBlock
<1>3. QED
  BY <1>2 DEF Handle, Deny, Fail, Read, Eof, WouldBlock

LEMMA NextNoneWaits == ReadInv /\ NoneWaits /\ [ReadNext]_readVars => NoneWaits'
<1>. SUFFICES ASSUME ReadInv, NoneWaits, [ReadNext]_readVars
             PROVE  NoneWaits'
  OBVIOUS
<1>1. ReadTypeOK /\ GroupOf \in [Readers -> Groups]
  BY ReadAssumption DEF ReadInv
<1>2. ASSUME UNCHANGED <<timer, transferred>>,
             \A s \in Readers : op'[s] = "waiting" => op[s] = "waiting"
      PROVE  NoneWaits'
  BY <1>2 DEF NoneWaits
<1>3. ASSUME NEW r \in Readers, Readable(r)
      PROVE  NoneWaits'
  BY <1>1, <1>2, <1>3 DEF Readable, ReadTypeOK
<1>4. CASE CancelSocket
  BY <1>1, <1>2, <1>4 DEF CancelSocket
<1>5. CASE Send \/ Shutdown \/ UNCHANGED readVars
  BY <1>2, <1>5 DEF Send, Shutdown, readVars
<1>6. ASSUME NEW g \in Groups, Trip(g)
      PROVE  NoneWaits'
  <2>1. transferred'[g] /\ \A h \in Groups : h # g => UNCHANGED <<timer[h], transferred[h]>>
    BY <1>1, <1>6 DEF Trip, ReadTypeOK
  <2>2. \A s \in Readers :
          /\ op'[s] = "waiting" => op[s] = "waiting"
          /\ GroupOf[s] = g => op'[s] # "waiting"
    BY <1>1, <1>6 DEF Trip, CancelOthers, ReadTypeOK
  <2>3. QED
    BY <2>1, <2>2 DEF NoneWaits
<1>7. ASSUME NEW g \in Groups, Restart(g)
      PROVE  NoneWaits'
  <2>1. timer'[g] = "armed" /\ \A h \in Groups : h # g => UNCHANGED <<timer[h], transferred[h]>>
    BY <1>1, <1>7 DEF Restart, ReadTypeOK
  <2>2. \A s \in Readers : GroupOf[s] # g => op'[s] = op[s]
    BY <1>7 DEF Restart
  <2>3. QED
    BY <2>1, <2>2 DEF NoneWaits
<1>8. QED
  BY <1>3, <1>4, <1>5, <1>6, <1>7, HandleNoneWaits DEF ReadNext

\* No group is left behind by its timer: once that fired, whatever it found, the group
\* has completed or the handler of one of its reads is queued (async_read_some.hpp:63,
\* where would_block lets a read wait again).
THEOREM NoneLeftWaiting ==
  ReadSpec => [](\A g \in Groups :
                   timer[g] # "armed" =>
                     \/ Completed(g)
                     \/ \E r \in Readers : GroupOf[r] = g /\ op[r] \in {"ready", "cancelled"})
<1> DEFINE Ends ==
      \A g \in Groups :
        timer[g] # "armed" =>
          \/ Completed(g)
          \/ \E r \in Readers : GroupOf[r] = g /\ op[r] \in {"ready", "cancelled"}
<1>1. ReadInit => NoneWaits
  BY DEF ReadInit, NoneWaits
<1>2. ReadInv /\ NoneWaits => Ends
  BY DEF ReadInv, ReadTypeOK, NoneWaits, Completed
<1>3. QED
  BY <1>1, <1>2, ReadInvHolds, NextNoneWaits, PTL DEF ReadSpec

-----------------------------------------------------------------------------
(***************************************************************************)
(* What GroupCompletes says, of each read of a group, from what it needs   *)
(* of reactor and executor: a queued handler is run and a timer fires.     *)
(* That the reads have then all ended together is a matter of counting     *)
(* them, for none starts again before.                                     *)
(***************************************************************************)
HandledRead(r) ==
  []<>(op[r] \notin {"ready", "cancelled"}) \/ []<><<Handle(r)>>_readVars

Fires(g) == []<>(timer[g] # "armed") \/ []<><<Trip(g)>>_readVars

\* No read outlives its timer for ever (async_read_some.hpp:63-70): in every turn each
\* comes to be done with the timer fired, though would_block lets it wait again and
\* a cancellation that comes while its handler is queued is not seen.
THEOREM EveryReadEnds ==
  ReadSpec /\ (\A r \in Readers : Fires(GroupOf[r]) /\ HandledRead(r))
    => \A r \in Readers :
         timer[GroupOf[r]] = "armed" ~> timer[GroupOf[r]] # "armed" /\ op[r] = "done"
<1>1. ASSUME NEW r \in Readers
      PROVE  ReadSpec /\ Fires(GroupOf[r]) /\ HandledRead(r)
               => (timer[GroupOf[r]] = "armed"
                     ~> timer[GroupOf[r]] # "armed" /\ op[r] = "done")
  <2> DEFINE I == ReadInv /\ NoneWaits
             Armed == timer[GroupOf[r]] = "armed"
             Queued == op[r] \in {"ready", "cancelled"}
             Done == op[r] = "done"
  <2>1. ~Armed <=> timer[GroupOf[r]] # "armed"
    OBVIOUS
  <2>2. ~Queued <=> op[r] \notin {"ready", "cancelled"}
    OBVIOUS
  <2>3. ReadInit => I
    BY ReadInitInv DEF ReadInit, NoneWaits
  <2>4. I /\ [ReadNext]_readVars => I'
    BY ReadNextInv, NextNoneWaits
  <2>5. I /\ ~Armed => Queued \/ Done
    BY ReadAssumption DEF ReadInv, ReadTypeOK, NoneWaits
  <2>6. I /\ <<Trip(GroupOf[r])>>_readVars => ~Armed'
    BY ReadAssumption DEF ReadInv, ReadTypeOK, Trip
  <2>7. I /\ ~Armed /\ ~Done /\ [ReadNext]_readVars => ~Armed'
    <3> SUFFICES ASSUME I, ~Armed, ~Done, [ReadNext]_readVars
                 PROVE  ~Armed'
      OBVIOUS
    <3>1. \A g \in Groups : Restart(g) => g # GroupOf[r]
      BY DEF Restart, Completed
    <3>2. ReadTypeOK /\ GroupOf[r] \in Groups
      BY ReadAssumption DEF ReadInv
    <3>3. ASSUME NEW g \in Groups, Trip(g) \/ Restart(g)
          PROVE  ~Armed'
      BY <3>1, <3>2, <3>3 DEF Trip, Restart, ReadTypeOK
    <3>4. ASSUME NEW s \in Readers, Handle(s) \/ Readable(s)
          PROVE  timer' = timer
      BY <3>4 DEF Handle, Readable, Deny, Fail, Read, Eof, WouldBlock, CompleteWith
    <3>5. QED
      BY <3>3, <3>4 DEF ReadNext, readVars, CancelSocket, Send, Shutdown
  <2>8. I /\ ~Armed /\ <<Handle(r)>>_readVars => Done'
    <3> SUFFICES ASSUME I, ~Armed, Handle(r)
                 PROVE  op'[r] = "done"
      OBVIOUS
    <3>1. GroupOf[r] \in Groups /\ transferred[GroupOf[r]] /\ ReadTypeOK
      BY ReadAssumption DEF ReadInv, NoneWaits
    <3>2. CompleteWith(r, "denied")
      BY <3>1 DEF Handle, Deny, Fail, Read, Eof, WouldBlock
    <3>3. QED
      BY <3>1, <3>2 DEF CompleteWith, CancelOthers, ReadTypeOK
  <2>9. QED
    BY <2>1, <2>2, <2>3, <2>4, <2>5, <2>6, <2>7, <2>8, PTL DEF ReadSpec, Fires, HandledRead
<1>2. QED
  BY <1>1
==============================================================================
