--------------------------- MODULE ScopeTreeProofs ---------------------------
(***************************************************************************)
(* The scope tree with its materialised paths, which implements the forest *)
(* (ScopeTree): for any tree and any number of requests on it.  The        *)
(* argument: a request that has been overtaken by no commit sees the place *)
(* it attaches to as it is, so the rows stay a tree and every path the way *)
(* to its node; and the paths alone tell what lies beneath what.           *)
(***************************************************************************)
EXTENDS ScopeTree, FiniteSetTheorems, SequenceTheorems, WellFoundedInduction, TLAPS

-----------------------------------------------------------------------------
(* ScopeTree.                                                                *)

(* Numbers have a least among them, which is all the induction there is here. *)
LEMMA LeastOf ==
    ASSUME NEW T \in SUBSET Nat, T # {}
    PROVE  \E m \in T : \A k \in T : m <= k
<1>1. PICK x \in T : \A y \in T : ~ (<<y, x>> \in OpToRel(<, Nat))
  BY NatLessThanWellFounded, WFMin
<1>2. \A y \in T : ~(y < x)
  BY <1>1 DEF OpToRel
<1> QED
  BY <1>2

(* The way to a node, from a root down.                                      *)
Way(par, s, n) == s \in Seq(Node) /\ s # <<>> /\ LeadsTo(par, s, n)

(* What a way is, node by node.                                             *)
LEMMA WayIs ==
    ASSUME NEW par, NEW s, NEW n, Way(par, s, n)
    PROVE  /\ s \in Seq(Node) /\ Len(s) \in Nat /\ Len(s) >= 1
           /\ \A i \in 1 .. Len(s) : s[i] \in Node
           /\ par[s[1]] = NoParent /\ s[Len(s)] = n /\ n \in Node
           /\ \A i \in 1 .. Len(s) : i + 1 <= Len(s) => par[s[i + 1]] = s[i]
           /\ \A i \in 1 .. Len(s) : i > 1 => par[s[i]] = s[i - 1] /\ par[s[i]] \in Node
<1>1. s \in Seq(Node) /\ s # <<>> /\ LeadsTo(par, s, n)
  BY DEF Way
<1>2. Len(s) \in Nat /\ Len(s) >= 1
  BY <1>1, EmptySeq
<1>3. \A i \in 1 .. Len(s) : s[i] \in Node
  BY <1>1, ElementOfSeq
<1>4. par[s[1]] = NoParent /\ s[Len(s)] = n /\ \A i \in 1 .. Len(s) - 1 : par[s[i + 1]] = s[i]
  BY <1>1 DEF LeadsTo
<1>5. \A i \in 1 .. Len(s) : i + 1 <= Len(s) => par[s[i + 1]] = s[i]
  BY <1>2, <1>4
<1>6. ASSUME NEW i \in 1 .. Len(s), i > 1 PROVE par[s[i]] = s[i - 1] /\ par[s[i]] \in Node
  <2>1. i - 1 \in 1 .. Len(s) - 1 /\ i - 1 \in 1 .. Len(s) /\ (i - 1) + 1 = i
    BY <1>2, <1>6
  <2>2. par[s[(i - 1) + 1]] = s[i - 1]
    BY <1>4, <2>1
  <2>3. s[i - 1] \in Node
    BY <1>3, <2>1
  <2> QED BY <2>1, <2>2, <2>3
<1>7. n \in Node
  BY <1>2, <1>3, <1>4
<1> QED BY <1>1, <1>2, <1>3, <1>4, <1>5, <1>6, <1>7

(* Its beginning is the way to each node on it.                              *)
LEMMA WayBegins ==
    ASSUME NEW par, NEW s, NEW n, Way(par, s, n), NEW k \in 1 .. Len(s)
    PROVE  /\ Way(par, SubSeq(s, 1, k), s[k]) /\ Len(SubSeq(s, 1, k)) = k
           /\ \A i \in 1 .. k : SubSeq(s, 1, k)[i] = s[i]
<1> DEFINE b == SubSeq(s, 1, k)
<1>1. /\ s \in Seq(Node) /\ Len(s) \in Nat /\ Len(s) >= 1
      /\ \A i \in 1 .. Len(s) : s[i] \in Node
      /\ par[s[1]] = NoParent
      /\ \A i \in 1 .. Len(s) : i + 1 <= Len(s) => par[s[i + 1]] = s[i]
  BY WayIs
<1>2. /\ b \in Seq(Node) /\ Len(b) = k
      /\ \A i \in 1 .. k : b[i] = s[i]
  <2>1. k \in Int /\ 1 \in Int /\ 1 <= k /\ \A i \in 1 .. k : s[i] \in Node
    BY <1>1
  <2>2. /\ b \in Seq(Node) /\ Len(b) = IF 1 <= k THEN k - 1 + 1 ELSE 0
        /\ \A i \in 1 .. k - 1 + 1 : b[i] = s[1 + i - 1]
    BY <2>1, SubSeqProperties
  <2>3. k - 1 + 1 = k /\ \A i \in 1 .. k : 1 + i - 1 = i
    BY <2>1
  <2> QED BY <2>1, <2>2, <2>3
<1> HIDE DEF b
<1>3. b # <<>>
  BY <1>2, EmptySeq
<1>4. \A i \in 1 .. k - 1 : b[i + 1] = s[i + 1] /\ b[i] = s[i] /\ par[s[i + 1]] = s[i]
  BY <1>1, <1>2
<1>5. LeadsTo(par, b, s[k])
  BY <1>1, <1>2, <1>4 DEF LeadsTo
<1> QED BY <1>2, <1>3, <1>5 DEF Way, b

(* There is one way to a node.                                               *)
LEMMA OneWay ==
    ASSUME NEW par, NEW s, NEW t, NEW n, Way(par, s, n), Way(par, t, n), Len(s) <= Len(t)
    PROVE  s = t
<1>1. /\ s \in Seq(Node) /\ Len(s) \in Nat /\ Len(s) >= 1
      /\ \A i \in 1 .. Len(s) : s[i] \in Node
      /\ par[s[1]] = NoParent /\ s[Len(s)] = n
      /\ \A i \in 1 .. Len(s) : i > 1 => par[s[i]] = s[i - 1] /\ par[s[i]] \in Node
  BY WayIs
<1>2. /\ t \in Seq(Node) /\ Len(t) \in Nat /\ Len(t) >= 1
      /\ \A i \in 1 .. Len(t) : t[i] \in Node
      /\ par[t[1]] = NoParent /\ t[Len(t)] = n
      /\ \A i \in 1 .. Len(t) : i > 1 => par[t[i]] = t[i - 1] /\ par[t[i]] \in Node
  BY WayIs
<1> DEFINE d == Len(t) - Len(s)
           Apart == {k \in Nat : k < Len(s) /\ s[Len(s) - k] # t[Len(t) - k]}
<1>3. Apart = {}
  <2> SUFFICES ASSUME Apart # {} PROVE FALSE
    OBVIOUS
  <2>1. PICK k \in Apart : \A j \in Apart : k <= j
    BY LeastOf
  <2>2. k \in Nat /\ k # 0 /\ k < Len(s) /\ s[Len(s) - k] # t[Len(t) - k]
    <3>1. k \in Nat /\ k < Len(s) /\ s[Len(s) - k] # t[Len(t) - k]
      BY <2>1
    <3>2. Len(s) - 0 = Len(s) /\ Len(t) - 0 = Len(t)
      BY <1>1, <1>2
    <3> QED BY <3>1, <3>2, <1>1, <1>2
  <2>3. k - 1 \in Nat /\ k - 1 < Len(s) /\ k - 1 \notin Apart
    <3>1. k - 1 \in Nat /\ k - 1 < Len(s) /\ ~(k <= k - 1)
      BY <2>2, <1>1
    <3> HIDE DEF Apart
    <3> QED BY <2>1, <3>1
  <2>4. s[Len(s) - (k - 1)] = t[Len(t) - (k - 1)]
    BY <2>3
  <2> DEFINE a == Len(s) - (k - 1)
             b == Len(t) - (k - 1)
  <2>5. a \in 1 .. Len(s) /\ a > 1 /\ a - 1 = Len(s) - k
    BY <2>2, <1>1
  <2>6. b \in 1 .. Len(t) /\ b > 1 /\ b - 1 = Len(t) - k
    BY <2>2, <1>1, <1>2
  <2>7. par[s[a]] = s[Len(s) - k] /\ par[t[b]] = t[Len(t) - k] /\ s[a] = t[b]
    BY <2>4, <2>5, <2>6, <1>1, <1>2
  <2> QED BY <2>2, <2>7
<1>4. \A i \in 1 .. Len(s) : s[i] = t[i + d]
  <2> TAKE i \in 1 .. Len(s)
  <2>1. Len(s) - i \in Nat /\ Len(s) - i < Len(s)
    BY <1>1
  <2>2. s[Len(s) - (Len(s) - i)] = t[Len(t) - (Len(s) - i)]
    BY <2>1, <1>3
  <2>3. Len(s) - (Len(s) - i) = i /\ Len(t) - (Len(s) - i) = i + d
    BY <1>1, <1>2
  <2> QED BY <2>2, <2>3
<1>5. d = 0
  <2> SUFFICES ASSUME d # 0 PROVE FALSE
    OBVIOUS
  <2>1. 1 + d \in 1 .. Len(t) /\ 1 + d > 1 /\ s[1] = t[1 + d]
    BY <1>1, <1>2, <1>4
  <2>2. par[s[1]] \in Node
    BY <2>1, <1>2
  <2> QED BY <1>1, <2>2, DistinctAssumption
<1>6. Len(s) = Len(t) /\ \A i \in 1 .. Len(s) : s[i] = t[i]
  BY <1>1, <1>2, <1>4, <1>5
<1> QED BY <1>1, <1>2, <1>6, SeqEqual

(* ... whichever of the two is the shorter.                                 *)
LEMMA SameWay ==
    ASSUME NEW par, NEW s, NEW t, NEW n, Way(par, s, n), Way(par, t, n)
    PROVE  s = t
<1>1. Len(s) \in Nat /\ Len(t) \in Nat
  BY WayIs
<1>2. CASE Len(s) <= Len(t)
  BY <1>2, OneWay
<1>3. CASE Len(t) <= Len(s)
  BY <1>3, OneWay
<1> QED BY <1>1, <1>2, <1>3

(* No node is on a way twice.                                                *)
LEMMA WayOnce ==
    ASSUME NEW par, NEW s, NEW n, Way(par, s, n), NEW i \in 1 .. Len(s), NEW j \in 1 .. Len(s),
           s[i] = s[j]
    PROVE  i = j
<1>1. Way(par, SubSeq(s, 1, i), s[i]) /\ Len(SubSeq(s, 1, i)) = i
  BY WayBegins
<1>2. Way(par, SubSeq(s, 1, j), s[j]) /\ Len(SubSeq(s, 1, j)) = j
  BY WayBegins
<1> QED BY <1>1, <1>2, SameWay

On(s) == {s[i] : i \in 1 .. Len(s)}

(* What is above a node is what is on the way to it; its depth is how long   *)
(* that is.                                                                  *)
LEMMA Above ==
    ASSUME NEW par, NEW s, NEW n, Way(par, s, n)
    PROVE  Forest!Upwards(par, n) = On(s)
<1>1. /\ Len(s) \in Nat /\ Len(s) >= 1
      /\ \A i \in 1 .. Len(s) : s[i] \in Node
      /\ par[s[1]] = NoParent /\ s[Len(s)] = n
      /\ \A i \in 1 .. Len(s) : i > 1 => par[s[i]] = s[i - 1] /\ par[s[i]] \in Node
  BY WayIs
<1>2. n \in On(s) /\ On(s) \in SUBSET Node
  BY <1>1 DEF On
<1>3. ASSUME NEW k \in On(s), par[k] \in Node PROVE par[k] \in On(s)
  <2>1. PICK i \in 1 .. Len(s) : k = s[i]
    BY DEF On
  <2>2. i # 1
    BY <1>1, <1>3, <2>1, DistinctAssumption
  <2>3. i - 1 \in 1 .. Len(s) /\ par[k] = s[i - 1]
    BY <1>1, <2>1, <2>2
  <2> QED BY <2>3 DEF On
<1>4. Forest!Upwards(par, n) \subseteq On(s)
  BY <1>2, <1>3 DEF Forest!Upwards
<1>5. ASSUME NEW closed \in SUBSET Node, n \in closed,
             \A k \in closed : par[k] \in Node => par[k] \in closed
      PROVE  On(s) \subseteq closed
  <2> DEFINE Missed == {j \in Nat : j < Len(s) /\ s[Len(s) - j] \notin closed}
  <2>1. Missed = {}
    <3> SUFFICES ASSUME Missed # {} PROVE FALSE
      OBVIOUS
    <3>1. PICK j \in Missed : \A k \in Missed : j <= k
      BY LeastOf
    <3>2. j \in Nat /\ j < Len(s) /\ s[Len(s) - j] \notin closed
      BY <3>1
    <3>3. j # 0
      <4>1. Len(s) - 0 = Len(s)
        BY <1>1
      <4> QED BY <3>2, <4>1, <1>1, <1>5
    <3>4. j - 1 \in Nat /\ j - 1 < Len(s) /\ ~(j <= j - 1)
      BY <1>1, <3>2, <3>3
    <3>5. s[Len(s) - (j - 1)] \in closed
      <4>1. j - 1 \notin Missed
        <5> HIDE DEF Missed
        <5> QED BY <3>1, <3>4
      <4> QED BY <4>1, <3>4
    <3> DEFINE a == Len(s) - (j - 1)
    <3>6. a \in 1 .. Len(s) /\ a > 1 /\ a - 1 = Len(s) - j
      BY <1>1, <3>2, <3>3
    <3>7. par[s[a]] = s[Len(s) - j] /\ par[s[a]] \in Node
      BY <1>1, <3>6
    <3>8. par[s[a]] \in closed
      BY <3>5, <3>7, <1>5
    <3> QED BY <3>2, <3>7, <3>8
  <2>2. ASSUME NEW i \in 1 .. Len(s) PROVE s[i] \in closed
    <3>1. Len(s) - i \in Nat /\ Len(s) - i < Len(s) /\ Len(s) - (Len(s) - i) = i
      BY <1>1
    <3>2. s[Len(s) - (Len(s) - i)] \in closed
      BY <2>1, <3>1
    <3> QED BY <3>1, <3>2
  <2> QED BY <2>2 DEF On
<1>6. On(s) \subseteq Forest!Upwards(par, n)
  BY <1>2, <1>5 DEF Forest!Upwards
<1> QED BY <1>4, <1>6

LEMMA DepthIsLength ==
    ASSUME NEW par, NEW s, NEW n, Way(par, s, n)
    PROVE  Forest!Depth(par, n) = Len(s)
<1>1. /\ s \in Seq(Node) /\ Len(s) \in Nat
      /\ \A i \in 1 .. Len(s) : s[i] \in Node
  BY WayIs
<1>2. Forest!Upwards(par, n) = On(s)
  BY Above
<1>3. s \in [1 .. Len(s) -> On(s)]
  BY <1>1, LenProperties DEF On
<1>4. \A i, j \in 1 .. Len(s) : s[i] = s[j] => i = j
  BY WayOnce
<1>5. \A m \in On(s) : \E i \in 1 .. Len(s) : s[i] = m
  BY DEF On
<1>6. s \in Bijection(1 .. Len(s), On(s))
  BY <1>3, <1>4, <1>5 DEF Bijection, Injection, Surjection, IsInjective
<1>7. IsFiniteSet(1 .. Len(s)) /\ Cardinality(1 .. Len(s)) = Len(s)
  <2>1. Cardinality(1 .. Len(s)) = IF 1 > Len(s) THEN 0 ELSE Len(s) - 1 + 1
    BY <1>1, FS_Interval
  <2>2. IsFiniteSet(1 .. Len(s))
    BY <1>1, FS_Interval
  <2> QED BY <1>1, <2>1, <2>2
<1>8. ExistsBijection(1 .. Len(s), On(s))
  BY <1>6 DEF ExistsBijection
<1>9. Cardinality(On(s)) = Len(s)
  <2> DEFINE places == 1 .. Len(s)
             those == On(s)
  <2>1. IsFiniteSet(places) /\ ExistsBijection(places, those) /\ Cardinality(places) = Len(s)
    BY <1>7, <1>8
  <2> HIDE DEF places, those
  <2>2. Cardinality(those) = Cardinality(places)
    BY <2>1, FS_Bijection
  <2> QED BY <2>1, <2>2 DEF those
<1>10. Forest!Cardinality(On(s)) = Cardinality(On(s))
  BY DEF Forest!Cardinality, Cardinality
<1> QED BY <1>2, <1>9, <1>10 DEF Forest!Depth

(* The rows are a tree, and the paths the ways to their nodes.               *)
TreeRows(par, pth) ==
    /\ par \in [Node -> Parents] /\ pth \in [Node -> Seq(Node)]
    /\ \A n \in Node : par[n] = Absent => pth[n] = <<>>
    /\ \A n \in Node : par[n] # Absent => Way(par, pth[n], n) /\ Len(pth[n]) <= MaxDepth
    /\ \A m, n \in Node : par[m] = NoParent /\ par[n] = NoParent => m = n

(* Such rows are a tree of the forest, within its depth.                    *)
LEMMA RowsAreATree ==
    ASSUME NEW par, NEW pth, TreeRows(par, pth)
    PROVE  Forest!IsTree(par)
<1>1. ASSUME NEW n \in Node, par[n] # Absent
      PROVE  /\ \E m \in Forest!Upwards(par, n) : m \in Node /\ par[m] = NoParent
             /\ \A m \in Forest!Upwards(par, n) : m \in Node /\ par[m] # Absent
             /\ Forest!Depth(par, n) <= MaxDepth
  <2> DEFINE s == pth[n]
  <2>1. Way(par, s, n) /\ Len(s) <= MaxDepth
    BY <1>1 DEF TreeRows
  <2> HIDE DEF s
  <2>2. /\ Len(s) \in Nat /\ Len(s) >= 1
        /\ \A i \in 1 .. Len(s) : s[i] \in Node
        /\ par[s[1]] = NoParent
        /\ \A i \in 1 .. Len(s) : i > 1 => par[s[i]] = s[i - 1] /\ par[s[i]] \in Node
    BY <2>1, WayIs
  <2>3. Forest!Upwards(par, n) = On(s) /\ Forest!Depth(par, n) = Len(s)
    BY <2>1, Above, DepthIsLength
  <2>4. 1 \in 1 .. Len(s) /\ \A i \in 1 .. Len(s) : i = 1 \/ i > 1
    BY <2>2
  <2>5. \A i \in 1 .. Len(s) : s[i] \in Node /\ par[s[i]] # Absent
    BY <2>2, <2>4, DistinctAssumption
  <2>6. \E m \in On(s) : m \in Node /\ par[m] = NoParent
    BY <2>2, <2>4 DEF On
  <2>7. \A m \in On(s) : m \in Node /\ par[m] # Absent
    BY <2>5 DEF On
  <2> QED BY <2>1, <2>3, <2>6, <2>7
<1>2. \A m, n \in Node : par[m] = NoParent /\ par[n] = NoParent => m = n
  BY DEF TreeRows
<1> QED BY <1>1, <1>2 DEF Forest!IsTree

(* In a tree a way leads to every node.                                      *)
LEMMA TreesHaveWays ==
    ASSUME NEW par, Forest!IsTree(par), NEW n \in Node, par[n] # Absent
    PROVE  \E s : Way(par, s, n)
<1> SUFFICES ASSUME ~ \E s : Way(par, s, n) PROVE FALSE
  OBVIOUS
<1> DEFINE up == Forest!Upwards(par, n)
           lost == {m \in up : ~ \E s : Way(par, s, m)}
<1>1. /\ up \in SUBSET Node /\ n \in up
      /\ \A k \in up : par[k] \in Node => par[k] \in up
      /\ \A closed \in SUBSET Node :
            n \in closed /\ (\A k \in closed : par[k] \in Node => par[k] \in closed) => up \subseteq closed
  BY DEF Forest!Upwards
<1>2. PICK root \in up : root \in Node /\ par[root] = NoParent
  BY DEF Forest!IsTree
<1> HIDE DEF up
<1>3. ASSUME NEW k \in lost, par[k] \in Node PROVE par[k] \in lost
  <2>1. par[k] \in up /\ k \in Node
    BY <1>1, <1>3
  <2> SUFFICES ASSUME NEW s, Way(par, s, par[k]) PROVE FALSE
    BY <2>1
  <2> DEFINE t == Append(s, k)
  <2>2. /\ s \in Seq(Node) /\ Len(s) \in Nat /\ Len(s) >= 1
        /\ par[s[1]] = NoParent /\ s[Len(s)] = par[k]
        /\ \A i \in 1 .. Len(s) : i + 1 <= Len(s) => par[s[i + 1]] = s[i]
    BY WayIs
  <2>3. /\ t \in Seq(Node) /\ t # <<>> /\ Len(t) = Len(s) + 1
        /\ \A i \in 1 .. Len(s) : t[i] = s[i]
        /\ t[Len(s) + 1] = k
    BY <2>1, <2>2, AppendProperties
  <2> HIDE DEF t
  <2>4. ASSUME NEW i \in 1 .. Len(t) - 1 PROVE par[t[i + 1]] = t[i]
    <3>1. i \in 1 .. Len(s)
      BY <2>2, <2>3
    <3>2. CASE i = Len(s)
      BY <3>1, <3>2, <2>2, <2>3
    <3>3. CASE i # Len(s)
      <4>1. i + 1 \in 1 .. Len(s) /\ i + 1 <= Len(s)
        BY <3>1, <3>3, <2>2
      <4> QED BY <4>1, <3>1, <2>2, <2>3
    <3> QED BY <3>2, <3>3
  <2>5. 1 \in 1 .. Len(s)
    BY <2>2
  <2>6. par[t[1]] = NoParent /\ t[Len(t)] = k
    BY <2>2, <2>3, <2>5
  <2>7. Way(par, t, k)
    BY <2>3, <2>4, <2>6 DEF Way, LeadsTo
  <2> QED BY <2>7
<1>4. up \subseteq lost
  <2>1. n \in lost /\ lost \in SUBSET Node
    BY <1>1
  <2> HIDE DEF lost
  <2> QED BY <1>1, <1>3, <2>1
<1>5. Way(par, <<root>>, root)
  <2>1. <<root>> \in Seq(Node) /\ Len(<<root>>) = 1 /\ <<root>>[1] = root /\ <<root>> # <<>>
    BY <1>2
  <2> QED BY <1>2, <2>1 DEF Way, LeadsTo
<1> QED BY <1>2, <1>4, <1>5

(* ... so the paths a tree starts with are the ways to its nodes.           *)
LEMMA DerivedRows ==
    ASSUME NEW par \in [Node -> Parents], Forest!IsTree(par)
    PROVE  TreeRows(par, Derived(par))
<1>1. ASSUME NEW n \in Node, par[n] # Absent
      PROVE  /\ Derived(par)[n] \in Seq(Node)
             /\ Way(par, Derived(par)[n], n)
             /\ Len(Derived(par)[n]) <= MaxDepth
  <2>1. PICK s : Way(par, s, n)
    BY <1>1, TreesHaveWays
  <2>2. Forest!Depth(par, n) = Len(s) /\ Len(s) \in Nat /\ Len(s) >= 1 /\ s \in Seq(Node)
    BY <2>1, DepthIsLength, WayIs
  <2>3. s \in [1 .. Len(s) -> Node] /\ LeadsTo(par, s, n) /\ s # <<>>
    BY <2>1, <2>2, LenProperties DEF Way
  <2>4. Len(s) \in 0 .. MaxDepth
    BY <1>1, <2>2, DepthAssumption DEF Forest!IsTree
  <2>5. \E t \in TreePaths \ {<<>>} : LeadsTo(par, t, n)
    BY <2>3, <2>4 DEF TreePaths
  <2> DEFINE t == Derived(par)[n]
  <2>6. t = CHOOSE x \in TreePaths \ {<<>>} : LeadsTo(par, x, n)
    BY <1>1 DEF Derived
  <2> HIDE DEF t
  <2>7. t \in TreePaths \ {<<>>} /\ LeadsTo(par, t, n)
    BY <2>5, <2>6
  <2>8. PICK d \in 0 .. MaxDepth : t \in [1 .. d -> Node]
    BY <2>7 DEF TreePaths
  <2>9. t \in Seq(Node) /\ Len(t) = d /\ d <= MaxDepth
    BY <2>8, DepthAssumption
  <2> QED BY <2>7, <2>9 DEF Way, t
<1>2. \A n \in Node : par[n] = Absent => Derived(par)[n] = <<>>
  BY DEF Derived
<1>3. \A n \in Node : Derived(par)[n] \in Seq(Node)
  BY <1>1, <1>2, EmptySeq
<1>4. Derived(par) \in [Node -> Seq(Node)]
  <2>1. DOMAIN Derived(par) = Node /\ Derived(par) = [n \in Node |-> Derived(par)[n]]
    BY DEF Derived
  <2> QED BY <1>3, <2>1
<1>5. \A m, n \in Node : par[m] = NoParent /\ par[n] = NoParent => m = n
  BY DEF Forest!IsTree
<1> QED BY <1>1, <1>2, <1>4, <1>5 DEF TreeRows

-----------------------------------------------------------------------------
(* What a request holds, by what it is doing.                                *)
InsertRec == [pc : {"inserting"}, node : Node, under : Node \cup {NoParent}, new : Seq(Node)]
RemoveRec == [pc : {"deleting"}, node : Node]
RetryRec == [pc : {"retrying"}, node : Node, under : Node, attempt : Nat]
MoveRec == [pc : {"updating", "committing"}, node : Node, under : Node, attempt : Nat,
            parent : [Node -> Parents], path : [Node -> Seq(Node)]]
RequestsTyped ==
    /\ treeTx \in [TreeTxs -> {TreeIdle} \cup InsertRec \cup RemoveRec \cup RetryRec \cup MoveRec]
    /\ overtaken \in SUBSET TreeTxs

(* A node to be inserted is nobody else's, nor has anybody read of it.       *)
IsInserting(t) == treeTx[t].pc = "inserting"
ComesNew(t) ==
    IsInserting(t) =>
        /\ ~Present(treeTx[t].node)
        /\ \A u \in TreeTxs :
              /\ IsInserting(u) /\ treeTx[u].node = treeTx[t].node => u = t
              /\ IsAttaching(u) => treeTx[u].under # treeTx[t].node
              /\ IsMoving(u) => treeTx[u].path[treeTx[t].node] = <<>>

(* Nothing has changed above the place it goes to, or the request has been   *)
(* overtaken.                                                                *)
Fits(t) ==
    IsInserting(t) /\ t \notin overtaken =>
        LET p == treeTx[t].under IN
        /\ p = NoParent => /\ treeTx[t].new = <<treeTx[t].node>>
                           /\ \A m \in Node : parent[m] # NoParent
        /\ p # NoParent /\ Present(p) => /\ treeTx[t].new = Append(path[p], treeTx[t].node)
                                         /\ Len(path[p]) + 1 <= MaxDepth

(* A move was legal in its snapshot, ...                                     *)
WasMovable(t) ==
    IsMoving(t) =>
        LET old == treeTx[t].path  n == treeTx[t].node  p == treeTx[t].under IN
        /\ old[n] # <<>> /\ ~IsPrefix(old[n], old[p])
        /\ \A m \in Moved(t) : Len(old[p]) + Len(old[m]) + 1 <= MaxDepth + Len(old[n])

(* ... the place it goes to is where it was and nothing has come beneath the *)
(* node, or the request has been overtaken, ...                              *)
Beneath(n) == {m \in Node : Present(m) /\ n \in On(path[m])}
AsRead(t) ==
    IsMoving(t) /\ t \notin overtaken =>
        LET p == treeTx[t].under IN
        /\ Present(p) => path[p] = treeTx[t].path[p]
        /\ Beneath(treeTx[t].node) \subseteq Moved(t)

(* ... and the rows it has locked are as they were.                          *)
Locked(t) ==
    treeTx[t].pc = "committing" =>
        /\ Present(treeTx[t].under)
        /\ \A m \in Moved(t) : parent[m] = treeTx[t].parent[m] /\ path[m] = treeTx[t].path[m]
        /\ \A u \in TreeTxs \ {t} : treeTx[u].pc = "committing" => Moved(t) \cap Moved(u) = {}

RequestOk(t) == ComesNew(t) /\ Fits(t) /\ WasMovable(t) /\ AsRead(t) /\ Locked(t)
TreeSound == TreeRows(parent, path) /\ RequestsTyped /\ \A t \in TreeTxs : RequestOk(t)
TreeIInv == ~Crossed => TreeSound

(* What a request is doing says what it holds.                              *)
LEMMA KindsOfRequest ==
    ASSUME RequestsTyped, NEW t \in TreeTxs
    PROVE  /\ IsInserting(t) => treeTx[t] \in InsertRec
           /\ IsMoving(t) => treeTx[t] \in MoveRec
           /\ treeTx[t].pc = "retrying" => treeTx[t] \in RetryRec
           /\ treeTx[t].pc = "deleting" => treeTx[t] \in RemoveRec
           /\ TreeIdle.pc = "idle"
           /\ treeTx = [treeTx EXCEPT ![t] = treeTx[t]]
<1>1. treeTx[t] \in {TreeIdle} \cup InsertRec \cup RemoveRec \cup RetryRec \cup MoveRec
  BY DEF RequestsTyped
<1>2. TreeIdle.pc = "idle"
  BY DEF TreeIdle
<1>3. /\ treeTx[t] \in InsertRec => treeTx[t].pc = "inserting"
      /\ treeTx[t] \in RemoveRec => treeTx[t].pc = "deleting"
      /\ treeTx[t] \in RetryRec => treeTx[t].pc = "retrying"
      /\ treeTx[t] \in MoveRec => treeTx[t].pc \in {"updating", "committing"}
  BY DEF InsertRec, RemoveRec, RetryRec, MoveRec
<1>4. treeTx = [treeTx EXCEPT ![t] = treeTx[t]]
  BY DEF RequestsTyped
<1> QED BY <1>1, <1>2, <1>3, <1>4 DEF IsInserting, IsMoving

(* A step of one request that leaves the rows as they are does not concern   *)
(* the others, if it has read of no node that is being inserted.             *)
LEMMA OthersOk ==
    ASSUME TreeSound, NEW t \in TreeTxs, NEW r,
           r \in {TreeIdle} \cup InsertRec \cup RemoveRec \cup RetryRec \cup MoveRec,
           treeTx' = [treeTx EXCEPT ![t] = r], UNCHANGED <<parent, path>>,
           overtaken' = overtaken \/ overtaken' = overtaken \ {t},
           RequestOk(t)',
           \A u \in TreeTxs \ {t} : IsInserting(u) =>
               /\ r.pc \in {"inserting", "updating", "committing"} => r.under # treeTx[u].node
               /\ r.pc \in {"updating", "committing"} => r.path[treeTx[u].node] = <<>>
    PROVE  TreeSound'
<1>1. RequestsTyped /\ TreeRows(parent, path) /\ \A u \in TreeTxs : RequestOk(u)
  BY DEF TreeSound
<1>2. RequestsTyped'
  <2>1. treeTx \in [TreeTxs -> {TreeIdle} \cup InsertRec \cup RemoveRec \cup RetryRec \cup MoveRec]
        /\ overtaken \in SUBSET TreeTxs
    BY <1>1 DEF RequestsTyped
  <2>2. treeTx' \in [TreeTxs -> {TreeIdle} \cup InsertRec \cup RemoveRec \cup RetryRec \cup MoveRec]
    BY <2>1
  <2>3. overtaken' \in SUBSET TreeTxs
    BY <2>1
  <2> QED BY <2>2, <2>3 DEF RequestsTyped, InsertRec, RemoveRec, RetryRec, MoveRec, TreeIdle, Parents
<1>3. treeTx'[t] = r /\ \A u \in TreeTxs \ {t} : treeTx'[u] = treeTx[u]
  BY <1>1 DEF RequestsTyped
<1>4. TreeRows(parent, path)'
  <2>1. parent' = parent /\ path' = path
    OBVIOUS
  <2> QED BY <1>1, <2>1 DEF TreeRows, Way, LeadsTo, Parents
<1>5. ASSUME NEW u \in TreeTxs \ {t} PROVE RequestOk(u)'
  <2>1. treeTx'[u] = treeTx[u] /\ parent' = parent /\ path' = path /\ (u \in overtaken' <=> u \in overtaken)
    BY <1>3
  <2>2. /\ IsInserting(u)' <=> IsInserting(u)
        /\ IsMoving(u)' <=> IsMoving(u)
        /\ Moved(u)' = Moved(u)
        /\ Beneath(treeTx[u].node)' = Beneath(treeTx[u].node)
        /\ \A m \in Node : Present(m)' <=> Present(m)
    BY <2>1 DEF IsInserting, IsMoving, Moved, Subtree, Beneath, Present, On
  <2>3. ComesNew(u)'
    <3> SUFFICES ASSUME IsInserting(u) PROVE ComesNew(u)'
      BY <2>2 DEF ComesNew
    <3>1. treeTx[u] \in InsertRec /\ ComesNew(u) /\ ComesNew(t)'
      BY <1>1, KindsOfRequest DEF RequestOk
    <3>2. treeTx[u].node \in Node
      BY <3>1 DEF InsertRec
    <3>3. ~Present(treeTx[u].node)'
      BY <2>2, <3>1, <3>2 DEF ComesNew
    <3>4. ASSUME NEW v \in TreeTxs, v # t
          PROVE  /\ IsInserting(v)' /\ treeTx'[v].node = treeTx[u].node => v = u
                 /\ IsAttaching(v)' => treeTx'[v].under # treeTx[u].node
                 /\ IsMoving(v)' => treeTx'[v].path[treeTx[u].node] = <<>>
      <4>1. treeTx'[v] = treeTx[v]
        BY <1>3, <3>4
      <4> QED BY <4>1, <3>1 DEF ComesNew, IsInserting, IsMoving, IsAttaching
    <3>5. IsInserting(t)' => treeTx'[t].node # treeTx[u].node
      <4>1. IsInserting(u)' /\ treeTx'[u].node = treeTx[u].node
        BY <2>1, <2>2
      <4> QED BY <3>1, <4>1 DEF ComesNew
    <3>6. /\ IsAttaching(t)' => treeTx'[t].under # treeTx[u].node
          /\ IsMoving(t)' => treeTx'[t].path[treeTx[u].node] = <<>>
      BY <1>3 DEF IsAttaching, IsMoving
    <3> QED BY <2>1, <3>3, <3>4, <3>5, <3>6 DEF ComesNew
  <2>4. Fits(u)'
    BY <1>1, <2>1, <2>2 DEF RequestOk, Fits, Present
  <2>5. WasMovable(u)'
    BY <1>1, <2>1, <2>2 DEF RequestOk, WasMovable
  <2>6. AsRead(u)'
    BY <1>1, <2>1, <2>2 DEF RequestOk, AsRead, Present
  <2>7. Locked(u)'
    <3> SUFFICES ASSUME treeTx[u].pc = "committing" PROVE Locked(u)'
      BY <2>1 DEF Locked
    <3>1. Locked(u) /\ Locked(t)'
      BY <1>1 DEF RequestOk
    <3>2. /\ Present(treeTx[u].under)
          /\ \A m \in Moved(u) : parent[m] = treeTx[u].parent[m] /\ path[m] = treeTx[u].path[m]
      BY <3>1 DEF Locked
    <3>3. ASSUME NEW v \in TreeTxs \ {u}, treeTx'[v].pc = "committing" PROVE Moved(u) \cap Moved(v)' = {}
      <4>1. CASE v = t
        <5>1. treeTx'[u].pc = "committing"
          BY <2>1
        <5>2. Moved(t)' \cap Moved(u)' = {}
          BY <3>1, <3>3, <4>1, <5>1 DEF Locked
        <5> QED BY <2>2, <4>1, <5>2
      <4>2. CASE v # t
        <5>1. treeTx'[v] = treeTx[v]
          BY <1>3, <4>2
        <5>2. Moved(v)' = Moved(v)
          BY <5>1 DEF Moved, Subtree
        <5> QED BY <3>1, <3>3, <5>1, <5>2 DEF Locked
      <4> QED BY <4>1, <4>2
    <3>4. Present(treeTx[u].under)'
      BY <2>1, <3>2 DEF Present
    <3> QED BY <2>1, <2>2, <3>2, <3>3, <3>4 DEF Locked
  <2> QED BY <2>3, <2>4, <2>5, <2>6, <2>7 DEF RequestOk
<1> QED BY <1>2, <1>4, <1>5 DEF TreeSound

-----------------------------------------------------------------------------
(* The prefix test on paths is ancestry.                                     *)
LEMMA PrefixIsAncestry ==
    ASSUME NEW par, NEW pth, TreeRows(par, pth), NEW n \in Node, NEW m \in Node,
           par[n] # Absent, par[m] # Absent
    PROVE  /\ IsPrefix(pth[n], pth[m]) <=> n \in On(pth[m])
           /\ n \in On(pth[m]) => /\ Len(pth[n]) \in 1 .. Len(pth[m])
                                  /\ pth[m][Len(pth[n])] = n
<1> DEFINE s == pth[n]
           t == pth[m]
<1>1. Way(par, s, n) /\ Way(par, t, m)
  BY DEF TreeRows
<1> HIDE DEF s, t
<1>2. /\ s \in Seq(Node) /\ Len(s) \in Nat /\ Len(s) >= 1 /\ s[Len(s)] = n
      /\ t \in Seq(Node) /\ Len(t) \in Nat /\ Len(t) >= 1
      /\ SubSeq(s, 1, Len(s)) = s
  BY <1>1, WayIs, SubSeqFull
<1>3. ASSUME IsPrefix(s, t) PROVE n \in On(t)
  <2>1. Len(s) <= Len(t) /\ s = SubSeq(t, 1, Len(s))
    BY <1>2, <1>3 DEF IsPrefix
  <2>2. Len(s) \in 1 .. Len(t)
    BY <1>2, <2>1
  <2>3. s[Len(s)] = t[Len(s)]
    <3>1. \A i \in 1 .. Len(s) : SubSeq(t, 1, Len(s))[i] = t[i]
      BY <1>1, <2>2, WayBegins
    <3>2. Len(s) \in 1 .. Len(s)
      BY <1>2
    <3> QED BY <2>1, <3>1, <3>2
  <2> QED BY <1>2, <2>2, <2>3 DEF On
<1>4. ASSUME n \in On(t) PROVE IsPrefix(s, t) /\ Len(s) \in 1 .. Len(t) /\ t[Len(s)] = n
  <2>1. PICK k \in 1 .. Len(t) : t[k] = n
    BY <1>4 DEF On
  <2>2. Way(par, SubSeq(t, 1, k), n) /\ Len(SubSeq(t, 1, k)) = k
    BY <1>1, <2>1, WayBegins
  <2>3. SubSeq(t, 1, k) = s
    BY <1>1, <2>2, SameWay
  <2>4. Len(s) = k /\ Len(s) <= Len(t)
    BY <2>1, <2>2, <2>3, <1>2
  <2> QED BY <1>2, <2>1, <2>3, <2>4 DEF IsPrefix
<1> QED BY <1>3, <1>4 DEF s, t

(* The height of a subtree bounds it.                                        *)
LEMMA HeightBounds ==
    ASSUME NEW pth \in [Node -> Seq(Node)], \A k \in Node : Len(pth[k]) <= MaxDepth,
           NEW n \in Node, pth[n] # <<>>, NEW m \in Subtree(pth, n)
    PROVE  /\ Len(pth[m]) + 1 <= Len(pth[n]) + Height(pth, n)
           /\ Height(pth, n) \in Nat
<1> USE DepthAssumption
<1> DEFINE Below(h) == \A k \in Subtree(pth, n) : Len(pth[k]) <= Len(pth[n]) + h
           Bounds == {h \in Nat : Below(h)}
           IsHeight(h) == (\E k \in Subtree(pth, n) : Len(pth[k]) = Len(pth[n]) + h) /\ Below(h)
<1>1. \A k \in Node : Len(pth[k]) \in Nat /\ Len(pth[k]) <= MaxDepth
  BY EmptySeq, LenProperties
<1>2. Subtree(pth, n) \subseteq Node /\ n \in Subtree(pth, n)
  <2>1. IsPrefix(pth[n], pth[n])
    BY <1>1 DEF IsPrefix
  <2> QED BY <2>1 DEF Subtree
<1>3. \E h \in 0 .. MaxDepth : IsHeight(h)
  <2>1. MaxDepth \in Bounds
    BY <1>1, <1>2
  <2>2. PICK h \in Bounds : \A k \in Bounds : h <= k
    BY <2>1, LeastOf
  <2>3. h \in Nat /\ h <= MaxDepth /\ Below(h)
    BY <2>1, <2>2
  <2>4. \E k \in Subtree(pth, n) : Len(pth[k]) = Len(pth[n]) + h
    <3>1. CASE h = 0
      <4>1. Len(pth[n]) = Len(pth[n]) + h
        BY <1>1, <3>1
      <4> QED BY <1>2, <4>1
    <3>2. CASE h # 0
      <4>1. h - 1 \in Nat /\ ~(h <= h - 1)
        BY <2>3, <3>2
      <4>2. ~Below(h - 1)
        BY <2>2, <4>1
      <4>3. PICK k \in Subtree(pth, n) : ~(Len(pth[k]) <= Len(pth[n]) + (h - 1))
        BY <4>2
      <4>4. Len(pth[k]) <= Len(pth[n]) + h /\ Len(pth[k]) \in Nat /\ Len(pth[n]) \in Nat
        BY <1>1, <1>2, <2>3
      <4>5. Len(pth[k]) = Len(pth[n]) + h
        <5>1. \A a, l, x \in Nat : a <= l + x /\ ~(a <= l + (x - 1)) => a = l + x
          OBVIOUS
        <5>2. h \in Nat
          BY <2>3
        <5> HIDE DEF Below
        <5> QED BY <4>3, <4>4, <5>1, <5>2
      <4> QED BY <4>5
    <3> QED BY <3>1, <3>2
  <2> HIDE DEF Bounds
  <2>5. h \in 0 .. MaxDepth
    BY <2>3
  <2> QED BY <2>3, <2>4, <2>5
<1> DEFINE top == CHOOSE h \in 0 .. MaxDepth : IsHeight(h)
<1>4. top \in 0 .. MaxDepth /\ IsHeight(top)
  <2> HIDE DEF IsHeight
  <2> QED BY <1>3
<1>5. Height(pth, n) = 1 + top
  BY DEF Height
<1>6. Len(pth[m]) <= Len(pth[n]) + top
  BY <1>4
<1> HIDE DEF top
<1> QED BY <1>1, <1>2, <1>4, <1>5, <1>6

-----------------------------------------------------------------------------
(* A tree built earlier, and no request yet.                                *)
LEMMA TreeInits == TreeInit => TreeSound
<1> SUFFICES ASSUME TreeInit PROVE TreeSound
  OBVIOUS
<1>1. parent \in [Node -> Parents] /\ Forest!IsTree(parent) /\ path = Derived(parent)
  BY DEF TreeInit, Forest!Init, Parents
<1>2. TreeRows(parent, path)
  BY <1>1, DerivedRows
<1>3. treeTx = [t \in TreeTxs |-> TreeIdle] /\ overtaken = {}
  BY DEF TreeInit
<1>4. RequestsTyped
  BY <1>3 DEF RequestsTyped
<1>5. \A t \in TreeTxs : treeTx[t].pc = "idle"
  BY <1>3 DEF TreeIdle
<1>6. \A t \in TreeTxs : RequestOk(t)
  BY <1>5 DEF RequestOk, ComesNew, Fits, WasMovable, AsRead, Locked, IsInserting, IsMoving
<1> QED BY <1>2, <1>4, <1>6 DEF TreeSound

(* A request that has ended, or is about to begin again.                     *)
LEMMA RestIsOk ==
    ASSUME NEW t \in TreeTxs, treeTx'[t].pc \in {"idle", "retrying", "deleting"}
    PROVE  RequestOk(t)'
BY DEF RequestOk, ComesNew, Fits, WasMovable, AsRead, Locked, IsInserting, IsMoving

(* A request that begins was idle, and no other is touched.                 *)
LEMMA BeginTreeIs ==
    ASSUME RequestsTyped, NEW t \in TreeTxs, NEW r, BeginTree(t, r)
    PROVE  treeTx[t].pc = "idle" /\ treeTx' = [treeTx EXCEPT ![t] = r] /\ treeTx'[t] = r
           /\ \A u \in TreeTxs \ {t} : treeTx'[u] = treeTx[u]
BY DEF BeginTree, TreeIdle, RequestsTyped

(* The steps that leave the rows as they are.                                *)
LEMMA RootBegun ==
    ASSUME TreeSound, NEW t \in TreeTxs, NEW n \in Node, BeginCreateRoot(t, n)
    PROVE  TreeSound'
<1> DEFINE r == [pc |-> "inserting", node |-> n, under |-> NoParent, new |-> <<n>>]
<1>1. RequestsTyped /\ TreeRows(parent, path) /\ \A u \in TreeTxs : RequestOk(u)
  BY DEF TreeSound
<1>2. /\ Fresh(n) /\ (\A m \in Node : parent[m] # NoParent) /\ BeginTree(t, r)
      /\ UNCHANGED <<parent, path, overtaken>>
  BY DEF BeginCreateRoot
<1>3. treeTx' = [treeTx EXCEPT ![t] = r] /\ treeTx'[t] = r /\ \A u \in TreeTxs \ {t} : treeTx'[u] = treeTx[u]
  BY <1>1, <1>2, BeginTreeIs
<1>4. r \in InsertRec /\ r.pc = "inserting" /\ r.node = n /\ r.under = NoParent /\ r.new = <<n>>
  BY DEF InsertRec
<1> HIDE DEF r
<1>5. ComesNew(t)'
  <2>1. ~Present(n)'
    BY <1>2 DEF Fresh, Present
  <2>2. ASSUME NEW u \in TreeTxs, u # t
        PROVE  /\ IsInserting(u)' => treeTx'[u].node # n
               /\ IsAttaching(u)' => treeTx'[u].under # n
               /\ IsMoving(u)' => treeTx'[u].path[n] = <<>>
    <3>1. treeTx'[u] = treeTx[u]
      BY <1>3, <2>2
    <3> QED BY <3>1, <1>2 DEF Fresh, IsInserting, IsAttaching, IsMoving
  <2>3. treeTx'[t].under # n /\ ~IsMoving(t)'
    BY <1>3, <1>4, DistinctAssumption DEF IsMoving
  <2> QED BY <1>3, <1>4, <2>1, <2>2, <2>3 DEF ComesNew
<1>6. Fits(t)'
  BY <1>2, <1>3, <1>4 DEF Fits
<1>7. RequestOk(t)'
  BY <1>3, <1>4, <1>5, <1>6 DEF RequestOk, WasMovable, AsRead, Locked, IsMoving
<1>8. \A u \in TreeTxs \ {t} : IsInserting(u) => r.under # treeTx[u].node
  BY <1>1, <1>4, KindsOfRequest, DistinctAssumption DEF InsertRec
<1> QED BY <1>2, <1>3, <1>4, <1>7, <1>8, OthersOk

(* POST under a parent that was there.                                      *)
LEMMA CreateBegun ==
    ASSUME TreeSound, NEW t \in TreeTxs, NEW n \in Node, NEW p \in Node, BeginCreate(t, n, p)
    PROVE  TreeSound'
<1> DEFINE r == [pc |-> "inserting", node |-> n, under |-> p, new |-> Append(path[p], n)]
<1>1. RequestsTyped /\ TreeRows(parent, path) /\ \A u \in TreeTxs : RequestOk(u)
  BY DEF TreeSound
<1>2. /\ Fresh(n) /\ Present(p) /\ Len(path[p]) + 1 <= MaxDepth /\ BeginTree(t, r)
      /\ UNCHANGED <<parent, path, overtaken>>
  BY DEF BeginCreate
<1>3. treeTx' = [treeTx EXCEPT ![t] = r] /\ treeTx'[t] = r /\ \A u \in TreeTxs \ {t} : treeTx'[u] = treeTx[u]
  BY <1>1, <1>2, BeginTreeIs
<1>4. /\ r \in InsertRec /\ r.pc = "inserting" /\ r.node = n /\ r.under = p
      /\ r.new = Append(path[p], n)
  <2>1. Append(path[p], n) \in Seq(Node)
    BY <1>1, AppendProperties DEF TreeRows
  <2> QED BY <2>1 DEF InsertRec
<1> HIDE DEF r
<1>5. ComesNew(t)'
  <2>1. ~Present(n)' /\ n # p
    BY <1>2 DEF Fresh, Present
  <2>2. ASSUME NEW u \in TreeTxs, u # t
        PROVE  /\ IsInserting(u)' => treeTx'[u].node # n
               /\ IsAttaching(u)' => treeTx'[u].under # n
               /\ IsMoving(u)' => treeTx'[u].path[n] = <<>>
    <3>1. treeTx'[u] = treeTx[u]
      BY <1>3, <2>2
    <3> QED BY <3>1, <1>2 DEF Fresh, IsInserting, IsAttaching, IsMoving
  <2>3. treeTx'[t].under # n /\ ~IsMoving(t)'
    BY <1>3, <1>4, <2>1 DEF IsMoving
  <2> QED BY <1>3, <1>4, <2>1, <2>2, <2>3 DEF ComesNew
<1>6. Fits(t)'
  BY <1>2, <1>3, <1>4, DistinctAssumption DEF Fits
<1>7. RequestOk(t)'
  BY <1>3, <1>4, <1>5, <1>6 DEF RequestOk, WasMovable, AsRead, Locked, IsMoving
<1>8. \A u \in TreeTxs \ {t} : IsInserting(u) => r.under # treeTx[u].node
  BY <1>1, <1>2, <1>4 DEF RequestOk, ComesNew
<1> QED BY <1>2, <1>3, <1>4, <1>7, <1>8, OthersOk

(* A move that its snapshot allows.                                          *)
LEMMA MoveBegun ==
    ASSUME TreeSound, NEW t \in TreeTxs, NEW n \in Node, NEW p \in Node, NEW k \in Nat,
           Movable(n, p), treeTx' = [treeTx EXCEPT ![t] = Snapshot(n, p, k)],
           UNCHANGED <<parent, path, overtaken>>
    PROVE  TreeSound'
<1> DEFINE r == Snapshot(n, p, k)
<1>1. RequestsTyped /\ TreeRows(parent, path) /\ \A u \in TreeTxs : RequestOk(u)
  BY DEF TreeSound
<1>2. /\ Present(n) /\ Present(p) /\ ~IsPrefix(path[n], path[p])
      /\ Len(path[p]) + Height(path, n) <= MaxDepth
  BY DEF Movable
<1>3. treeTx'[t] = r /\ \A u \in TreeTxs \ {t} : treeTx'[u] = treeTx[u]
  BY <1>1 DEF RequestsTyped
<1>4. /\ r \in MoveRec /\ r.pc = "updating" /\ r.node = n /\ r.under = p
      /\ r.parent = parent /\ r.path = path
  BY <1>1 DEF Snapshot, MoveRec, TreeRows
<1>5. treeTx' = [treeTx EXCEPT ![t] = r]
  OBVIOUS
<1> HIDE DEF r
<1>6. Moved(t)' = Subtree(path, n)
  BY <1>3, <1>4 DEF Moved
<1>7. /\ path[n] # <<>> /\ \A m \in Node : Len(path[m]) \in Nat /\ Len(path[m]) <= MaxDepth
  <2>1. path[n] # <<>>
    BY <1>1, <1>2 DEF TreeRows, Way, Present
  <2>2. ASSUME NEW m \in Node PROVE Len(path[m]) \in Nat /\ Len(path[m]) <= MaxDepth
    <3>1. path[m] \in Seq(Node) /\ Len(path[m]) \in Nat
      BY <1>1, LenProperties DEF TreeRows
    <3>2. CASE parent[m] = Absent
      BY <1>1, <3>2, EmptySeq, DepthAssumption DEF TreeRows
    <3>3. CASE parent[m] # Absent
      BY <1>1, <3>1, <3>3 DEF TreeRows
    <3> QED BY <3>1, <3>2, <3>3
  <2> QED BY <2>1, <2>2
<1>8. WasMovable(t)'
  <2>1. ASSUME NEW m \in Subtree(path, n) PROVE Len(path[p]) + Len(path[m]) + 1 <= MaxDepth + Len(path[n])
    <3>1. path \in [Node -> Seq(Node)] /\ m \in Node
      BY <1>1 DEF TreeRows, Subtree
    <3>2. Len(path[m]) + 1 <= Len(path[n]) + Height(path, n) /\ Height(path, n) \in Nat
      BY <1>7, <3>1, HeightBounds
    <3>3. Len(path[m]) \in Nat /\ Len(path[n]) \in Nat /\ Len(path[p]) \in Nat /\ MaxDepth \in Nat
      BY <1>7, <3>1, DepthAssumption
    <3>4. \A a, b, c, h, d \in Nat : a + 1 <= b + h /\ c + h <= d => c + a + 1 <= d + b
      OBVIOUS
    <3> QED BY <1>2, <3>2, <3>3, <3>4
  <2> QED BY <1>2, <1>3, <1>4, <1>6, <1>7, <2>1 DEF WasMovable
<1>9. AsRead(t)'
  <2>1. path' = path /\ parent' = parent
    OBVIOUS
  <2>2. Beneath(n)' \subseteq Subtree(path, n)
    <3> SUFFICES ASSUME NEW m \in Node, Present(m), n \in On(path[m]) PROVE m \in Subtree(path, n)
      BY <2>1 DEF Beneath, Present, On
    <3>1. IsPrefix(path[n], path[m])
      BY <1>1, <1>2, PrefixIsAncestry DEF Present
    <3>2. path[m] # <<>>
      BY <1>1 DEF TreeRows, Way, Present
    <3> QED BY <3>1, <3>2 DEF Subtree
  <2>3. Beneath(treeTx[t].node)' = Beneath(n)'
    BY <1>3, <1>4 DEF Beneath, Present, On
  <2> QED BY <1>3, <1>4, <1>6, <2>1, <2>2, <2>3 DEF AsRead
<1>10. RequestOk(t)'
  BY <1>3, <1>4, <1>8, <1>9 DEF RequestOk, ComesNew, Fits, Locked, IsInserting
<1>11. \A u \in TreeTxs \ {t} : IsInserting(u) => r.under # treeTx[u].node /\ r.path[treeTx[u].node] = <<>>
  <2> SUFFICES ASSUME NEW u \in TreeTxs, IsInserting(u)
               PROVE  r.under # treeTx[u].node /\ r.path[treeTx[u].node] = <<>>
    OBVIOUS
  <2>1. ~Present(treeTx[u].node) /\ treeTx[u].node \in Node
    BY <1>1, KindsOfRequest DEF RequestOk, ComesNew, InsertRec
  <2>2. path[treeTx[u].node] = <<>>
    BY <1>1, <2>1 DEF TreeRows, Present
  <2> QED BY <1>2, <1>4, <2>1, <2>2
<1> QED BY <1>4, <1>5, <1>10, <1>11, OthersOk

(* DELETE has read that there are no children.                              *)
LEMMA RemoveBegun ==
    ASSUME TreeSound, NEW t \in TreeTxs, NEW n \in Node, BeginTreeRemove(t, n)
    PROVE  TreeSound'
<1> DEFINE r == [pc |-> "deleting", node |-> n]
<1>1. BeginTree(t, r) /\ UNCHANGED <<parent, path, overtaken>> /\ RequestsTyped
  BY DEF BeginTreeRemove, TreeSound
<1>2. treeTx' = [treeTx EXCEPT ![t] = r] /\ treeTx'[t] = r
  BY <1>1, BeginTreeIs
<1>3. r \in RemoveRec /\ r.pc = "deleting"
  BY DEF RemoveRec
<1> HIDE DEF r
<1>4. RequestOk(t)'
  BY <1>2, <1>3, RestIsOk
<1> QED BY <1>1, <1>2, <1>3, <1>4, OthersOk

(* The UPDATE: its rows are locked, and as its snapshot has them.           *)
LEMMA MoveUpdated ==
    ASSUME TreeSound, NEW t \in TreeTxs, UpdateMove(t)
    PROVE  TreeSound'
<1> DEFINE r == [treeTx[t] EXCEPT !.pc = "committing"]
<1>1. RequestsTyped /\ TreeRows(parent, path) /\ \A u \in TreeTxs : RequestOk(u)
  BY DEF TreeSound
<1>2. /\ treeTx[t].pc = "updating"
      /\ \A u \in TreeTxs \ {t} : treeTx[u].pc = "committing" => Moved(t) \cap Moved(u) = {}
      /\ \A m \in Moved(t) : parent[m] = treeTx[t].parent[m] /\ path[m] = treeTx[t].path[m]
      /\ Present(treeTx[t].under)
      /\ UNCHANGED <<parent, path, overtaken>>
  BY DEF UpdateMove
<1>3. IsMoving(t) /\ treeTx[t] \in MoveRec
  BY <1>1, <1>2, KindsOfRequest DEF IsMoving
<1>4. /\ r \in MoveRec /\ r.pc = "committing" /\ r.node = treeTx[t].node /\ r.under = treeTx[t].under
      /\ r.parent = treeTx[t].parent /\ r.path = treeTx[t].path
  BY <1>3 DEF MoveRec
<1>5. treeTx' = [treeTx EXCEPT ![t] = r] /\ treeTx'[t] = r /\ \A u \in TreeTxs \ {t} : treeTx'[u] = treeTx[u]
  BY <1>1 DEF UpdateMove, RequestsTyped
<1> HIDE DEF r
<1>6. /\ Moved(t)' = Moved(t) /\ parent' = parent /\ path' = path
      /\ Beneath(treeTx[t].node)' = Beneath(treeTx[t].node)
      /\ treeTx'[t].node = treeTx[t].node /\ treeTx'[t].under = treeTx[t].under
      /\ treeTx'[t].path = treeTx[t].path /\ treeTx'[t].parent = treeTx[t].parent
  BY <1>2, <1>4, <1>5 DEF Moved, Beneath, Present, On
<1>7. WasMovable(t)'
  BY <1>1, <1>3, <1>6 DEF RequestOk, WasMovable
<1>8. AsRead(t)'
  BY <1>1, <1>2, <1>3, <1>6 DEF RequestOk, AsRead, Present
<1>9. Locked(t)'
  <2>1. ASSUME NEW u \in TreeTxs \ {t}, treeTx'[u].pc = "committing" PROVE Moved(t) \cap Moved(u)' = {}
    <3>1. treeTx'[u] = treeTx[u] /\ Moved(u)' = Moved(u)
      BY <1>5 DEF Moved, Subtree
    <3> QED BY <1>2, <2>1, <3>1
  <2>2. Present(treeTx[t].under)'
    BY <1>2, <1>6 DEF Present
  <2> QED BY <1>2, <1>6, <2>1, <2>2 DEF Locked
<1>10. RequestOk(t)'
  BY <1>4, <1>5, <1>7, <1>8, <1>9 DEF RequestOk, ComesNew, Fits, IsInserting
<1>11. \A u \in TreeTxs \ {t} : IsInserting(u) => r.under # treeTx[u].node /\ r.path[treeTx[u].node] = <<>>
  <2> SUFFICES ASSUME NEW u \in TreeTxs, IsInserting(u)
               PROVE  r.under # treeTx[u].node /\ r.path[treeTx[u].node] = <<>>
    OBVIOUS
  <2>1. ComesNew(u) /\ IsAttaching(t)
    BY <1>1, <1>3 DEF RequestOk, IsAttaching
  <2>2. treeTx[t].under # treeTx[u].node /\ treeTx[t].path[treeTx[u].node] = <<>>
    BY <1>3, <2>1 DEF ComesNew
  <2> QED BY <1>4, <2>2
<1>12. UNCHANGED <<parent, path>> /\ overtaken' = overtaken
  BY <1>2
<1> QED BY <1>4, <1>5, <1>10, <1>11, <1>12, OthersOk

(* A request that gives up, or is to run again.                              *)
LEMMA RequestRests ==
    ASSUME TreeSound, NEW t \in TreeTxs, NEW r \in {TreeIdle} \cup RetryRec,
           treeTx' = [treeTx EXCEPT ![t] = r], UNCHANGED <<parent, path>>,
           overtaken' = overtaken \/ overtaken' = overtaken \ {t}
    PROVE  TreeSound'
<1>1. r.pc \in {"idle", "retrying"}
  BY DEF TreeIdle, RetryRec
<1>2. treeTx'[t] = r
  BY DEF TreeSound, RequestsTyped
<1>3. RequestOk(t)'
  BY <1>1, <1>2, RestIsOk
<1> QED BY <1>1, <1>3, OthersOk

(* A serialization failure: again, or not.                                  *)
LEMMA MoveFailed ==
    ASSUME TreeSound, NEW t \in TreeTxs, SerializationFailure(t)
    PROVE  TreeSound'
<1> DEFINE again == [pc |-> "retrying", node |-> treeTx[t].node, under |-> treeTx[t].under,
                     attempt |-> treeTx[t].attempt + 1]
<1>1. RequestsTyped /\ treeTx[t] \in MoveRec
  BY KindsOfRequest DEF TreeSound, SerializationFailure, IsMoving
<1>2. again \in RetryRec
  BY <1>1 DEF MoveRec, RetryRec
<1>3. /\ treeTx' = [treeTx EXCEPT ![t] = again] \/ treeTx' = [treeTx EXCEPT ![t] = TreeIdle]
      /\ UNCHANGED <<parent, path>> /\ overtaken' = overtaken \ {t}
  BY <1>1 DEF SerializationFailure, RequestsTyped
<1> HIDE DEF again
<1> QED BY <1>2, <1>3, RequestRests

(* The handler again: a new snapshot, or a refusal.                         *)
LEMMA MoveRetried ==
    ASSUME TreeSound, NEW t \in TreeTxs, RetryMove(t)
    PROVE  TreeSound'
<1> DEFINE n == treeTx[t].node
           p == treeTx[t].under
           k == treeTx[t].attempt
<1>1. RequestsTyped /\ treeTx[t] \in RetryRec
  BY KindsOfRequest DEF TreeSound, RetryMove
<1>2. n \in Node /\ p \in Node /\ k \in Nat
  BY <1>1 DEF RetryRec
<1>3. /\ treeTx' = [treeTx EXCEPT ![t] = IF Movable(n, p) THEN Snapshot(n, p, k) ELSE TreeIdle]
      /\ UNCHANGED <<parent, path, overtaken>>
  BY <1>1 DEF RetryMove, RequestsTyped
<1> HIDE DEF n, p, k
<1>4. CASE Movable(n, p)
  <2>1. treeTx' = [treeTx EXCEPT ![t] = Snapshot(n, p, k)]
    BY <1>3, <1>4
  <2> QED BY <1>2, <1>3, <1>4, <2>1, MoveBegun
<1>5. CASE ~Movable(n, p)
  <2>1. treeTx' = [treeTx EXCEPT ![t] = TreeIdle]
    BY <1>3, <1>5
  <2> QED BY <1>3, <2>1, RequestRests
<1> QED BY <1>4, <1>5

-----------------------------------------------------------------------------
(* What a commit does to the ways.                                           *)
LEMMA WayKept ==
    ASSUME NEW par, NEW other, NEW s, NEW n, Way(par, s, n),
           \A i \in 1 .. Len(s) : other[s[i]] = par[s[i]]
    PROVE  Way(other, s, n)
<1>1. /\ s \in Seq(Node) /\ Len(s) \in Nat /\ Len(s) >= 1 /\ par[s[1]] = NoParent /\ s[Len(s)] = n
      /\ \A i \in 1 .. Len(s) : i + 1 <= Len(s) => par[s[i + 1]] = s[i]
  BY WayIs
<1>2. 1 \in 1 .. Len(s) /\ \A i \in 1 .. Len(s) - 1 : i \in 1 .. Len(s) /\ i + 1 \in 1 .. Len(s) /\ i + 1 <= Len(s)
  BY <1>1
<1>3. other[s[1]] = NoParent /\ \A i \in 1 .. Len(s) - 1 : other[s[i + 1]] = s[i]
  BY <1>1, <1>2
<1> QED BY <1>1, <1>3 DEF Way, LeadsTo

(* Who is on a way is there, and is the end of it or has a child there.      *)
LEMMA OnTheWay ==
    ASSUME NEW par, NEW s, NEW n, Way(par, s, n), NEW i \in 1 .. Len(s)
    PROVE  /\ s[i] \in Node /\ par[s[i]] # Absent
           /\ s[i] = n \/ \E m \in Node : par[m] = s[i]
<1>1. /\ Len(s) \in Nat /\ Len(s) >= 1 /\ par[s[1]] = NoParent /\ s[Len(s)] = n
      /\ \A j \in 1 .. Len(s) : s[j] \in Node
      /\ \A j \in 1 .. Len(s) : j + 1 <= Len(s) => par[s[j + 1]] = s[j]
      /\ \A j \in 1 .. Len(s) : j > 1 => par[s[j]] \in Node
  BY WayIs
<1>2. par[s[i]] # Absent
  BY <1>1, DistinctAssumption
<1>3. CASE i = Len(s)
  BY <1>1, <1>2, <1>3
<1>4. CASE i # Len(s)
  <2>1. i + 1 \in 1 .. Len(s) /\ i + 1 <= Len(s)
    BY <1>1, <1>4
  <2> QED BY <1>1, <1>2, <2>1
<1> QED BY <1>3, <1>4

(* A row inserted beneath another, or as the first.                         *)
LEMMA LeafAdded ==
    ASSUME NEW par, NEW pth, TreeRows(par, pth), NEW n \in Node, par[n] = Absent,
           NEW p \in Node \cup {NoParent}, NEW q \in Seq(Node),
           p = NoParent => q = <<n>> /\ \A m \in Node : par[m] # NoParent,
           p # NoParent => par[p] # Absent /\ q = Append(pth[p], n) /\ Len(pth[p]) + 1 <= MaxDepth
    PROVE  TreeRows([par EXCEPT ![n] = p], [pth EXCEPT ![n] = q])
<1> DEFINE par2 == [par EXCEPT ![n] = p]
           pth2 == [pth EXCEPT ![n] = q]
<1>1. /\ par2 \in [Node -> Parents] /\ pth2 \in [Node -> Seq(Node)]
      /\ par2[n] = p /\ pth2[n] = q
      /\ \A m \in Node : m # n => par2[m] = par[m] /\ pth2[m] = pth[m]
  BY DEF TreeRows, Parents
<1> HIDE DEF par2, pth2
<1>2. ASSUME NEW m \in Node, par[m] # Absent PROVE Way(par2, pth[m], m) /\ Len(pth[m]) <= MaxDepth /\ m # n
  <2>1. Way(par, pth[m], m) /\ Len(pth[m]) <= MaxDepth
    BY <1>2 DEF TreeRows
  <2>2. \A i \in 1 .. Len(pth[m]) : par2[pth[m][i]] = par[pth[m][i]]
    BY <1>1, <2>1, OnTheWay
  <2> QED BY <1>2, <2>1, <2>2, WayKept
<1>3. Way(par2, q, n) /\ Len(q) <= MaxDepth
  <2>1. CASE p = NoParent
    <3>1. q = <<n>> /\ Len(q) = 1 /\ q[1] = n /\ q # <<>>
      BY <2>1
    <3> QED BY <1>1, <2>1, <3>1, DepthAssumption DEF Way, LeadsTo
  <2>2. CASE p # NoParent
    <3> DEFINE s == pth[p]
    <3>1. p \in Node /\ Way(par2, s, p) /\ Len(s) + 1 <= MaxDepth
      BY <1>2, <2>2
    <3>2. q = Append(s, n)
      BY <2>2
    <3> HIDE DEF s
    <3>3. /\ s \in Seq(Node) /\ Len(s) \in Nat /\ Len(s) >= 1
          /\ par2[s[1]] = NoParent /\ s[Len(s)] = p
          /\ \A i \in 1 .. Len(s) : i + 1 <= Len(s) => par2[s[i + 1]] = s[i]
      BY <3>1, WayIs
    <3>4. /\ q # <<>> /\ Len(q) = Len(s) + 1
          /\ \A i \in 1 .. Len(s) : q[i] = s[i]
          /\ q[Len(s) + 1] = n
      BY <3>2, <3>3, AppendProperties
    <3>5. ASSUME NEW i \in 1 .. Len(q) - 1 PROVE par2[q[i + 1]] = q[i]
      <4>1. i \in 1 .. Len(s)
        BY <3>3, <3>4
      <4>2. CASE i = Len(s)
        BY <4>1, <4>2, <1>1, <3>3, <3>4
      <4>3. CASE i # Len(s)
        <5>1. i + 1 \in 1 .. Len(s) /\ i + 1 <= Len(s)
          BY <4>1, <4>3, <3>3
        <5> QED BY <5>1, <4>1, <3>3, <3>4
      <4> QED BY <4>2, <4>3
    <3>6. 1 \in 1 .. Len(s) /\ q[1] = s[1] /\ q[Len(q)] = n
      BY <3>3, <3>4
    <3> QED BY <3>1, <3>3, <3>4, <3>5, <3>6 DEF Way, LeadsTo
  <2> QED BY <2>1, <2>2
<1>4. \A m \in Node : par2[m] # Absent => Way(par2, pth2[m], m) /\ Len(pth2[m]) <= MaxDepth
  <2> TAKE m \in Node
  <2>1. CASE m = n
    BY <1>1, <1>3, <2>1
  <2>2. CASE m # n
    BY <1>1, <1>2, <2>2
  <2> QED BY <2>1, <2>2
<1>5. \A m \in Node : par2[m] = Absent => pth2[m] = <<>>
  BY <1>1, DistinctAssumption DEF TreeRows
<1>6. \A k, m \in Node : par2[k] = NoParent /\ par2[m] = NoParent => k = m
  BY <1>1 DEF TreeRows
<1>7. TreeRows(par2, pth2)
  BY <1>1, <1>4, <1>5, <1>6 DEF TreeRows
<1> QED BY <1>7 DEF par2, pth2

(* A row deleted that has no children.                                      *)
LEMMA LeafRemoved ==
    ASSUME NEW par, NEW pth, TreeRows(par, pth), NEW n \in Node, \A m \in Node : par[m] # n
    PROVE  TreeRows([par EXCEPT ![n] = Absent], [pth EXCEPT ![n] = <<>>])
<1> DEFINE par2 == [par EXCEPT ![n] = Absent]
           pth2 == [pth EXCEPT ![n] = <<>>]
<1>1. /\ par2 \in [Node -> Parents] /\ pth2 \in [Node -> Seq(Node)]
      /\ par2[n] = Absent /\ pth2[n] = <<>>
      /\ \A m \in Node : m # n => par2[m] = par[m] /\ pth2[m] = pth[m]
  <2>1. <<>> \in Seq(Node)
    BY EmptySeq
  <2> QED BY <2>1 DEF TreeRows, Parents
<1> HIDE DEF par2, pth2
<1>2. ASSUME NEW m \in Node, par2[m] # Absent PROVE Way(par2, pth2[m], m) /\ Len(pth2[m]) <= MaxDepth
  <2>1. m # n /\ par[m] # Absent /\ pth2[m] = pth[m]
    BY <1>1, <1>2
  <2>2. Way(par, pth[m], m) /\ Len(pth[m]) <= MaxDepth
    BY <2>1 DEF TreeRows
  <2>3. \A i \in 1 .. Len(pth[m]) : pth[m][i] \in Node /\ pth[m][i] # n
    BY <2>1, <2>2, OnTheWay
  <2>4. \A i \in 1 .. Len(pth[m]) : par2[pth[m][i]] = par[pth[m][i]]
    BY <1>1, <2>3
  <2> QED BY <2>1, <2>2, <2>4, WayKept
<1>3. \A m \in Node : par2[m] = Absent => pth2[m] = <<>>
  BY <1>1 DEF TreeRows
<1>4. \A k, m \in Node : par2[k] = NoParent /\ par2[m] = NoParent => k = m
  BY <1>1, DistinctAssumption DEF TreeRows
<1>5. TreeRows(par2, pth2)
  BY <1>1, <1>2, <1>3, <1>4 DEF TreeRows
<1> QED BY <1>5 DEF par2, pth2

(* A subtree hung elsewhere: its ways are cut above it and continued from    *)
(* the new place.                                                            *)
HangingFrom(par, pth, n) == {m \in Node : par[m] # Absent /\ n \in On(pth[m])}
Rehung(par, pth, n, p) ==
    [m \in Node |-> IF m \in HangingFrom(par, pth, n)
                    THEN pth[p] \o SubSeq(pth[m], Len(pth[n]), Len(pth[m])) ELSE pth[m]]

LEMMA SubtreeMoved ==
    ASSUME NEW par, NEW pth, TreeRows(par, pth), NEW n \in Node, NEW p \in Node,
           par[n] # Absent, par[p] # Absent, n \notin On(pth[p]),
           \A m \in HangingFrom(par, pth, n) : Len(pth[p]) + Len(pth[m]) + 1 <= MaxDepth + Len(pth[n])
    PROVE  /\ TreeRows([par EXCEPT ![n] = p], Rehung(par, pth, n, p))
           /\ \A m \in HangingFrom(par, pth, n) :
                 On(Rehung(par, pth, n, p)[m]) \subseteq On(pth[p]) \cup On(pth[m])
<1> DEFINE moved == HangingFrom(par, pth, n)
           par2 == [par EXCEPT ![n] = p]
           pth2 == Rehung(par, pth, n, p)
<1>0. /\ moved = {m \in Node : par[m] # Absent /\ n \in On(pth[m])}
      /\ \A m \in moved : Len(pth[p]) + Len(pth[m]) + 1 <= MaxDepth + Len(pth[n])
      /\ par2 = [par EXCEPT ![n] = p]
      /\ pth2 = [m \in Node |-> IF m \in moved
                    THEN pth[p] \o SubSeq(pth[m], Len(pth[n]), Len(pth[m])) ELSE pth[m]]
  BY DEF HangingFrom, Rehung
<1> SUFFICES /\ TreeRows(par2, pth2)
             /\ \A m \in moved : On(pth2[m]) \subseteq On(pth[p]) \cup On(pth[m])
  OBVIOUS
<1> HIDE DEF moved, par2, pth2
<1> DEFINE a == pth[p]
           k == Len(pth[n])
<1>1. /\ par2[n] = p /\ \A m \in Node : m # n => par2[m] = par[m]
      /\ par2 \in [Node -> Parents]
  BY <1>0 DEF TreeRows, Parents
<1>2. Way(par, a, p) /\ Way(par, pth[n], n)
  BY DEF TreeRows
<1>3. /\ a \in Seq(Node) /\ Len(a) \in Nat /\ Len(a) >= 1 /\ a[Len(a)] = p
      /\ par[a[1]] = NoParent
      /\ \A i \in 1 .. Len(a) : a[i] \in Node
      /\ \A i \in 1 .. Len(a) : i + 1 <= Len(a) => par[a[i + 1]] = a[i]
      /\ k \in Nat /\ k >= 1
  <2>1. k \in Nat /\ k >= 1
    BY <1>2, WayIs
  <2>2. Way(par, a, p)
    BY <1>2
  <2> HIDE DEF a, k
  <2>3. /\ a \in Seq(Node) /\ Len(a) \in Nat /\ Len(a) >= 1 /\ a[Len(a)] = p
        /\ par[a[1]] = NoParent
        /\ \A i \in 1 .. Len(a) : a[i] \in Node
        /\ \A i \in 1 .. Len(a) : i + 1 <= Len(a) => par[a[i + 1]] = a[i]
    BY <2>2, WayIs
  <2> QED BY <2>1, <2>3
<1>4. \A i \in 1 .. Len(a) : a[i] # n /\ par2[a[i]] = par[a[i]]
  BY <1>1, <1>3 DEF On
<1> HIDE DEF a
<1>5. ASSUME NEW m \in moved
      PROVE  /\ Way(par2, pth2[m], m) /\ pth2[m] \in Seq(Node) /\ Len(pth2[m]) <= MaxDepth
             /\ On(pth2[m]) \subseteq On(a) \cup On(pth[m])
  <2> DEFINE s == pth[m]
             b == SubSeq(s, k, Len(s))
             c == a \o b
  <2>1. m \in Node /\ par[m] # Absent /\ n \in On(s) /\ Way(par, s, m)
    BY <1>0 DEF TreeRows
  <2>2. pth2[m] = c
    BY <1>0, <2>1 DEF a
  <2>3. k \in 1 .. Len(s) /\ s[k] = n
    BY <2>1, PrefixIsAncestry
  <2>4. Len(a) + Len(s) + 1 <= MaxDepth + k
    BY <1>0 DEF a
  <2> HIDE DEF s, k
  <2>5. /\ s \in Seq(Node) /\ Len(s) \in Nat /\ Len(s) >= 1 /\ s[Len(s)] = m
        /\ \A i \in 1 .. Len(s) : s[i] \in Node
        /\ \A i \in 1 .. Len(s) : i + 1 <= Len(s) => par[s[i + 1]] = s[i]
    BY <2>1, WayIs
  <2>6. /\ b \in Seq(Node) /\ Len(b) = Len(s) - k + 1
        /\ \A i \in 1 .. Len(s) - k + 1 : b[i] = s[k + i - 1]
    <3>1. k \in Int /\ Len(s) \in Int /\ k <= Len(s) /\ \A i \in k .. Len(s) : s[i] \in Node
      BY <2>3, <2>5
    <3>2. /\ b \in Seq(Node) /\ Len(b) = IF k <= Len(s) THEN Len(s) - k + 1 ELSE 0
          /\ \A i \in 1 .. Len(s) - k + 1 : b[i] = s[k + i - 1]
      BY <3>1, SubSeqProperties
    <3> QED BY <3>1, <3>2
  <2> HIDE DEF b
  <2>n. /\ Len(a) \in Nat /\ Len(a) >= 1 /\ k \in Nat /\ k >= 1 /\ k <= Len(s) /\ Len(s) \in Nat
        /\ Len(b) = Len(s) - k + 1
    BY <1>3, <2>3, <2>5, <2>6
  <2>7. /\ c \in Seq(Node) /\ Len(c) = Len(a) + Len(b)
        /\ \A i \in 1 .. Len(a) + Len(b) : c[i] = IF i <= Len(a) THEN a[i] ELSE b[i - Len(a)]
    BY <1>3, <2>6, ConcatProperties
  <2> HIDE DEF c
  <2>8. /\ \A i \in 1 .. Len(a) : c[i] = a[i]
        /\ \A j \in k .. Len(s), i \in 1 .. Len(c) : i + k = Len(a) + j + 1 => c[i] = s[j]
    <3>1. ASSUME NEW i \in 1 .. Len(a) PROVE c[i] = a[i]
      <4>1. i \in 1 .. Len(a) + Len(b) /\ i <= Len(a)
        BY <1>3, <2>3, <2>5, <2>6
      <4> QED BY <2>7, <4>1
    <3>2. ASSUME NEW j \in k .. Len(s), NEW i \in 1 .. Len(c), i + k = Len(a) + j + 1
          PROVE  c[i] = s[j]
      <4>1. /\ i \in 1 .. Len(a) + Len(b) /\ ~(i <= Len(a))
            /\ i - Len(a) \in 1 .. Len(s) - k + 1 /\ k + (i - Len(a)) - 1 = j
        <5>1. Len(c) = Len(a) + Len(b) /\ i \in Nat /\ i >= 1 /\ i <= Len(c) /\ j \in Nat /\ j >= k /\ j <= Len(s)
          BY <2>n, <2>7, <3>2
        <5>2. i \in 1 .. Len(a) + Len(b)
          BY <2>n, <5>1
        <5>3. i - Len(a) \in Nat /\ i - Len(a) >= 1
          BY <2>n, <5>1, <3>2
        <5>4. i - Len(a) <= Len(s) - k + 1
          BY <2>n, <5>1, <3>2
        <5>5. k + (i - Len(a)) - 1 = j
          <6>1. \A x, y, z, w \in Nat : x + y = z + w + 1 => y + (x - z) - 1 = w
            OBVIOUS
          <6> QED BY <2>n, <5>1, <3>2, <6>1
        <5>6. ~(i <= Len(a))
          BY <2>n, <5>1, <5>3
        <5>7. Len(s) - k + 1 \in Nat
          BY <2>n
        <5> QED BY <5>2, <5>3, <5>4, <5>5, <5>6, <5>7
      <4>2. c[i] = b[i - Len(a)]
        BY <2>7, <4>1
      <4>3. b[i - Len(a)] = s[k + (i - Len(a)) - 1]
        BY <2>6, <4>1
      <4> QED BY <4>1, <4>2, <4>3
    <3> QED BY <3>1, <3>2
  <2>9. /\ Len(c) = Len(a) + (Len(s) - k) + 1 /\ Len(c) \in Nat /\ Len(c) <= MaxDepth
    BY <1>3, <2>3, <2>4, <2>5, <2>6, <2>7, DepthAssumption
  <2>10. \A j \in k .. Len(s) : j > k => s[j] # n /\ par2[s[j]] = par[s[j]]
    <3> SUFFICES ASSUME NEW j \in k .. Len(s), j > k PROVE s[j] # n /\ par2[s[j]] = par[s[j]]
      OBVIOUS
    <3>1. j \in 1 .. Len(s) /\ j # k
      BY <2>3, <2>5
    <3>2. s[j] # s[k]
      BY <2>1, <2>3, <3>1, WayOnce
    <3> QED BY <1>1, <2>3, <2>5, <3>1, <3>2
  <2>11. par2[c[1]] = NoParent /\ c[Len(c)] = m
    <3>1. /\ 1 \in 1 .. Len(a) /\ Len(s) \in k .. Len(s)
          /\ Len(c) \in 1 .. Len(c) /\ Len(c) + k = Len(a) + Len(s) + 1
      BY <2>n, <2>9
    <3> QED BY <1>3, <1>4, <2>5, <2>8, <3>1
  <2>12. ASSUME NEW i \in 1 .. Len(c) - 1 PROVE par2[c[i + 1]] = c[i]
    <3>1. CASE i < Len(a)
      <4>1. i \in 1 .. Len(a) /\ i + 1 \in 1 .. Len(a) /\ i + 1 <= Len(a)
        BY <2>n, <2>9, <3>1
      <4>2. c[i] = a[i] /\ c[i + 1] = a[i + 1]
        BY <2>8, <4>1
      <4>3. par2[a[i + 1]] = a[i]
        BY <1>3, <1>4, <4>1
      <4> QED BY <4>2, <4>3
    <3>2. CASE i = Len(a)
      <4>1. /\ k \in k .. Len(s) /\ i + 1 \in 1 .. Len(c) /\ (i + 1) + k = Len(a) + k + 1
            /\ i \in 1 .. Len(a)
        <5>1. i = Len(a) /\ Len(c) \in Nat /\ i + 1 <= Len(c)
          BY <2>n, <2>9, <3>2
        <5>2. i + 1 \in 1 .. Len(c)
          BY <2>n, <5>1
        <5>3. k \in k .. Len(s) /\ (i + 1) + k = Len(a) + k + 1
          BY <2>n, <5>1
        <5>4. i \in 1 .. Len(a)
          BY <2>n, <5>1
        <5> QED BY <5>2, <5>3, <5>4
      <4>2. c[i + 1] = n /\ c[i] = p
        BY <1>3, <2>3, <2>8, <3>2, <4>1
      <4> QED BY <1>1, <4>2
    <3>3. CASE i > Len(a)
      <4>1. PICK j \in Nat : i + k = Len(a) + j + 1
        <5>1. k + (i - Len(a)) - 1 \in Nat /\ i + k = Len(a) + (k + (i - Len(a)) - 1) + 1
          BY <2>n, <2>9, <3>3
        <5> QED BY <5>1
      <4>1a. /\ j \in k .. Len(s) /\ j + 1 \in k .. Len(s) /\ j + 1 > k /\ j \in 1 .. Len(s) /\ j + 1 <= Len(s)
             /\ i \in 1 .. Len(c) /\ i + 1 \in 1 .. Len(c) /\ (i + 1) + k = Len(a) + (j + 1) + 1
        <5>1. i \in Nat /\ Len(c) \in Nat /\ i >= 1 /\ i + 1 <= Len(c)
          BY <2>9, <3>3
        <5>2. j >= k /\ j + 1 <= Len(s)
          BY <2>n, <2>9, <3>3, <4>1, <5>1
        <5>3. j \in k .. Len(s) /\ j + 1 \in k .. Len(s) /\ j + 1 > k /\ j \in 1 .. Len(s)
          BY <2>n, <5>2
        <5>4. i \in 1 .. Len(c) /\ i + 1 \in 1 .. Len(c)
          BY <5>1
        <5>5. (i + 1) + k = Len(a) + (j + 1) + 1
          BY <2>n, <4>1, <5>1
        <5> QED BY <5>2, <5>3, <5>4, <5>5
      <4>2. c[i] = s[j] /\ c[i + 1] = s[j + 1]
        BY <2>8, <4>1, <4>1a
      <4>3. par2[s[j + 1]] = par[s[j + 1]] /\ par[s[j + 1]] = s[j]
        BY <2>5, <2>10, <4>1a
      <4> QED BY <4>2, <4>3
    <3> QED BY <1>3, <2>9, <3>1, <3>2, <3>3
  <2>13. Way(par2, c, m)
    <3>1. c # <<>>
      BY <1>3, <2>3, <2>5, <2>9, EmptySeq
    <3> QED BY <2>7, <2>11, <2>12, <3>1 DEF Way, LeadsTo
  <2>14. On(c) \subseteq On(a) \cup On(s)
    <3> SUFFICES ASSUME NEW i \in 1 .. Len(c) PROVE c[i] \in On(a) \cup On(s)
      BY DEF On
    <3>1. CASE i <= Len(a)
      <4>1. i \in 1 .. Len(a)
        BY <3>1, <1>3
      <4> QED BY <2>8, <4>1 DEF On
    <3>2. CASE i > Len(a)
      <4>1. PICK j \in Nat : i + k = Len(a) + j + 1
        <5>1. k + (i - Len(a)) - 1 \in Nat /\ i + k = Len(a) + (k + (i - Len(a)) - 1) + 1
          BY <2>n, <2>9, <3>2
        <5> QED BY <5>1
      <4>2. j \in k .. Len(s) /\ j \in 1 .. Len(s)
        BY <2>n, <2>9, <3>2, <4>1
      <4> QED BY <2>8, <4>1, <4>2 DEF On
    <3> QED BY <1>3, <2>9, <3>1, <3>2
  <2> QED BY <2>2, <2>7, <2>9, <2>13, <2>14 DEF s
<1>6. ASSUME NEW m \in Node, m \notin moved
      PROVE  /\ pth2[m] = pth[m] /\ par2[m] = par[m]
             /\ par[m] # Absent => Way(par2, pth[m], m) /\ Len(pth[m]) <= MaxDepth
  <2>1. pth2[m] = pth[m]
    BY <1>0, <1>6
  <2>2. n \in moved
    <3>1. IsPrefix(pth[n], pth[n])
      BY <1>3 DEF IsPrefix
    <3> QED BY <1>0, <3>1, PrefixIsAncestry
  <2>3. par2[m] = par[m]
    BY <1>1, <1>6, <2>2
  <2>4. ASSUME par[m] # Absent PROVE Way(par2, pth[m], m) /\ Len(pth[m]) <= MaxDepth
    <3>1. Way(par, pth[m], m) /\ Len(pth[m]) <= MaxDepth
      BY <2>4 DEF TreeRows
    <3>2. \A i \in 1 .. Len(pth[m]) : pth[m][i] # n /\ pth[m][i] \in Node
      BY <1>0, <1>6, <2>4, <3>1, OnTheWay DEF On
    <3> QED BY <1>1, <3>1, <3>2, WayKept
  <2> QED BY <2>1, <2>3, <2>4
<1>7. \A m \in moved : m \in Node /\ par2[m] # Absent
  BY <1>0, <1>1, DistinctAssumption
<1>8. pth2 \in [Node -> Seq(Node)]
  <2>1. \A m \in Node : pth2[m] \in Seq(Node)
    BY <1>5, <1>6 DEF TreeRows
  <2> QED BY <1>0, <2>1
<1>9. \A m \in Node : par2[m] # Absent => Way(par2, pth2[m], m) /\ Len(pth2[m]) <= MaxDepth
  BY <1>5, <1>6
<1>10. \A m \in Node : par2[m] = Absent => pth2[m] = <<>>
  BY <1>6, <1>7 DEF TreeRows
<1>11. \A j, m \in Node : par2[j] = NoParent /\ par2[m] = NoParent => j = m
  BY <1>1, DistinctAssumption DEF TreeRows
<1>12. TreeRows(par2, pth2)
  BY <1>1, <1>8, <1>9, <1>10, <1>11 DEF TreeRows
<1> QED BY <1>5, <1>12 DEF a

-----------------------------------------------------------------------------
(* The steps that change the rows.                                           *)
LEMMA TreeEnded ==
    ASSUME RequestsTyped, NEW t \in TreeTxs, End(t), overtaken' \in SUBSET TreeTxs
    PROVE  /\ RequestsTyped' /\ treeTx'[t] = TreeIdle /\ RequestOk(t)'
           /\ \A u \in TreeTxs \ {t} :
                 /\ treeTx'[u] = treeTx[u]
                 /\ IsInserting(u)' <=> IsInserting(u)
                 /\ IsAttaching(u)' <=> IsAttaching(u)
                 /\ IsMoving(u)' <=> IsMoving(u)
                 /\ Moved(u)' = Moved(u)
<1>1. /\ treeTx \in [TreeTxs -> {TreeIdle} \cup InsertRec \cup RemoveRec \cup RetryRec \cup MoveRec]
      /\ treeTx' = [treeTx EXCEPT ![t] = TreeIdle]
  BY DEF RequestsTyped, End
<1>2. /\ treeTx' \in [TreeTxs -> {TreeIdle} \cup InsertRec \cup RemoveRec \cup RetryRec \cup MoveRec]
      /\ treeTx'[t] = TreeIdle /\ \A u \in TreeTxs \ {t} : treeTx'[u] = treeTx[u]
  BY <1>1
<1>3. RequestsTyped'
  BY <1>2 DEF RequestsTyped, InsertRec, RemoveRec, RetryRec, MoveRec, TreeIdle, Parents
<1>4. RequestOk(t)'
  <2>1. treeTx'[t].pc = "idle"
    BY <1>2 DEF TreeIdle
  <2> QED BY <2>1, RestIsOk
<1>5. ASSUME NEW u \in TreeTxs \ {t}
      PROVE  /\ IsInserting(u)' <=> IsInserting(u)
             /\ IsAttaching(u)' <=> IsAttaching(u)
             /\ IsMoving(u)' <=> IsMoving(u)
             /\ Moved(u)' = Moved(u)
  <2>1. treeTx'[u] = treeTx[u]
    BY <1>2
  <2> QED BY <2>1 DEF IsInserting, IsAttaching, IsMoving, Moved, Subtree
<1> QED BY <1>2, <1>3, <1>4, <1>5

(* Another's request after a commit: what is to be inserted is still absent, *)
(* the place a request goes to is as it was unless it has been overtaken or  *)
(* the place is gone, and what is locked is untouched.                       *)
LEMMA OthersAfter ==
    ASSUME RequestsTyped, \A v \in TreeTxs : RequestOk(v),
           NEW t \in TreeTxs, End(t), overtaken \in SUBSET overtaken', overtaken' \in SUBSET TreeTxs,
           NEW u \in TreeTxs \ {t},
           IsInserting(u) => ~Present(treeTx[u].node)',
           IsInserting(u) /\ u \notin overtaken' =>
               /\ treeTx[u].under = NoParent => \A m \in Node : parent'[m] # NoParent
               /\ treeTx[u].under # NoParent /\ Present(treeTx[u].under)' =>
                      Present(treeTx[u].under) /\ path'[treeTx[u].under] = path[treeTx[u].under],
           IsMoving(u) /\ u \notin overtaken' =>
               /\ Present(treeTx[u].under)' =>
                      Present(treeTx[u].under) /\ path'[treeTx[u].under] = path[treeTx[u].under]
               /\ Beneath(treeTx[u].node)' \subseteq Moved(u),
           treeTx[u].pc = "committing" =>
               /\ Present(treeTx[u].under)'
               /\ \A m \in Moved(u) : parent'[m] = parent[m] /\ path'[m] = path[m]
    PROVE  RequestOk(u)'
<1>1. /\ treeTx'[t].pc = "idle" /\ treeTx'[u] = treeTx[u]
      /\ IsInserting(u)' <=> IsInserting(u)
      /\ IsMoving(u)' <=> IsMoving(u)
      /\ Moved(u)' = Moved(u)
      /\ u \notin overtaken' => u \notin overtaken
  BY TreeEnded DEF TreeIdle
<1>2. RequestOk(u)
  OBVIOUS
<1>3. ASSUME NEW v \in TreeTxs, v # t
      PROVE  /\ treeTx'[v] = treeTx[v]
             /\ IsInserting(v)' <=> IsInserting(v)
             /\ IsAttaching(v)' <=> IsAttaching(v)
             /\ IsMoving(v)' <=> IsMoving(v)
             /\ Moved(v)' = Moved(v)
  BY <1>3, TreeEnded
<1>4. ~IsInserting(t)' /\ ~IsAttaching(t)' /\ ~IsMoving(t)'
  BY <1>1 DEF IsInserting, IsAttaching, IsMoving
<1>5. ComesNew(u)'
  <2> SUFFICES ASSUME IsInserting(u) PROVE ComesNew(u)'
    BY <1>1 DEF ComesNew
  <2>1. ~Present(treeTx[u].node)'
    OBVIOUS
  <2>2. ASSUME NEW v \in TreeTxs
        PROVE  /\ IsInserting(v)' /\ treeTx'[v].node = treeTx[u].node => v = u
               /\ IsAttaching(v)' => treeTx'[v].under # treeTx[u].node
               /\ IsMoving(v)' => treeTx'[v].path[treeTx[u].node] = <<>>
    <3>1. CASE v = t
      BY <1>4, <3>1
    <3>2. CASE v # t
      BY <1>2, <1>3, <3>2 DEF RequestOk, ComesNew
    <3> QED BY <3>1, <3>2
  <2> QED BY <1>1, <2>1, <2>2 DEF ComesNew
<1>6. Fits(u)'
  BY <1>1, <1>2 DEF RequestOk, Fits
<1>7. WasMovable(u)'
  BY <1>1, <1>2 DEF RequestOk, WasMovable
<1>8. AsRead(u)'
  <2> SUFFICES ASSUME IsMoving(u), u \notin overtaken' PROVE AsRead(u)'
    BY <1>1 DEF AsRead
  <2>1. Present(treeTx[u].under)' => path'[treeTx[u].under] = treeTx[u].path[treeTx[u].under]
    BY <1>1, <1>2 DEF RequestOk, AsRead
  <2> QED BY <1>1, <2>1 DEF AsRead
<1>9. Locked(u)'
  <2> SUFFICES ASSUME treeTx[u].pc = "committing" PROVE Locked(u)'
    BY <1>1 DEF Locked
  <2>1. \A m \in Moved(u) : parent'[m] = treeTx[u].parent[m] /\ path'[m] = treeTx[u].path[m]
    BY <1>2 DEF RequestOk, Locked
  <2>2. ASSUME NEW v \in TreeTxs \ {u}, treeTx'[v].pc = "committing" PROVE Moved(u) \cap Moved(v)' = {}
    <3>1. v # t
      BY <1>1, <2>2
    <3> QED BY <1>2, <1>3, <2>2, <3>1 DEF RequestOk, Locked
  <2>3. Present(treeTx[u].under)'
    OBVIOUS
  <2> QED BY <1>1, <2>1, <2>2, <2>3 DEF Locked
<1> QED BY <1>5, <1>6, <1>7, <1>8, <1>9 DEF RequestOk

(* A request that commits and has not been overtaken: the rows are a tree    *)
(* again, one step of the forest away.                                       *)
LEMMA CreateCommitted ==
    ASSUME TreeSound, NEW t \in TreeTxs, t \notin overtaken, CommitCreate(t)
    PROVE  TreeSound' /\ Forest!Next
<1> DEFINE n == treeTx[t].node
           p == treeTx[t].under
           q == treeTx[t].new
<1>1. RequestsTyped /\ TreeRows(parent, path) /\ \A u \in TreeTxs : RequestOk(u)
  BY DEF TreeSound
<1>2. /\ IsInserting(t) /\ (p # NoParent => Present(p))
      /\ parent' = [parent EXCEPT ![n] = p] /\ path' = [path EXCEPT ![n] = q]
      /\ overtaken' = overtaken \cup Overtakes(t) /\ End(t)
  BY DEF CommitCreate, IsInserting
<1>3. n \in Node /\ p \in Node \cup {NoParent} /\ q \in Seq(Node)
  BY <1>1, <1>2, KindsOfRequest DEF InsertRec
<1>4. /\ ~Present(n) /\ p # n
      /\ \A u \in TreeTxs : /\ IsInserting(u) /\ treeTx[u].node = n => u = t
                            /\ IsAttaching(u) => treeTx[u].under # n
                            /\ IsMoving(u) => treeTx[u].path[n] = <<>>
  BY <1>1, <1>2 DEF RequestOk, ComesNew, IsAttaching, IsInserting
<1>5. /\ p = NoParent => q = <<n>> /\ \A m \in Node : parent[m] # NoParent
      /\ p # NoParent => Present(p) /\ q = Append(path[p], n) /\ Len(path[p]) + 1 <= MaxDepth
  BY <1>1, <1>2 DEF RequestOk, Fits
<1>6. overtaken \in SUBSET overtaken' /\ overtaken' \in SUBSET TreeTxs
  BY <1>1, <1>2 DEF RequestsTyped, Overtakes
<1>o. ASSUME NEW u \in TreeTxs \ {t}, u \notin overtaken'
      PROVE  /\ u \notin overtaken
             /\ IsMoving(u) => p \notin Moved(u)
             /\ IsInserting(u) => ~(treeTx[u].under = NoParent /\ p = NoParent)
  BY <1>2, <1>o DEF Overtakes, IsInserting
<1> HIDE DEF n, p, q
<1>7. TreeRows(parent', path')
  <2>1. TreeRows([parent EXCEPT ![n] = p], [path EXCEPT ![n] = q])
    BY <1>1, <1>3, <1>4, <1>5, LeafAdded DEF Present
  <2> QED BY <1>2, <2>1
<1>8. /\ parent'[n] = p /\ path'[n] = q
      /\ \A m \in Node : m # n => parent'[m] = parent[m] /\ path'[m] = path[m]
  BY <1>1, <1>2, <1>3 DEF TreeRows
<1>9. ASSUME NEW u \in TreeTxs \ {t} PROVE RequestOk(u)'
  <2>0. treeTx'[u] = treeTx[u]
    BY <1>1, <1>2, <1>6, TreeEnded
  <2>1. IsInserting(u) => treeTx[u] \in InsertRec
    BY <1>1, KindsOfRequest
  <2>2. IsMoving(u) => treeTx[u] \in MoveRec
    BY <1>1, KindsOfRequest
  <2>3. ASSUME IsInserting(u) PROVE ~Present(treeTx[u].node)'
    <3>1. treeTx[u].node \in Node /\ treeTx[u].node # n /\ ~Present(treeTx[u].node)
      BY <1>1, <1>4, <2>1, <2>3 DEF InsertRec, RequestOk, ComesNew
    <3> QED BY <1>8, <2>0, <3>1 DEF Present
  <2>4. ASSUME IsAttaching(u), treeTx[u].under # NoParent
        PROVE  /\ treeTx[u].under \in Node
               /\ parent'[treeTx[u].under] = parent[treeTx[u].under]
               /\ path'[treeTx[u].under] = path[treeTx[u].under]
    <3>1. treeTx[u].under \in Node
      BY <2>1, <2>2, <2>4 DEF IsAttaching, IsInserting, InsertRec, MoveRec
    <3> QED BY <1>4, <1>8, <2>4, <3>1
  <2>5. ASSUME IsInserting(u), u \notin overtaken', treeTx[u].under = NoParent
        PROVE  \A m \in Node : parent'[m] # NoParent
    <3>1. \A m \in Node : parent[m] # NoParent
      BY <1>1, <1>o, <2>5 DEF RequestOk, Fits
    <3>2. p # NoParent
      BY <1>o, <2>5
    <3> QED BY <1>8, <3>1, <3>2
  <2>6. ASSUME IsMoving(u), u \notin overtaken' PROVE Beneath(treeTx[u].node)' \subseteq Moved(u)
    <3> DEFINE top == treeTx[u].node
    <3>1. Beneath(top) \subseteq Moved(u)
      BY <1>1, <1>o, <2>6 DEF RequestOk, AsRead
    <3>2. top # n
      BY <1>1, <1>4, <2>6 DEF RequestOk, WasMovable
    <3>3. (p \in Node /\ Present(p)) => top \notin On(path[p])
      BY <1>o, <2>6, <3>1 DEF Beneath
    <3> HIDE DEF top
    <3>4. top \notin On(q)
      <4>1. CASE p = NoParent
        <5>1. Len(<<n>>) = 1 /\ <<n>>[1] = n
          OBVIOUS
        <5>2. On(<<n>>) = {n}
          BY <5>1 DEF On
        <5> QED BY <1>5, <3>2, <4>1, <5>2
      <4>2. CASE p # NoParent
        <5> DEFINE s == path[p]
        <5>1. s \in Seq(Node) /\ q = Append(s, n) /\ top \notin On(s)
          BY <1>1, <1>3, <1>5, <3>3, <4>2 DEF TreeRows
        <5> HIDE DEF s
        <5>2. /\ Len(s) \in Nat /\ Len(q) = Len(s) + 1 /\ q[Len(s) + 1] = n
              /\ \A i \in 1 .. Len(s) : q[i] = s[i]
          BY <1>3, <5>1, AppendProperties
        <5>3. ASSUME NEW i \in 1 .. Len(q) PROVE q[i] # top
          <6>1. CASE i = Len(s) + 1
            BY <3>2, <5>2, <6>1
          <6>2. CASE i # Len(s) + 1
            <7>1. i \in 1 .. Len(s)
              BY <5>2, <6>2
            <7> QED BY <5>1, <5>2, <7>1 DEF On
          <6> QED BY <6>1, <6>2
        <5> QED BY <5>3 DEF On
      <4> QED BY <4>1, <4>2
    <3>5. ASSUME NEW m \in Node, parent'[m] # Absent, top \in On(path'[m]) PROVE m \in Moved(u)
      <4>1. m # n
        BY <1>8, <3>4, <3>5
      <4>2. m \in Beneath(top)
        BY <1>8, <3>5, <4>1 DEF Beneath, Present
      <4> QED BY <3>1, <4>2
    <3> QED BY <2>0, <3>5 DEF Beneath, Present, On, top
  <2>7. ASSUME treeTx[u].pc = "committing"
        PROVE  /\ Present(treeTx[u].under)'
               /\ \A m \in Moved(u) : parent'[m] = parent[m] /\ path'[m] = path[m]
    <3>1. IsMoving(u) /\ IsAttaching(u) /\ treeTx[u].under # NoParent
      BY <2>2, <2>7, DistinctAssumption DEF IsMoving, IsAttaching, MoveRec
    <3>2. Present(treeTx[u].under)'
      BY <1>1, <2>0, <2>4, <2>7, <3>1 DEF RequestOk, Locked, Present
    <3>3. \A m \in Moved(u) : m \in Node /\ m # n
      BY <1>4, <3>1 DEF Moved, Subtree
    <3> QED BY <1>8, <3>2, <3>3
  <2>8. IsInserting(u) /\ u \notin overtaken' =>
               /\ treeTx[u].under = NoParent => \A m \in Node : parent'[m] # NoParent
               /\ treeTx[u].under # NoParent /\ Present(treeTx[u].under)' =>
                      Present(treeTx[u].under) /\ path'[treeTx[u].under] = path[treeTx[u].under]
    BY <2>0, <2>4, <2>5 DEF IsAttaching, IsInserting, Present
  <2>9. IsMoving(u) /\ u \notin overtaken' =>
               /\ Present(treeTx[u].under)' =>
                      Present(treeTx[u].under) /\ path'[treeTx[u].under] = path[treeTx[u].under]
               /\ Beneath(treeTx[u].node)' \subseteq Moved(u)
    BY <2>0, <2>2, <2>4, <2>6, DistinctAssumption DEF IsAttaching, Present, MoveRec
  <2> QED BY <1>1, <1>2, <1>6, <2>3, <2>7, <2>8, <2>9, OthersAfter
<1>10. TreeSound'
  <2>1. RequestsTyped' /\ RequestOk(t)'
    BY <1>1, <1>2, <1>6, TreeEnded
  <2>2. TreeRows(parent, path)'
    BY <1>7 DEF TreeRows, Way, LeadsTo, Parents
  <2> QED BY <1>9, <2>1, <2>2 DEF TreeSound
<1>11. Forest!Next
  <2>1. CASE p = NoParent
    <3>1. Forest!AddRoot(n)
      BY <1>2, <1>4, <1>5, <2>1 DEF Forest!AddRoot, Forest!Present, Forest!Roots, Present
    <3> QED BY <1>3, <3>1 DEF Forest!Next
  <2>2. CASE p # NoParent
    <3>1. p \in Node /\ Present(p) /\ Len(path[p]) + 1 <= MaxDepth
      BY <1>3, <1>5, <2>2
    <3>2. Way(parent, path[p], p) /\ Len(path[p]) \in Nat
      BY <1>1, <3>1, WayIs DEF TreeRows, Present
    <3>3. Forest!Depth(parent, p) < MaxDepth
      BY <3>1, <3>2, DepthIsLength, DepthAssumption
    <3>4. Forest!AddChild(n, p)
      BY <1>2, <1>3, <1>4, <3>1, <3>3 DEF Forest!AddChild, Forest!Present, Present
    <3> QED BY <1>3, <3>1, <3>4 DEF Forest!Next
  <2> QED BY <2>1, <2>2
<1> QED BY <1>10, <1>11

(* A DELETE overtakes no request: nothing is beneath what it removes.        *)
LEMMA RemoveCommitted ==
    ASSUME TreeSound, NEW t \in TreeTxs, CommitTreeRemove(t)
    PROVE  TreeSound' /\ (parent' # parent => Forest!Next)
<1> DEFINE n == treeTx[t].node
<1>1. RequestsTyped /\ TreeRows(parent, path) /\ \A u \in TreeTxs : RequestOk(u)
  BY DEF TreeSound
<1>2. /\ treeTx[t].pc = "deleting"
      /\ \A u \in TreeTxs : treeTx[u].pc = "committing" => n # treeTx[u].under /\ n \notin Moved(u)
      /\ \A m \in Node : parent[m] # n
      /\ parent' = [parent EXCEPT ![n] = Absent] /\ path' = [path EXCEPT ![n] = <<>>]
      /\ End(t) /\ overtaken' = overtaken
  BY DEF CommitTreeRemove
<1>3. n \in Node
  BY <1>1, <1>2, KindsOfRequest DEF RemoveRec
<1>4. overtaken \in SUBSET overtaken' /\ overtaken' \in SUBSET TreeTxs
  BY <1>1, <1>2 DEF RequestsTyped
<1> HIDE DEF n
<1>5. TreeRows(parent', path')
  <2>1. TreeRows([parent EXCEPT ![n] = Absent], [path EXCEPT ![n] = <<>>])
    BY <1>1, <1>2, <1>3, LeafRemoved
  <2> QED BY <1>2, <2>1
<1>6. /\ parent'[n] = Absent /\ path'[n] = <<>>
      /\ \A m \in Node : m # n => parent'[m] = parent[m] /\ path'[m] = path[m]
  BY <1>1, <1>2, <1>3 DEF TreeRows
<1>7. ASSUME NEW u \in TreeTxs \ {t} PROVE RequestOk(u)'
  <2>1. treeTx'[u] = treeTx[u]
    BY <1>1, <1>2, <1>4, TreeEnded
  <2>2. IsInserting(u) => treeTx[u] \in InsertRec
    BY <1>1, KindsOfRequest
  <2>3. IsMoving(u) => treeTx[u] \in MoveRec
    BY <1>1, KindsOfRequest
  <2>4. ASSUME IsInserting(u) PROVE ~Present(treeTx[u].node)'
    <3>1. treeTx[u].node \in Node /\ ~Present(treeTx[u].node)
      BY <1>1, <2>2, <2>4 DEF InsertRec, RequestOk, ComesNew
    <3> QED BY <1>6, <2>1, <3>1 DEF Present
  <2>5. ASSUME IsAttaching(u), treeTx[u].under # NoParent, Present(treeTx[u].under)'
        PROVE  Present(treeTx[u].under) /\ path'[treeTx[u].under] = path[treeTx[u].under]
    <3>1. treeTx[u].under \in Node
      BY <2>2, <2>3, <2>5 DEF IsAttaching, IsInserting, InsertRec, MoveRec
    <3>2. treeTx[u].under # n
      BY <1>6, <2>1, <2>5 DEF Present
    <3> QED BY <1>6, <2>1, <2>5, <3>1, <3>2 DEF Present
  <2>6. ASSUME IsInserting(u), u \notin overtaken', treeTx[u].under = NoParent
        PROVE  \A m \in Node : parent'[m] # NoParent
    <3>1. \A m \in Node : parent[m] # NoParent
      BY <1>1, <1>2, <2>6 DEF RequestOk, Fits
    <3> QED BY <1>6, <3>1, DistinctAssumption
  <2>7. ASSUME IsMoving(u), u \notin overtaken' PROVE Beneath(treeTx[u].node)' \subseteq Moved(u)
    <3> DEFINE top == treeTx[u].node
    <3>1. Beneath(top) \subseteq Moved(u)
      BY <1>1, <1>2, <2>7 DEF RequestOk, AsRead
    <3> HIDE DEF top
    <3>2. ASSUME NEW m \in Node, parent'[m] # Absent, top \in On(path'[m]) PROVE m \in Moved(u)
      <4>1. m # n
        BY <1>6, <3>2
      <4>2. m \in Beneath(top)
        BY <1>6, <3>2, <4>1 DEF Beneath, Present
      <4> QED BY <3>1, <4>2
    <3> QED BY <2>1, <3>2 DEF Beneath, Present, On, top
  <2>8. ASSUME treeTx[u].pc = "committing"
        PROVE  /\ Present(treeTx[u].under)'
               /\ \A m \in Moved(u) : parent'[m] = parent[m] /\ path'[m] = path[m]
    <3>1. treeTx[u].under \in Node
      BY <2>3, <2>8 DEF IsMoving, MoveRec
    <3>2. n # treeTx[u].under /\ n \notin Moved(u)
      BY <1>2, <2>8
    <3>3. Present(treeTx[u].under)'
      BY <1>1, <1>6, <2>1, <2>8, <3>1, <3>2 DEF RequestOk, Locked, Present
    <3>4. \A m \in Moved(u) : m \in Node /\ m # n
      BY <3>2 DEF Moved, Subtree
    <3> QED BY <1>6, <3>3, <3>4
  <2>9. IsInserting(u) /\ u \notin overtaken' =>
               /\ treeTx[u].under = NoParent => \A m \in Node : parent'[m] # NoParent
               /\ treeTx[u].under # NoParent /\ Present(treeTx[u].under)' =>
                      Present(treeTx[u].under) /\ path'[treeTx[u].under] = path[treeTx[u].under]
    BY <2>5, <2>6 DEF IsAttaching, IsInserting
  <2>10. IsMoving(u) /\ u \notin overtaken' =>
               /\ Present(treeTx[u].under)' =>
                      Present(treeTx[u].under) /\ path'[treeTx[u].under] = path[treeTx[u].under]
               /\ Beneath(treeTx[u].node)' \subseteq Moved(u)
    BY <2>3, <2>5, <2>7, DistinctAssumption DEF IsAttaching, MoveRec
  <2> QED BY <1>1, <1>2, <1>4, <2>4, <2>8, <2>9, <2>10, OthersAfter
<1>8. TreeSound'
  <2>1. RequestsTyped' /\ RequestOk(t)'
    BY <1>1, <1>2, <1>4, TreeEnded
  <2>2. TreeRows(parent, path)'
    BY <1>5 DEF TreeRows, Way, LeadsTo, Parents
  <2> QED BY <1>7, <2>1, <2>2 DEF TreeSound
<1>9. ASSUME parent' # parent PROVE Forest!Next
  <2>1. Present(n)
    BY <1>1, <1>2, <1>3, <1>9 DEF TreeRows, Present
  <2>2. Forest!RemoveLeaf(n)
    BY <1>2, <1>3, <2>1 DEF Forest!RemoveLeaf, Forest!Present, Present
  <2> QED BY <1>3, <2>2 DEF Forest!Next
<1> QED BY <1>8, <1>9

(* A move not overtaken rewrites the rows that are beneath the node now.     *)
LEMMA MoveCommitted ==
    ASSUME TreeSound, NEW t \in TreeTxs, t \notin overtaken, CommitTreeMove(t)
    PROVE  TreeSound' /\ Forest!Next
<1> DEFINE n == treeTx[t].node
           p == treeTx[t].under
           old == treeTx[t].path
           moved == Moved(t)
<1>1. RequestsTyped /\ TreeRows(parent, path) /\ \A u \in TreeTxs : RequestOk(u)
  BY DEF TreeSound
<1>2. /\ treeTx[t].pc = "committing" /\ IsMoving(t)
      /\ parent' = [parent EXCEPT ![n] = p]
      /\ path' = [m \in Node |-> IF m \in moved
                      THEN old[p] \o SubSeq(old[m], Len(old[n]), Len(old[m])) ELSE path[m]]
      /\ overtaken' = overtaken \cup Overtakes(t) /\ End(t)
  BY DEF CommitTreeMove, IsMoving, Rewrite
<1>3. n \in Node /\ p \in Node /\ old \in [Node -> Seq(Node)] /\ moved \subseteq Node
  BY <1>1, <1>2, KindsOfRequest DEF MoveRec, Moved, Subtree
<1>4. /\ old[n] # <<>> /\ ~IsPrefix(old[n], old[p])
      /\ \A m \in moved : Len(old[p]) + Len(old[m]) + 1 <= MaxDepth + Len(old[n])
  BY <1>1, <1>2 DEF RequestOk, WasMovable
<1>5. /\ Present(p) /\ path[p] = old[p]
      /\ Beneath(n) \subseteq moved
      /\ \A m \in moved : path[m] = old[m]
      /\ \A u \in TreeTxs \ {t} : treeTx[u].pc = "committing" => moved \cap Moved(u) = {}
  BY <1>1, <1>2 DEF RequestOk, AsRead, Locked
<1>6. overtaken \in SUBSET overtaken' /\ overtaken' \in SUBSET TreeTxs
  BY <1>1, <1>2 DEF RequestsTyped, Overtakes
<1>o. ASSUME NEW u \in TreeTxs \ {t}, u \notin overtaken'
      PROVE  /\ u \notin overtaken
             /\ IsAttaching(u) => treeTx[u].under \notin moved
             /\ IsMoving(u) => p \notin Moved(u)
  BY <1>2, <1>o DEF Overtakes
<1>7. \A m \in Node : m \in moved <=> old[m] # <<>> /\ IsPrefix(old[n], old[m])
  BY DEF Moved, Subtree
<1> HIDE DEF n, p, old, moved
<1>8. n \in moved /\ path[n] = old[n] /\ Present(n)
  <2>1. Len(old[n]) \in Nat /\ SubSeq(old[n], 1, Len(old[n])) = old[n]
    BY <1>3, SubSeqFull, LenProperties
  <2>2. IsPrefix(old[n], old[n])
    BY <2>1 DEF IsPrefix
  <2>3. n \in moved /\ path[n] = old[n]
    BY <1>3, <1>4, <1>5, <1>7, <2>2
  <2> QED BY <1>1, <1>3, <1>4, <2>3 DEF TreeRows, Present
(* What it moves is what is beneath the node now.                            *)
<1>9. moved = {m \in Node : parent[m] # Absent /\ n \in On(path[m])}
  <2>1. ASSUME NEW m \in moved PROVE parent[m] # Absent /\ n \in On(path[m])
    <3>1. m \in Node /\ path[m] # <<>> /\ IsPrefix(path[n], path[m])
      BY <1>3, <1>5, <1>7, <1>8
    <3>2. parent[m] # Absent
      BY <1>1, <3>1 DEF TreeRows
    <3> QED BY <1>1, <1>3, <1>8, <3>1, <3>2, PrefixIsAncestry DEF Present
  <2> QED BY <1>3, <1>5, <2>1 DEF Beneath, Present
<1>10. n \notin On(path[p])
  BY <1>1, <1>3, <1>4, <1>5, <1>8, PrefixIsAncestry DEF Present
<1>11. \A m \in moved : Len(path[p]) + Len(path[m]) + 1 <= MaxDepth + Len(path[n])
  BY <1>4, <1>5, <1>8
<1>12. path' = [m \in Node |-> IF m \in moved
                   THEN path[p] \o SubSeq(path[m], Len(path[n]), Len(path[m])) ELSE path[m]]
  BY <1>2, <1>5, <1>8
<1>13. /\ TreeRows(parent', path')
       /\ \A m \in moved : On(path'[m]) \subseteq On(path[p]) \cup On(path[m])
  <2>1. TreeRows(parent, path) /\ parent[n] # Absent /\ parent[p] # Absent /\ n \in Node /\ p \in Node
    BY <1>1, <1>3, <1>5, <1>8 DEF Present
  <2>2. moved = HangingFrom(parent, path, n)
    BY <1>9 DEF HangingFrom
  <2>3. path' = Rehung(parent, path, n, p)
    BY <1>12, <2>2 DEF Rehung
  <2>4. \A m \in HangingFrom(parent, path, n) : Len(path[p]) + Len(path[m]) + 1 <= MaxDepth + Len(path[n])
    BY <1>11, <2>2
  <2>5. /\ TreeRows([parent EXCEPT ![n] = p], Rehung(parent, path, n, p))
        /\ \A m \in HangingFrom(parent, path, n) :
              On(Rehung(parent, path, n, p)[m]) \subseteq On(path[p]) \cup On(path[m])
    BY <1>10, <2>1, <2>4, SubtreeMoved
  <2> QED BY <1>2, <2>2, <2>3, <2>5
<1>14. /\ parent'[n] = p /\ \A m \in Node : m # n => parent'[m] = parent[m]
       /\ \A m \in Node : m \notin moved => path'[m] = path[m]
  BY <1>1, <1>2, <1>3 DEF TreeRows
<1>15. ASSUME NEW u \in TreeTxs \ {t} PROVE RequestOk(u)'
  <2>1. treeTx'[u] = treeTx[u]
    BY <1>1, <1>2, <1>6, TreeEnded
  <2>2. IsInserting(u) => treeTx[u] \in InsertRec
    BY <1>1, KindsOfRequest
  <2>3. IsMoving(u) => treeTx[u] \in MoveRec
    BY <1>1, KindsOfRequest
  <2>4. ASSUME IsInserting(u) PROVE ~Present(treeTx[u].node)'
    <3>1. treeTx[u].node \in Node /\ ~Present(treeTx[u].node) /\ treeTx[u].node # n
      BY <1>1, <1>8, <2>2, <2>4 DEF InsertRec, RequestOk, ComesNew
    <3> QED BY <1>14, <2>1, <3>1 DEF Present
  <2>5. ASSUME IsAttaching(u), u \notin overtaken', treeTx[u].under # NoParent, Present(treeTx[u].under)'
        PROVE  Present(treeTx[u].under) /\ path'[treeTx[u].under] = path[treeTx[u].under]
    <3>1. treeTx[u].under \in Node
      BY <2>2, <2>3, <2>5 DEF IsAttaching, IsInserting, InsertRec, MoveRec
    <3>2. treeTx[u].under \notin moved /\ treeTx[u].under # n
      BY <1>o, <1>8, <2>5
    <3> QED BY <1>14, <2>1, <2>5, <3>1, <3>2 DEF Present
  <2>6. ASSUME IsInserting(u), u \notin overtaken', treeTx[u].under = NoParent
        PROVE  \A m \in Node : parent'[m] # NoParent
    <3>1. \A m \in Node : parent[m] # NoParent
      BY <1>1, <1>o, <2>6 DEF RequestOk, Fits
    <3> QED BY <1>3, <1>14, <3>1, DistinctAssumption
  <2>7. ASSUME IsMoving(u), u \notin overtaken' PROVE Beneath(treeTx[u].node)' \subseteq Moved(u)
    <3> DEFINE top == treeTx[u].node
    <3>1. Beneath(top) \subseteq Moved(u)
      BY <1>1, <1>o, <2>7 DEF RequestOk, AsRead
    <3>2. top \notin On(path[p])
      BY <1>o, <1>3, <1>5, <2>7, <3>1 DEF Beneath
    <3> HIDE DEF top
    <3>3. ASSUME NEW m \in Node, parent'[m] # Absent, top \in On(path'[m]) PROVE m \in Moved(u)
      <4>1. parent[m] # Absent
        BY <1>8, <1>14, <3>3 DEF Present
      <4>2. top \in On(path[m])
        <5>1. CASE m \in moved
          BY <1>13, <3>2, <3>3, <5>1
        <5>2. CASE m \notin moved
          BY <1>14, <3>3, <5>2
        <5> QED BY <5>1, <5>2
      <4> QED BY <3>1, <4>1, <4>2 DEF Beneath, Present
    <3> QED BY <2>1, <3>3 DEF Beneath, Present, On, top
  <2>8. ASSUME treeTx[u].pc = "committing"
        PROVE  /\ Present(treeTx[u].under)'
               /\ \A m \in Moved(u) : parent'[m] = parent[m] /\ path'[m] = path[m]
    <3>1. treeTx[u].under \in Node
      BY <2>3, <2>8 DEF IsMoving, MoveRec
    <3>2. Present(treeTx[u].under)
      BY <1>1, <2>8 DEF RequestOk, Locked
    <3>3. Present(treeTx[u].under)'
      BY <1>3, <1>14, <2>1, <3>1, <3>2, DistinctAssumption DEF Present
    <3>4. \A m \in Moved(u) : m \in Node /\ m # n /\ m \notin moved
      BY <1>5, <1>8, <2>8 DEF Moved, Subtree
    <3> QED BY <1>14, <3>3, <3>4
  <2>9. IsInserting(u) /\ u \notin overtaken' =>
               /\ treeTx[u].under = NoParent => \A m \in Node : parent'[m] # NoParent
               /\ treeTx[u].under # NoParent /\ Present(treeTx[u].under)' =>
                      Present(treeTx[u].under) /\ path'[treeTx[u].under] = path[treeTx[u].under]
    BY <2>5, <2>6 DEF IsAttaching, IsInserting
  <2>10. IsMoving(u) /\ u \notin overtaken' =>
               /\ Present(treeTx[u].under)' =>
                      Present(treeTx[u].under) /\ path'[treeTx[u].under] = path[treeTx[u].under]
               /\ Beneath(treeTx[u].node)' \subseteq Moved(u)
    BY <2>3, <2>5, <2>7, DistinctAssumption DEF IsAttaching, MoveRec
  <2> QED BY <1>1, <1>2, <1>6, <2>4, <2>8, <2>9, <2>10, OthersAfter
<1>16. TreeSound'
  <2>1. RequestsTyped' /\ RequestOk(t)'
    BY <1>1, <1>2, <1>6, TreeEnded
  <2>2. TreeRows(parent, path)'
    BY <1>13 DEF TreeRows, Way, LeadsTo, Parents
  <2> QED BY <1>15, <2>1, <2>2 DEF TreeSound
<1>17. Forest!Next
  <2>1. Forest!Upwards(parent, p) = On(path[p])
    BY <1>1, <1>3, <1>5, Above DEF TreeRows, Present
  <2>2. Forest!IsTree(parent')
    BY <1>13, RowsAreATree
  <2>3. Forest!Reparent(n, p)
    BY <1>2, <1>3, <1>5, <1>8, <1>10, <2>1, <2>2 DEF Forest!Reparent, Forest!Present, Present
  <2> QED BY <1>3, <2>3 DEF Forest!Next
<1> QED BY <1>16, <1>17

-----------------------------------------------------------------------------
(* Every step keeps the invariant, and is a step of the forest or none.     *)
LEMMA TreeSteps ==
    ASSUME TreeIInv, [TreeNext]_treeVars
    PROVE  TreeIInv' /\ (parent' # parent => Crossed' \/ Forest!Next)
<1>1. CASE UNCHANGED treeVars
  <2>1. parent' = parent /\ path' = path /\ treeTx' = treeTx /\ overtaken' = overtaken
    BY <1>1 DEF treeVars
  <2>2. Crossed' <=> Crossed
    BY <2>1 DEF Crossed
  <2>3. TreeRows(parent, path)' <=> TreeRows(parent, path)
    BY <2>1 DEF TreeRows, Way, LeadsTo, Parents
  <2>4. RequestsTyped' <=> RequestsTyped
    BY <2>1 DEF RequestsTyped, InsertRec, RemoveRec, RetryRec, MoveRec, TreeIdle, Parents
  <2>5. ASSUME NEW t \in TreeTxs PROVE RequestOk(t)' <=> RequestOk(t)
    <3>1. ComesNew(t)' <=> ComesNew(t)
      BY <2>1 DEF ComesNew, IsInserting, IsAttaching, IsMoving, Present
    <3>2. Fits(t)' <=> Fits(t)
      BY <2>1 DEF Fits, IsInserting, Present
    <3>3. WasMovable(t)' <=> WasMovable(t)
      BY <2>1 DEF WasMovable, IsMoving, Moved, Subtree
    <3>4. AsRead(t)' <=> AsRead(t)
      BY <2>1 DEF AsRead, IsMoving, Moved, Subtree, Beneath, On, Present
    <3>5. Locked(t)' <=> Locked(t)
      BY <2>1 DEF Locked, Moved, Subtree, Present
    <3> QED BY <3>1, <3>2, <3>3, <3>4, <3>5 DEF RequestOk
  <2>6. TreeIInv'
    BY <2>2, <2>3, <2>4, <2>5 DEF TreeIInv, TreeSound
  <2> QED BY <2>1, <2>6
<1>2. CASE TreeNext
  <2> SUFFICES ASSUME ~Crossed' PROVE TreeSound' /\ (parent' # parent => Forest!Next)
    BY DEF TreeIInv
  <2>1. TreeSound
    BY <1>2 DEF TreeNext, TreeIInv
  <2>2. PICK t \in TreeTxs : TreeStep(t)
    BY <1>2 DEF TreeNext
  <2>3. ASSUME NEW n \in Node, BeginCreateRoot(t, n) PROVE TreeSound' /\ parent' = parent
    BY <2>1, <2>3, RootBegun DEF BeginCreateRoot
  <2>4. ASSUME NEW n \in Node, BeginTreeRemove(t, n) PROVE TreeSound' /\ parent' = parent
    BY <2>1, <2>4, RemoveBegun DEF BeginTreeRemove
  <2>5. ASSUME NEW n \in Node, NEW p \in Node, BeginCreate(t, n, p) PROVE TreeSound' /\ parent' = parent
    BY <2>1, <2>5, CreateBegun DEF BeginCreate
  <2>6. ASSUME NEW n \in Node, NEW p \in Node, BeginTreeMove(t, n, p) PROVE TreeSound' /\ parent' = parent
    <3>1. /\ Movable(n, p) /\ 1 \in Nat /\ UNCHANGED <<parent, path, overtaken>>
          /\ treeTx' = [treeTx EXCEPT ![t] = Snapshot(n, p, 1)]
      BY <2>6 DEF BeginTreeMove, BeginTree
    <3> QED BY <2>1, <3>1, MoveBegun
  <2>7. ASSUME End(t), overtaken \subseteq overtaken' PROVE t \notin overtaken
    <3>1. treeTx'[t] = TreeIdle
      BY <2>1, <2>7 DEF End, TreeSound, RequestsTyped
    <3> QED BY <2>7, <3>1 DEF Crossed
  <2>8. CASE CommitCreate(t)
    <3>1. t \notin overtaken
      BY <2>7, <2>8 DEF CommitCreate
    <3> QED BY <2>1, <2>8, <3>1, CreateCommitted
  <2>9. CASE CommitTreeRemove(t)
    BY <2>1, <2>9, RemoveCommitted
  <2>10. CASE UpdateMove(t)
    <3>1. parent' = parent
      BY <2>10 DEF UpdateMove
    <3> QED BY <2>1, <2>10, <3>1, MoveUpdated
  <2>11. CASE SerializationFailure(t)
    <3>1. parent' = parent
      BY <2>11 DEF SerializationFailure
    <3> QED BY <2>1, <2>11, <3>1, MoveFailed
  <2>12. CASE RetryMove(t)
    <3>1. parent' = parent
      BY <2>12 DEF RetryMove
    <3> QED BY <2>1, <2>12, <3>1, MoveRetried
  <2>13. CASE CommitTreeMove(t)
    <3>1. t \notin overtaken
      BY <2>7, <2>13 DEF CommitTreeMove
    <3> QED BY <2>1, <2>13, <3>1, MoveCommitted
  <2>14. CASE TreeAbort(t)
    <3>1. UNCHANGED <<parent, path>> /\ treeTx' = [treeTx EXCEPT ![t] = TreeIdle] /\ overtaken' = overtaken \ {t}
      BY <2>14 DEF TreeAbort, End
    <3>2. TreeSound'
      BY <2>1, <3>1, RequestRests
    <3> QED BY <3>1, <3>2
  <2> QED
    BY <2>2, <2>3, <2>4, <2>5, <2>6, <2>8, <2>9, <2>10, <2>11, <2>12, <2>13, <2>14 DEF TreeStep
<1> QED BY <1>1, <1>2

(* Whatever the requests do between two commits, the rows are a tree and the *)
(* paths the ways to their nodes, until a request that was overtaken has     *)
(* committed.                                                                *)
THEOREM TreeInvariant == TreeSpec => []TreeIInv
<1>1. TreeInit => TreeIInv
  BY TreeInits DEF TreeIInv
<1>2. TreeIInv /\ [TreeNext]_treeVars => TreeIInv'
  BY TreeSteps
<1> QED BY <1>1, <1>2, PTL DEF TreeSpec

(* path.util.ts: every node's materialized path is its parent's with its own *)
(* label appended, so the prefix test that decides coverage is ancestry.     *)
THEOREM PathsAreConsistent == TreeSpec => []PathsConsistent
<1>1. TreeIInv => PathsConsistent
  <2> SUFFICES ASSUME TreeRows(parent, path), NEW n \in Node, Present(n)
               PROVE  IF parent[n] = NoParent THEN path[n] = <<n>>
                      ELSE path[n] = Append(path[parent[n]], n)
    BY DEF TreeIInv, TreeSound, PathsConsistent
  <2> DEFINE s == path[n]
             l == Len(s)
  <2>1. Way(parent, s, n)
    BY DEF TreeRows, Present
  <2> HIDE DEF s
  <2>2. /\ s \in Seq(Node) /\ l \in Nat /\ l >= 1 /\ s[l] = n
        /\ parent[s[1]] = NoParent
        /\ \A i \in 1 .. l : i > 1 => parent[s[i]] = s[i - 1] /\ parent[s[i]] \in Node
    BY <2>1, WayIs
  <2>3. CASE l = 1
    <3>1. Len(<<n>>) = 1 /\ <<n>>[1] = n /\ <<n>> \in Seq(Node)
      OBVIOUS
    <3>2. \A i \in 1 .. l : s[i] = <<n>>[i]
      BY <2>2, <2>3, <3>1
    <3>3. s = <<n>>
      BY <2>2, <2>3, <3>1, <3>2, SeqEqual
    <3> QED BY <2>2, <2>3, <3>3 DEF s
  <2>4. CASE l # 1
    <3> DEFINE b == SubSeq(s, 1, l - 1)
               q == path[parent[n]]
    <3>1. l - 1 \in 1 .. l /\ l \in 1 .. l /\ l > 1
      <4>1. l \in Nat /\ l >= 1 /\ l # 1
        BY <2>2, <2>4
      <4> HIDE DEF l
      <4> QED BY <4>1
    <3>2. parent[n] = s[l - 1] /\ parent[n] \in Node /\ parent[n] # NoParent
      BY <2>2, <3>1, DistinctAssumption
    <3>3. Way(parent, b, parent[n]) /\ Len(b) = l - 1 /\ \A i \in 1 .. l - 1 : b[i] = s[i]
      BY <2>1, <3>1, <3>2, WayBegins
    <3>4. parent[parent[n]] # Absent
      <4>1. parent[s[l - 1]] # Absent
        BY <2>1, <3>1, OnTheWay
      <4> QED BY <3>2, <4>1
    <3>5. q = b
      BY <3>2, <3>3, <3>4, SameWay DEF TreeRows
    <3> HIDE DEF b, q
    <3>6. /\ q \in Seq(Node) /\ Len(q) = l - 1
          /\ Append(q, n) \in Seq(Node) /\ Len(Append(q, n)) = Len(q) + 1
          /\ \A i \in 1 .. Len(q) : Append(q, n)[i] = q[i]
          /\ Append(q, n)[Len(q) + 1] = n
      BY <3>2, <3>3, <3>5, AppendProperties DEF Way
    <3>7. ASSUME NEW i \in 1 .. l PROVE s[i] = Append(q, n)[i]
      <4>1. CASE i = l
        BY <2>2, <3>6, <4>1
      <4>2. CASE i # l
        <5>1. i \in 1 .. l - 1
          BY <2>2, <4>2
        <5> QED BY <3>3, <3>5, <3>6, <5>1
      <4> QED BY <4>1, <4>2
    <3>8. Len(Append(q, n)) = l
      BY <2>2, <3>6
    <3>9. s = Append(q, n)
      BY <2>2, <3>6, <3>7, <3>8, SeqEqual
    <3> QED BY <3>2, <3>9 DEF s, q
  <2> QED BY <2>3, <2>4
<1> QED BY <1>1, TreeInvariant, PTL

(* scopes.service.ts: every commit changes the tree as one step of the       *)
(* forest does - a root where there is none, a child below the depth limit,  *)
(* a leaf gone, a subtree hung where it does not lie beneath itself - until  *)
(* a request that was overtaken has committed.                               *)
THEOREM RefinesForest == TreeSpec => ImplementsForest
<1>1. TreeInit => Forest!Init
  BY DEF TreeInit
<1>2. TreeIInv /\ [TreeNext]_treeVars => [parent' # parent => Crossed' \/ Forest!Next]_parent
  BY TreeSteps
<1> QED BY <1>1, <1>2, TreeInvariant, PTL DEF TreeSpec, ImplementsForest

-----------------------------------------------------------------------------
(* Types.  Even a request that has been overtaken checked the length of the  *)
(* paths it writes when it read; so the rows have their types to the end,    *)
(* after the commit that loses a race as before it.                          *)
RowsTyped(par, pth) ==
    /\ par \in [Node -> Parents] /\ pth \in [Node -> Seq(Node)]
    /\ \A n \in Node : Len(pth[n]) <= MaxDepth /\ (pth[n] = <<>> <=> par[n] = Absent)
Fitting == {r \in InsertRec : r.new # <<>> /\ Len(r.new) <= MaxDepth}
Trying == {r \in RetryRec \cup MoveRec : r.attempt \in 1 .. Retries + 1}
OpenRequest == {TreeIdle} \cup Fitting \cup RemoveRec \cup Trying
TreeTyped ==
    /\ RowsTyped(parent, path)
    /\ treeTx \in [TreeTxs -> OpenRequest]
    /\ treeOps \in 0 .. MaxTreeOps
    /\ overtaken \in SUBSET TreeTxs

(* Rows that are a tree have their types.                                    *)
LEMMA TreeRowsTyped ==
    ASSUME NEW par, NEW pth, TreeRows(par, pth)
    PROVE  RowsTyped(par, pth)
<1>1. par \in [Node -> Parents] /\ pth \in [Node -> Seq(Node)]
  BY DEF TreeRows
<1>2. ASSUME NEW n \in Node, par[n] # Absent PROVE Len(pth[n]) <= MaxDepth /\ pth[n] # <<>>
  BY <1>2 DEF TreeRows, Way
<1>3. ASSUME NEW n \in Node, par[n] = Absent PROVE Len(pth[n]) <= MaxDepth /\ pth[n] = <<>>
  <2>1. pth[n] = <<>>
    BY <1>3 DEF TreeRows
  <2>2. Len(<<>>) = 0 /\ 0 <= MaxDepth
    BY DepthAssumption
  <2> QED BY <2>1, <2>2
<1> QED BY <1>1, <1>2, <1>3 DEF RowsTyped

(* What a request is doing says what it holds.                              *)
LEMMA KindsOfOpen ==
    ASSUME TreeTyped, NEW t \in TreeTxs
    PROVE  /\ treeTx[t].pc = "inserting" => treeTx[t] \in Fitting
           /\ treeTx[t].pc = "deleting" => treeTx[t] \in RemoveRec
           /\ treeTx[t].pc \in {"retrying", "updating", "committing"} => treeTx[t] \in Trying
           /\ treeTx[t].pc = "retrying" => treeTx[t] \in RetryRec
           /\ treeTx[t].pc \in {"updating", "committing"} => treeTx[t] \in MoveRec
<1>1. treeTx[t] \in {TreeIdle} \cup Fitting \cup RemoveRec \cup Trying
  BY DEF TreeTyped, OpenRequest
<1>2. TreeIdle.pc = "idle"
  BY DEF TreeIdle
<1>3. /\ treeTx[t] \in Fitting => treeTx[t].pc = "inserting"
      /\ treeTx[t] \in RemoveRec => treeTx[t].pc = "deleting"
      /\ treeTx[t] \in RetryRec => treeTx[t].pc = "retrying"
      /\ treeTx[t] \in MoveRec => treeTx[t].pc \in {"updating", "committing"}
      /\ treeTx[t] \in Trying => treeTx[t] \in RetryRec \/ treeTx[t] \in MoveRec
  BY DEF Fitting, InsertRec, RemoveRec, RetryRec, MoveRec, Trying
<1> QED BY <1>1, <1>2, <1>3

(* A step of one request that leaves the rows as they are.                   *)
LEMMA OneTyped ==
    ASSUME TreeTyped, NEW t \in TreeTxs, NEW r \in OpenRequest,
           treeTx' = [treeTx EXCEPT ![t] = r], UNCHANGED <<parent, path>>,
           treeOps' \in 0 .. MaxTreeOps, overtaken' \in SUBSET TreeTxs
    PROVE  TreeTyped'
<1>1. treeTx \in [TreeTxs -> OpenRequest] /\ RowsTyped(parent, path)
  BY DEF TreeTyped
<1>2. treeTx' \in [TreeTxs -> OpenRequest]
  BY <1>1
<1> QED BY <1>1, <1>2 DEF TreeTyped, OpenRequest, RowsTyped, Fitting, Trying, InsertRec, RemoveRec,
                          RetryRec, MoveRec, TreeIdle, Parents

LEMMA BegunTyped ==
    ASSUME TreeTyped, NEW t \in TreeTxs, NEW r \in OpenRequest, BeginTree(t, r),
           UNCHANGED <<parent, path, overtaken>>
    PROVE  TreeTyped'
<1>1. treeTx' = [treeTx EXCEPT ![t] = r] /\ treeOps' = treeOps + 1 /\ treeOps < MaxTreeOps
  BY DEF BeginTree
<1>2. treeOps \in 0 .. MaxTreeOps /\ overtaken \in SUBSET TreeTxs
  BY DEF TreeTyped
<1>3. treeOps' \in 0 .. MaxTreeOps
  BY <1>1, <1>2, BoundsAssumption
<1> QED BY <1>1, <1>2, <1>3, OneTyped

(* The snapshot of a move that is in its k-th attempt.                       *)
LEMMA SnapshotTyped ==
    ASSUME TreeTyped, NEW n \in Node, NEW p \in Node, NEW k \in 1 .. Retries + 1
    PROVE  Snapshot(n, p, k) \in OpenRequest
<1>1. parent \in [Node -> Parents] /\ path \in [Node -> Seq(Node)] /\ k \in Nat
  BY DEF TreeTyped, RowsTyped
<1>2. Snapshot(n, p, k) \in MoveRec /\ Snapshot(n, p, k).attempt = k
  BY <1>1 DEF Snapshot, MoveRec
<1> QED BY <1>2 DEF OpenRequest, Trying

(* The paths that a move writes are of a length that it has checked.         *)
LEMMA RewriteTyped ==
    ASSUME TreeTyped, NEW t \in TreeTxs, IsMoving(t), WasMovable(t), NEW m \in Moved(t)
    PROVE  /\ Rewrite(t, m) \in Seq(Node) /\ Rewrite(t, m) # <<>> /\ Len(Rewrite(t, m)) <= MaxDepth
           /\ m \in Node /\ treeTx[t].path[m] # <<>>
<1> DEFINE old == treeTx[t].path
           a == old[treeTx[t].under]
           s == old[m]
           k == Len(old[treeTx[t].node])
           b == SubSeq(s, k, Len(s))
<1>1. treeTx[t] \in MoveRec
  BY KindsOfOpen DEF IsMoving
<1>2. m \in Node /\ s # <<>> /\ IsPrefix(old[treeTx[t].node], s)
  BY DEF Moved, Subtree
<1>3. /\ a \in Seq(Node) /\ s \in Seq(Node) /\ old[treeTx[t].node] \in Seq(Node)
  BY <1>1, <1>2 DEF MoveRec
<1>4. /\ Len(a) \in Nat /\ Len(s) \in Nat /\ k \in Nat /\ k >= 1 /\ k <= Len(s)
      /\ Len(a) + Len(s) + 1 <= MaxDepth + k
  <2>1. old[treeTx[t].node] # <<>> /\ Len(a) + Len(s) + 1 <= MaxDepth + k
    BY DEF WasMovable
  <2>2. k <= Len(s)
    BY <1>2 DEF IsPrefix
  <2>3. Len(a) \in Nat /\ Len(s) \in Nat /\ k \in Nat
    BY <1>3, LenProperties
  <2>4. k # 0
    BY <1>3, <2>1, EmptySeq
  <2> HIDE DEF a, s, k
  <2> QED BY <2>1, <2>2, <2>3, <2>4
<1>5. Rewrite(t, m) = a \o b
  BY DEF Rewrite
<1> HIDE DEF a, s, k, old
<1>6. b \in Seq(Node) /\ Len(b) = Len(s) - k + 1
  <2>1. \A i \in 1 .. Len(s) : s[i] \in Node
    BY <1>3, ElementOfSeq
  <2>2. k \in Int /\ Len(s) \in Int /\ k <= Len(s) /\ \A i \in k .. Len(s) : s[i] \in Node
    BY <1>4, <2>1
  <2>3. b \in Seq(Node) /\ Len(b) = IF k <= Len(s) THEN Len(s) - k + 1 ELSE 0
    BY <2>2, SubSeqProperties
  <2> QED BY <1>4, <2>3
<1> HIDE DEF b
<1>7. a \o b \in Seq(Node) /\ Len(a \o b) = Len(a) + Len(b)
  BY <1>3, <1>6, ConcatProperties
<1>8. Len(a \o b) >= 1 /\ Len(a \o b) <= MaxDepth
  BY <1>4, <1>6, <1>7, DepthAssumption
<1>9. a \o b # <<>>
  BY <1>7, <1>8, EmptySeq
<1> QED BY <1>2, <1>5, <1>7, <1>8, <1>9 DEF s, old

(* The rows and the requests keep their types.                               *)
LEMMA TreeTypesStep ==
    ASSUME TreeTyped, TreeIInv, [TreeNext]_treeVars
    PROVE  TreeTyped'
<1>0. /\ treeTx \in [TreeTxs -> OpenRequest] /\ RowsTyped(parent, path)
      /\ treeOps \in 0 .. MaxTreeOps /\ overtaken \in SUBSET TreeTxs
  BY DEF TreeTyped
<1>r. TreeIdle \in OpenRequest
  BY DEF OpenRequest
<1>1. CASE UNCHANGED treeVars
  BY <1>0, <1>1 DEF treeVars, TreeTyped, OpenRequest, RowsTyped, Fitting, Trying, InsertRec, RemoveRec,
                    RetryRec, MoveRec, TreeIdle, Parents
<1>2. CASE TreeNext
  <2>1. \A u \in TreeTxs : WasMovable(u) /\ Locked(u)
    BY <1>2 DEF TreeNext, TreeIInv, TreeSound, RequestOk
  <2>2. PICK t \in TreeTxs : TreeStep(t)
    BY <1>2 DEF TreeNext
  <2>3. ASSUME NEW n \in Node, BeginCreateRoot(t, n) PROVE TreeTyped'
    <3> DEFINE r == [pc |-> "inserting", node |-> n, under |-> NoParent, new |-> <<n>>]
    <3>1. Len(<<n>>) = 1 /\ <<n>> # <<>> /\ <<n>> \in Seq(Node)
      OBVIOUS
    <3>2. r \in InsertRec /\ r.new = <<n>>
      BY <3>1 DEF InsertRec
    <3>3. Len(<<n>>) <= MaxDepth
      BY <3>1, DepthAssumption
    <3> HIDE DEF r
    <3>4. r \in OpenRequest
      BY <3>1, <3>2, <3>3 DEF OpenRequest, Fitting
    <3> QED BY <2>3, <3>4, BegunTyped DEF BeginCreateRoot, r
  <2>4. ASSUME NEW n \in Node, BeginTreeRemove(t, n) PROVE TreeTyped'
    <3>1. [pc |-> "deleting", node |-> n] \in OpenRequest
      BY DEF OpenRequest, RemoveRec
    <3> QED BY <2>4, <3>1, BegunTyped DEF BeginTreeRemove
  <2>5. ASSUME NEW n \in Node, NEW p \in Node, BeginCreate(t, n, p) PROVE TreeTyped'
    <3> DEFINE q == Append(path[p], n)
               r == [pc |-> "inserting", node |-> n, under |-> p, new |-> q]
    <3>1. path[p] \in Seq(Node) /\ Len(path[p]) \in Nat /\ Len(path[p]) + 1 <= MaxDepth
      BY <1>0, <2>5, LenProperties DEF RowsTyped, BeginCreate
    <3>2. q \in Seq(Node) /\ q # <<>> /\ Len(q) = Len(path[p]) + 1
      BY <3>1, AppendProperties
    <3> HIDE DEF q
    <3>3. r \in InsertRec /\ r.new = q
      BY <3>2 DEF InsertRec
    <3>4. r \in OpenRequest
      BY <3>1, <3>2, <3>3 DEF OpenRequest, Fitting
    <3> QED BY <2>5, <3>4, BegunTyped DEF BeginCreate, q
  <2>6. ASSUME NEW n \in Node, NEW p \in Node, BeginTreeMove(t, n, p) PROVE TreeTyped'
    <3>1. 1 \in 1 .. Retries + 1
      BY BoundsAssumption
    <3>2. Snapshot(n, p, 1) \in OpenRequest
      BY <3>1, SnapshotTyped
    <3> QED BY <2>6, <3>2, BegunTyped DEF BeginTreeMove
  <2>7. CASE CommitCreate(t)
    <3>1. treeTx[t] \in Fitting
      BY <2>7, KindsOfOpen DEF CommitCreate
    <3> DEFINE n == treeTx[t].node
    <3>2. /\ n \in Node /\ treeTx[t].under \in Parents /\ treeTx[t].under # Absent
          /\ treeTx[t].new \in Seq(Node) /\ treeTx[t].new # <<>> /\ Len(treeTx[t].new) <= MaxDepth
      BY <3>1, DistinctAssumption DEF Fitting, InsertRec, Parents
    <3>3. /\ parent' = [parent EXCEPT ![n] = treeTx[t].under]
          /\ path' = [path EXCEPT ![n] = treeTx[t].new]
          /\ overtaken' = overtaken \cup Overtakes(t) /\ End(t) /\ UNCHANGED treeOps
      BY <2>7 DEF CommitCreate
    <3>4. RowsTyped(parent', path')
      BY <1>0, <3>2, <3>3 DEF RowsTyped
    <3>5. treeTx' \in [TreeTxs -> OpenRequest]
      BY <1>0, <1>r, <3>3 DEF End
    <3>6. overtaken' \in SUBSET TreeTxs
      BY <1>0, <3>3 DEF Overtakes
    <3> QED BY <1>0, <3>3, <3>4, <3>5, <3>6 DEF TreeTyped, RowsTyped, OpenRequest, Fitting, Trying,
                 InsertRec, RemoveRec, RetryRec, MoveRec, TreeIdle, Parents
  <2>8. CASE CommitTreeRemove(t)
    <3> DEFINE n == treeTx[t].node
    <3>1. n \in Node
      BY <2>8, KindsOfOpen DEF CommitTreeRemove, RemoveRec
    <3>2. /\ parent' = [parent EXCEPT ![n] = Absent] /\ path' = [path EXCEPT ![n] = <<>>]
          /\ End(t) /\ UNCHANGED <<treeOps, overtaken>>
      BY <2>8 DEF CommitTreeRemove
    <3>3. Len(<<>>) = 0 /\ 0 <= MaxDepth /\ <<>> \in Seq(Node) /\ Absent \in Parents
      BY DepthAssumption DEF Parents
    <3>4. RowsTyped(parent', path')
      BY <1>0, <3>1, <3>2, <3>3 DEF RowsTyped
    <3>5. treeTx' \in [TreeTxs -> OpenRequest]
      BY <1>0, <1>r, <3>2 DEF End
    <3> QED BY <1>0, <3>2, <3>4, <3>5 DEF TreeTyped, RowsTyped, OpenRequest, Fitting, Trying,
                 InsertRec, RemoveRec, RetryRec, MoveRec, TreeIdle, Parents
  <2>9. CASE UpdateMove(t)
    <3>1. treeTx[t] \in MoveRec /\ treeTx[t] \in Trying
      BY <2>9, KindsOfOpen DEF UpdateMove
    <3> DEFINE r == [treeTx[t] EXCEPT !.pc = "committing"]
    <3>2. r \in MoveRec /\ r.attempt = treeTx[t].attempt
      BY <3>1 DEF MoveRec
    <3>3. r \in OpenRequest
      BY <3>1, <3>2 DEF OpenRequest, Trying
    <3>4. treeTx' = [treeTx EXCEPT ![t] = r] /\ UNCHANGED <<parent, path, treeOps, overtaken>>
      BY <2>9 DEF UpdateMove
    <3> QED BY <1>0, <3>3, <3>4, OneTyped
  <2>10. CASE SerializationFailure(t)
    <3> DEFINE again == [pc |-> "retrying", node |-> treeTx[t].node, under |-> treeTx[t].under,
                         attempt |-> treeTx[t].attempt + 1]
               r == IF treeTx[t].attempt < Retries + 1 THEN again ELSE TreeIdle
    <3>1. treeTx[t] \in MoveRec /\ treeTx[t] \in Trying
      BY <2>10, KindsOfOpen DEF SerializationFailure
    <3>2. treeTx[t].node \in Node /\ treeTx[t].under \in Node /\ treeTx[t].attempt \in 1 .. Retries + 1
      BY <3>1 DEF MoveRec, Trying
    <3>3. ASSUME treeTx[t].attempt < Retries + 1 PROVE again \in OpenRequest
      <4>1. treeTx[t].attempt + 1 \in Nat /\ treeTx[t].attempt + 1 \in 1 .. Retries + 1
        BY <3>2, <3>3, BoundsAssumption
      <4>2. again \in RetryRec /\ again.attempt = treeTx[t].attempt + 1
        BY <3>2, <4>1 DEF RetryRec
      <4> QED BY <4>1, <4>2 DEF OpenRequest, Trying
    <3>4. r \in OpenRequest
      BY <1>r, <3>3
    <3>5. treeTx' = [treeTx EXCEPT ![t] = r] /\ UNCHANGED <<parent, path, treeOps>>
          /\ overtaken' = overtaken \ {t}
      BY <2>10 DEF SerializationFailure
    <3> QED BY <1>0, <3>4, <3>5, OneTyped
  <2>11. CASE RetryMove(t)
    <3> DEFINE r == IF Movable(treeTx[t].node, treeTx[t].under)
                    THEN Snapshot(treeTx[t].node, treeTx[t].under, treeTx[t].attempt) ELSE TreeIdle
    <3>1. treeTx[t] \in RetryRec /\ treeTx[t] \in Trying
      BY <2>11, KindsOfOpen DEF RetryMove
    <3>2. treeTx[t].node \in Node /\ treeTx[t].under \in Node /\ treeTx[t].attempt \in 1 .. Retries + 1
      BY <3>1 DEF RetryRec, Trying
    <3>3. r \in OpenRequest
      BY <1>r, <3>2, SnapshotTyped
    <3>4. treeTx' = [treeTx EXCEPT ![t] = r] /\ UNCHANGED <<parent, path, treeOps, overtaken>>
      BY <2>11 DEF RetryMove
    <3> QED BY <1>0, <3>3, <3>4, OneTyped
  <2>12. CASE CommitTreeMove(t)
    <3> DEFINE n == treeTx[t].node
    <3>1. treeTx[t] \in MoveRec /\ treeTx[t].pc = "committing" /\ IsMoving(t) /\ WasMovable(t) /\ Locked(t)
      BY <2>1, <2>12, KindsOfOpen DEF CommitTreeMove, IsMoving
    <3>2. n \in Node /\ treeTx[t].under \in Parents /\ treeTx[t].under # Absent
      BY <3>1, DistinctAssumption DEF MoveRec, Parents
    <3>3. /\ parent' = [parent EXCEPT ![n] = treeTx[t].under]
          /\ path' = [m \in Node |-> IF m \in Moved(t) THEN Rewrite(t, m) ELSE path[m]]
          /\ overtaken' = overtaken \cup Overtakes(t) /\ End(t) /\ UNCHANGED treeOps
      BY <2>12 DEF CommitTreeMove
    <3>4. \A m \in Moved(t) : /\ Rewrite(t, m) \in Seq(Node) /\ Rewrite(t, m) # <<>>
                              /\ Len(Rewrite(t, m)) <= MaxDepth
                              /\ path[m] # <<>>
      BY <3>1, RewriteTyped DEF Locked
    <3>5. n \in Moved(t)
      <4>1. treeTx[t].path[n] \in Seq(Node) /\ treeTx[t].path[n] # <<>>
        BY <3>1, <3>2 DEF MoveRec, WasMovable
      <4>2. IsPrefix(treeTx[t].path[n], treeTx[t].path[n])
        <5>1. Len(treeTx[t].path[n]) \in Nat
          BY <4>1, LenProperties
        <5> QED BY <5>1 DEF IsPrefix
      <4> QED BY <3>2, <4>1, <4>2 DEF Moved, Subtree
    <3>6. ASSUME NEW m \in Node
          PROVE  /\ path'[m] \in Seq(Node) /\ Len(path'[m]) <= MaxDepth /\ parent'[m] \in Parents
                 /\ path'[m] = <<>> <=> parent'[m] = Absent
      <4>1. CASE m \in Moved(t)
        BY <1>0, <3>2, <3>3, <3>4, <4>1 DEF RowsTyped
      <4>2. CASE m \notin Moved(t)
        BY <1>0, <3>3, <3>5, <4>2 DEF RowsTyped
      <4> QED BY <4>1, <4>2
    <3>7. RowsTyped(parent', path')
      <4>1. parent' \in [Node -> Parents] /\ path' \in [Node -> Seq(Node)]
        BY <1>0, <3>2, <3>3, <3>6 DEF RowsTyped
      <4> QED BY <3>6, <4>1 DEF RowsTyped
    <3>8. treeTx' \in [TreeTxs -> OpenRequest]
      BY <1>0, <1>r, <3>3 DEF End
    <3>9. overtaken' \in SUBSET TreeTxs
      BY <1>0, <3>3 DEF Overtakes
    <3> QED BY <1>0, <3>3, <3>7, <3>8, <3>9 DEF TreeTyped, RowsTyped, OpenRequest, Fitting, Trying,
                 InsertRec, RemoveRec, RetryRec, MoveRec, TreeIdle, Parents
  <2>13. CASE TreeAbort(t)
    <3>1. treeTx' = [treeTx EXCEPT ![t] = TreeIdle] /\ UNCHANGED <<parent, path, treeOps>>
          /\ overtaken' = overtaken \ {t}
      BY <2>13 DEF TreeAbort, End
    <3> QED BY <1>0, <1>r, <3>1, OneTyped
  <2> QED BY <2>2, <2>3, <2>4, <2>5, <2>6, <2>7, <2>8, <2>9, <2>10, <2>11, <2>12, <2>13 DEF TreeStep
<1> QED BY <1>1, <1>2

LEMMA TreeTypesStart == TreeInit => TreeTyped
<1> SUFFICES ASSUME TreeInit PROVE TreeTyped
  OBVIOUS
<1>1. RowsTyped(parent, path)
  BY TreeInits, TreeRowsTyped DEF TreeSound
<1>2. treeTx = [t \in TreeTxs |-> TreeIdle] /\ treeOps = 0 /\ overtaken = {}
  BY DEF TreeInit
<1>3. treeTx \in [TreeTxs -> OpenRequest]
  BY <1>2 DEF OpenRequest
<1> QED BY <1>1, <1>2, <1>3, BoundsAssumption DEF TreeTyped

LEMMA TypedTree == TreeTyped => TreeTypeOK
<1> SUFFICES ASSUME TreeTyped PROVE TreeTypeOK
  OBVIOUS
<1>1. /\ parent \in [Node -> Parents] /\ treeOps \in 0 .. MaxTreeOps /\ overtaken \subseteq TreeTxs
      /\ \A n \in Node : /\ path[n] \in Seq(Node) /\ Len(path[n]) <= MaxDepth
                         /\ path[n] = <<>> <=> parent[n] = Absent
  BY DEF TreeTyped, RowsTyped
<1>2. ASSUME NEW t \in TreeTxs
      PROVE  \/ treeTx[t] = TreeIdle
             \/ /\ treeTx[t].pc = "inserting"
                /\ treeTx[t].node \in Node /\ treeTx[t].under \in Node \cup {NoParent}
             \/ treeTx[t].pc = "deleting" /\ treeTx[t].node \in Node
             \/ /\ treeTx[t].pc \in {"retrying", "updating", "committing"}
                /\ treeTx[t].node \in Node /\ treeTx[t].under \in Node
                /\ treeTx[t].attempt \in 1 .. Retries + 1
  <2>1. treeTx[t] \in {TreeIdle} \cup Fitting \cup RemoveRec \cup Trying
    BY DEF TreeTyped, OpenRequest
  <2> QED BY <2>1 DEF Fitting, InsertRec, RemoveRec, Trying, RetryRec, MoveRec
<1> QED BY <1>1, <1>2 DEF TreeTypeOK
=============================================================================
