-------------------------- MODULE MerkleTrieProofs --------------------------
(***************************************************************************)
(* Proofs about MerkleTrie, for keys of any width and any states of the    *)
(* world: what tries and an honest provider's proofs are is followed from  *)
(* the leaves to the roots, and what the verification accepts from the     *)
(* trusted root down to the value.                                         *)
(***************************************************************************)
EXTENDS MerkleTrie, ProofVerifyProofs, FiniteSetTheorems, FunctionTheorems

-----------------------------------------------------------------------------
(* Powers of two, and the bits of a key above a height.                       *)

\* Subsets of a + b things are pairs of a subset of a and one of b.
LEMMA PowerOfSum ==
  ASSUME NEW a \in Nat, NEW b \in Nat
  PROVE  2^(a + b) = 2^a * 2^b
<1> DEFINE A == 1..a
           B == (a + 1)..(a + b)
           C == 1..(a + b)
           split == [X \in SUBSET C |-> <<X \cap A, X \cap B>>]
<1>1. /\ IsFiniteSet(A) /\ Cardinality(A) = a
      /\ IsFiniteSet(B) /\ Cardinality(B) = b
      /\ IsFiniteSet(C) /\ Cardinality(C) = a + b
  <2>1. /\ a \in Int /\ a + 1 \in Int /\ a + b \in Int /\ 1 \in Int
        /\ ~ (a + 1 > a + b /\ b # 0) /\ (a + b) - (a + 1) + 1 = b
    OBVIOUS
  <2>2. IsFiniteSet(A) /\ Cardinality(A) = a BY <2>1, FS_Interval
  <2>3. IsFiniteSet(B) /\ Cardinality(B) = b BY <2>1, FS_Interval
  <2>4. IsFiniteSet(C) /\ Cardinality(C) = a + b
    <3>1. ~ (1 > a + b /\ a + b # 0) /\ (a + b) - 1 + 1 = a + b BY <2>1
    <3>2. QED BY <2>1, <3>1, FS_Interval
  <2>5. QED BY <2>2, <2>3, <2>4
<1>2. A \cup B = C /\ A \cap B = {} OBVIOUS
<1> HIDE DEF A, B, C
<1>3. split \in [SUBSET C -> (SUBSET A) \X (SUBSET B)] OBVIOUS
<1>4. ASSUME NEW X \in SUBSET C, NEW Y \in SUBSET C, split[X] = split[Y]
      PROVE  X = Y
  <2>1. X \cap A = Y \cap A /\ X \cap B = Y \cap B BY <1>4
  <2>2. QED BY <2>1, <1>2
<1>5. ASSUME NEW p \in (SUBSET A) \X (SUBSET B)
      PROVE  \E X \in SUBSET C : split[X] = p
  <2>1. PICK Y \in SUBSET A, Z \in SUBSET B : p = <<Y, Z>> OBVIOUS
  <2>2. (Y \cup Z) \cap A = Y /\ (Y \cup Z) \cap B = Z /\ Y \cup Z \in SUBSET C BY <1>2
  <2>3. split[Y \cup Z] = p BY <2>1, <2>2
  <2>4. QED BY <2>2, <2>3
<1>6. ExistsBijection(SUBSET C, (SUBSET A) \X (SUBSET B))
  <2> HIDE DEF split
  <2>1. split \in Bijection(SUBSET C, (SUBSET A) \X (SUBSET B))
    BY <1>3, <1>4, <1>5, Fun_IsBij
  <2>2. QED BY <2>1 DEF ExistsBijection
<1>7. /\ Cardinality(SUBSET C) = 2^(a + b) /\ IsFiniteSet(SUBSET C)
      /\ Cardinality(SUBSET A) = 2^a /\ IsFiniteSet(SUBSET A)
      /\ Cardinality(SUBSET B) = 2^b /\ IsFiniteSet(SUBSET B)
  <2>1. Cardinality(SUBSET C) = 2^(a + b) /\ IsFiniteSet(SUBSET C) BY <1>1, FS_SUBSET
  <2>2. Cardinality(SUBSET A) = 2^a /\ IsFiniteSet(SUBSET A) BY <1>1, FS_SUBSET
  <2>3. Cardinality(SUBSET B) = 2^b /\ IsFiniteSet(SUBSET B) BY <1>1, FS_SUBSET
  <2>4. QED BY <2>1, <2>2, <2>3
<1>8. Cardinality((SUBSET A) \X (SUBSET B)) = 2^a * 2^b 
  <2> DEFINE PA == SUBSET A
             PB == SUBSET B
  <2>1. IsFiniteSet(PA) /\ IsFiniteSet(PB) /\ Cardinality(PA) = 2^a /\ Cardinality(PB) = 2^b
    BY <1>7
  <2> HIDE DEF PA, PB
  <2>2. Cardinality(PA \X PB) = Cardinality(PA) * Cardinality(PB) BY <2>1, FS_Product
  <2>3. Cardinality(PA \X PB) = 2^a * 2^b BY <2>1, <2>2
  <2>4. QED BY <2>3 DEF PA, PB
<1>9. Cardinality((SUBSET A) \X (SUBSET B)) = 2^(a + b) BY <1>6, <1>7, FS_Bijection
<1>10. QED BY <1>8, <1>9

\* Powers of two count subsets.
LEMMA PowerType ==
  ASSUME NEW n \in Nat
  PROVE  2^n \in Nat /\ 2^n > 0
<1>1. IsFiniteSet(1..n) /\ Cardinality(1..n) = n BY FS_Interval
<1>2. IsFiniteSet(SUBSET (1..n)) /\ Cardinality(SUBSET (1..n)) = 2^n BY <1>1, FS_SUBSET
<1>3. Cardinality(SUBSET (1..n)) \in Nat BY <1>2, FS_CardinalityType
<1>4. Cardinality(SUBSET (1..n)) # 0 BY <1>2, FS_EmptySet
<1>5. QED BY <1>2, <1>3, <1>4

\* One bit more is twice as many keys.
LEMMA PowerStep ==
  ASSUME NEW n \in Nat
  PROVE  2^(n + 1) = 2 * 2^n
<1>1. 2^1 = 2 OBVIOUS
<1>2. 2^(n + 1) = 2^n * 2^1 BY PowerOfSum
<1>3. 2^n \in Nat BY PowerType
<1>4. QED BY <1>1, <1>2, <1>3

\* A number is made of its quotient and its remainder.
LEMMA Rebuild ==
  ASSUME NEW x \in Nat, NEW m \in Nat, m > 0
  PROVE  /\ x = m * (x \div m) + (x % m)
         /\ x % m \in 0..(m - 1) /\ x \div m \in Nat
<1>1. x % m \in 0..(m - 1) /\ x \div m \in Int /\ x = m * (x \div m) + (x % m) OBVIOUS
<1>2. x \div m >= 0 BY Z3
<1>4. QED BY <1>1, <1>2

\* And of no other.
LEMMA Unique ==
  ASSUME NEW m \in Nat, m > 0, NEW q \in Nat, NEW r \in 0..(m - 1)
  PROVE  (m * q + r) \div m = q /\ (m * q + r) % m = r
OBVIOUS

\* Cutting off bits twice is cutting them off at once.
LEMMA DivDiv ==
  ASSUME NEW x \in Nat, NEW m \in Nat, NEW n \in Nat, m > 0, n > 0
  PROVE  (x \div m) \div n = x \div (m * n)
OBVIOUS

\* The h-th bit is what is added to the bits above it.
LEMMA PrefixStep ==
  ASSUME NEW k \in Nat, NEW h \in Nat, h > 0
  PROVE  k \div 2^(h - 1) = 2 * (k \div 2^h) + Bit(k, h) /\ Bit(k, h) \in {0, 1}
<1> DEFINE m == 2^(h - 1)
<1>1. m \in Nat /\ m > 0 BY PowerType
<1>2. 2^h = m * 2
  <2>1. (h - 1) + 1 = h /\ h - 1 \in Nat OBVIOUS
  <2>2. QED BY <1>1, <2>1, PowerStep
<1>3. Bit(k, h) = (k \div m) % 2 BY DEF Bit
<1> HIDE DEF m
<1>4. k \div m \in Nat BY <1>1, Rebuild
<1>5. (k \div m) \div 2 = k \div (m * 2) BY <1>1, DivDiv
<1>6. k \div m = 2 * ((k \div m) \div 2) + ((k \div m) % 2) /\ (k \div m) % 2 \in {0, 1}
  BY <1>4
<1>7. QED BY <1>2, <1>3, <1>5, <1>6 DEF m

\* The bits above b, less those below h, are the bits above h.
LEMMA PrefixOfPrefix ==
  ASSUME NEW k \in Nat, NEW h \in Nat, NEW b \in 0..h
  PROVE  /\ (k \div 2^b) \div 2^(h - b) = k \div 2^h
         /\ k \div 2^b \in Nat /\ 2^(h - b) \in Nat /\ 2^(h - b) > 0
<1>1. 2^b \in Nat /\ 2^b > 0 /\ 2^(h - b) \in Nat /\ 2^(h - b) > 0 BY PowerType
<1>2. 2^h = 2^b * 2^(h - b)
  <2>1. b \in Nat /\ h - b \in Nat /\ b + (h - b) = h OBVIOUS
  <2>2. QED BY <2>1, PowerOfSum
<1>3. (k \div 2^b) \div 2^(h - b) = k \div (2^b * 2^(h - b)) BY <1>1, DivDiv
<1>4. k \div 2^b \in Nat BY <1>1, Rebuild
<1>5. QED BY <1>1, <1>2, <1>3, <1>4

\* Keys with the same bits above h, and between h and b, have the same above b.
LEMMA PrefixDown ==
  ASSUME NEW j \in Nat, NEW k \in Nat, NEW h \in Nat, NEW b \in 0..h,
         j \div 2^h = k \div 2^h,
         (j \div 2^b) % 2^(h - b) = (k \div 2^b) % 2^(h - b)
  PROVE  j \div 2^b = k \div 2^b
<1> DEFINE m == 2^(h - b)
           x == j \div 2^b
           y == k \div 2^b
<1>1. x \in Nat /\ y \in Nat /\ m \in Nat /\ m > 0 /\ x \div m = y \div m
  BY PrefixOfPrefix
<1>2. x % m = y % m OBVIOUS
<1> HIDE DEF m, x, y
<1>3. x = m * (x \div m) + (x % m) /\ y = m * (y \div m) + (y % m) BY <1>1, Rebuild
<1>4. x = y BY <1>1, <1>2, <1>3
<1>5. QED BY <1>4 DEF x, y

\* Above bit zero is the whole key, above the width nothing.
LEMMA PrefixEnds ==
  ASSUME NEW k \in Keys
  PROVE  k \in Nat /\ k \div 2^0 = k /\ k \div 2^Width = 0
<1>1. 2^Width \in Nat /\ 2^Width > 0 BY PowerType, WidthAssumption
<1>2. k \in Nat /\ k < 2^Width BY <1>1 DEF Keys
<1>3. 2^0 = 1 OBVIOUS
<1>4. k \div 1 = k BY <1>2
<1> DEFINE m == 2^Width
<1> HIDE DEF m
<1>5. m \in Nat /\ m > 0 /\ k < m BY <1>1, <1>2 DEF m
<1>6. k \div m = 0
  <2>1. (m * 0 + k) \div m = 0 BY <1>5, <1>2, Unique
  <2>2. m * 0 + k = k BY <1>5, <1>2
  <2>3. QED BY <2>1, <2>2
<1>7. QED BY <1>2, <1>3, <1>4, <1>6 DEF m

-----------------------------------------------------------------------------
(* Keys that are alike down to a height, and the halves of a set of keys.      *)

\* S are present keys that share all bits above the low h.
Alike(S, h) == S # {} /\ S \subseteq Keys /\ \A j, k \in S : j \div 2^h = k \div 2^h

\* Keys are numbers.
LEMMA KeysNat == Keys \subseteq Nat
BY PrefixEnds

\* At the root all keys are alike.
LEMMA AlikeTop ==
  ASSUME NEW S, S # {}, S \subseteq Keys
  PROVE  Alike(S, Width)
<1>1. \A k \in S : k \div 2^Width = 0 BY PrefixEnds
<1>2. QED BY <1>1 DEF Alike

\* At a leaf there is one.
LEMMA AlikeBottom ==
  ASSUME NEW S, Alike(S, 0)
  PROVE  \E k \in S : S = {k}
<1>1. \A k \in S : k \div 2^0 = k BY PrefixEnds DEF Alike
<1>2. \A j, k \in S : j = k BY <1>1 DEF Alike
<1>3. QED BY <1>2 DEF Alike

\* A half of the keys shares one bit more.
LEMMA HalfAlike ==
  ASSUME NEW S, NEW h \in Nat, h > 0, Alike(S, h), NEW side \in {0, 1},
         Half(S, h, side) # {}
  PROVE  Alike(Half(S, h, side), h - 1)
<1>1. ASSUME NEW j \in Half(S, h, side), NEW k \in Half(S, h, side)
      PROVE  j \div 2^(h - 1) = k \div 2^(h - 1)
  <2>1. /\ j \in Nat /\ k \in Nat /\ j \div 2^h = k \div 2^h
        /\ Bit(j, h) = side /\ Bit(k, h) = side
    BY <1>1, KeysNat DEF Alike, Half
  <2>2. j \div 2^(h - 1) = 2 * (j \div 2^h) + Bit(j, h) BY <2>1, PrefixStep
  <2>3. k \div 2^(h - 1) = 2 * (k \div 2^h) + Bit(k, h) BY <2>1, PrefixStep
  <2>4. QED BY <2>1, <2>2, <2>3
<1>2. Half(S, h, side) \subseteq Keys BY DEF Half, Alike
<1>3. QED BY <1>1, <1>2 DEF Alike

\* Each key is in the half its bit tells.
LEMMA HalvesCover ==
  ASSUME NEW S, S \subseteq Keys, NEW h \in Nat, h > 0
  PROVE  /\ \A k \in S : Bit(k, h) \in {0, 1} /\ k \in Half(S, h, Bit(k, h))
         /\ S = Half(S, h, 0) \cup Half(S, h, 1)
<1>1. \A k \in S : Bit(k, h) \in {0, 1} BY KeysNat, PrefixStep
<1>2. QED BY <1>1 DEF Half

\* Where one half is empty, all keys share one bit more.
LEMMA StepDown ==
  ASSUME NEW S, NEW h \in Nat, h > 0, Alike(S, h), ~Forks(S, h)
  PROVE  Alike(S, h - 1)
<1>1. S = Half(S, h, 0) \cup Half(S, h, 1) BY HalvesCover DEF Alike
<1>2. PICK side \in {0, 1} : S = Half(S, h, side) BY <1>1 DEF Forks
<1>3. QED BY <1>2, HalfAlike DEF Alike

\* They do all the way down an edge.
LEMMA AlikeDown ==
  ASSUME NEW S, NEW h \in Nat, NEW b \in 0..h, Alike(S, h),
         \A d \in (b + 1)..h : ~Forks(S, d)
  PROVE  Alike(S, b)
<1> DEFINE T == {d \in Nat : d <= h - b /\ ~Alike(S, h - d)}
<1>1. SUFFICES T = {}
  <2>1. h - b \in Nat /\ h - (h - b) = b /\ h - b <= h - b OBVIOUS
  <2>2. h - b \notin T BY <1>1
  <2>3. Alike(S, h - (h - b)) BY <2>1, <2>2
  <2>4. QED BY <2>1, <2>3
<1>2. SUFFICES ASSUME T # {} PROVE FALSE OBVIOUS
<1>3. PICK d \in T : \A e \in T : d <= e BY <1>2, LeastNat
<1>4. d # 0 BY <1>3
<1>5. d - 1 \in Nat /\ d - 1 \notin T BY <1>3, <1>4
<1>6. Alike(S, h - (d - 1)) BY <1>3, <1>4, <1>5
<1>7. h - (d - 1) \in (b + 1)..h /\ h - (d - 1) > 0 BY <1>3, <1>4
<1>8. Alike(S, (h - (d - 1)) - 1) BY <1>6, <1>7, StepDown
<1>9. (h - (d - 1)) - 1 = h - d BY <1>3
<1>10. QED BY <1>3, <1>8, <1>9

\* An edge ends at the highest fork, or at the leaf.
LEMMA BottomIsHighest ==
  ASSUME NEW S, NEW h \in Nat, h > 0
  PROVE  /\ Bottom(S, h) \in 0..h
         /\ Bottom(S, h) = h <=> Forks(S, h)
         /\ Bottom(S, h) # 0 => Forks(S, Bottom(S, h))
         /\ \A d \in (Bottom(S, h) + 1)..h : ~Forks(S, d)
<1> DEFINE P(b) == Forks(S, b) /\ \A d \in (b + 1)..h : ~Forks(S, d)
<1>1. CASE ~ \E b \in 1..h : Forks(S, b) BY <1>1 DEF Bottom
<1>2. CASE \E b \in 1..h : Forks(S, b)
  <2> DEFINE T == {e \in Nat : e < h /\ Forks(S, h - e)}
  <2>1. T # {}
    <3>1. PICK b \in 1..h : Forks(S, b) BY <1>2
    <3>2. h - b \in Nat /\ h - b < h /\ h - (h - b) = b OBVIOUS
    <3>3. QED BY <3>1, <3>2
  <2>2. PICK e \in T : \A x \in T : e <= x BY <2>1, LeastNat
  <2>3. h - e \in 1..h /\ Forks(S, h - e) BY <2>2
  <2>4. ASSUME NEW d \in ((h - e) + 1)..h PROVE ~Forks(S, d)
    <3>1. h - d \in Nat /\ h - d < h /\ h - (h - d) = d /\ ~ (e <= h - d) BY <2>2, <2>3, <2>4
    <3>2. QED BY <2>2, <3>1
  <2>5. \E b \in 1..h : P(b) BY <2>3, <2>4
  <2>6. Bottom(S, h) = CHOOSE b \in 1..h : P(b) BY <1>2 DEF Bottom
  <2> HIDE DEF P
  <2>7. Bottom(S, h) \in 1..h /\ P(Bottom(S, h)) BY <2>5, <2>6
  <2>8. QED BY <2>7 DEF P
<1>3. QED BY <1>1, <1>2

-----------------------------------------------------------------------------
(* The recursive function is what its equation says.                         *)

\* A subtrie is made of lower ones only.
LEMMA SubtrieOfLower ==
  ASSUME NEW trie, NEW f, NEW g, NEW h \in Nat, \A m \in 0..(h - 1) : f[m] = g[m]
  PROVE  Subtrie(trie, f, h) = Subtrie(trie, g, h)
<1>1. CASE h = 0 BY <1>1 DEF Subtrie
<1>2. CASE h > 0
  <2>1. h - 1 \in 0..(h - 1) /\ h # 0 BY <1>2
  <2>2. \A S : Bottom(S, h) # h => Bottom(S, h) \in 0..(h - 1)
    <3> SUFFICES ASSUME NEW S, Bottom(S, h) # h PROVE Bottom(S, h) \in 0..(h - 1) OBVIOUS
    <3>1. Bottom(S, h) \in 0..h BY <1>2, BottomIsHighest
    <3>2. QED BY <3>1
  <2>3. f[h - 1] = g[h - 1] BY <2>1
  <2>4. \A S : Bottom(S, h) # h => f[Bottom(S, h)] = g[Bottom(S, h)] BY <2>2
  <2>5. ASSUME NEW S
        PROVE  /\ TopNode(f, S, h) = TopNode(g, S, h)
               /\ \A key : Further(f, S, h, key) = Further(g, S, h, key)
    BY <2>3, <2>4 DEF TopNode, Further
  <2> DEFINE Towards(e, S) == [key \in Keys |-> <<TopNode(e, S, h)>> \o Further(e, S, h, key)]
             Of(e, S) == [hash |-> NodeHash(TopNode(e, S, h)), towards |-> Towards(e, S)]
  <2>6. \A e : Subtrie(trie, e, h) = [S \in SUBSET DOMAIN trie |-> Of(e, S)]
    BY <2>1 DEF Subtrie
  <2>7. ASSUME NEW S PROVE Of(f, S) = Of(g, S)
    <3>1. TopNode(f, S, h) = TopNode(g, S, h) BY <2>5
    <3>2. \A key \in Keys : <<TopNode(f, S, h)>> \o Further(f, S, h, key)
                            = <<TopNode(g, S, h)>> \o Further(g, S, h, key)
      BY <2>5
    <3>3. Towards(f, S) = Towards(g, S) BY <3>2
    <3> HIDE DEF Towards
    <3>4. QED BY <3>1, <3>3
  <2> HIDE DEF Of
  <2>8. [S \in SUBSET DOMAIN trie |-> Of(f, S)] = [S \in SUBSET DOMAIN trie |-> Of(g, S)]
    BY <2>7
  <2>9. QED BY <2>6, <2>8
<1>3. QED BY <1>1, <1>2

\* Subtries is a function that satisfies its recursive definition: were there a least
\* height up to which there is none, one more application would make it.
LEMMA SubtriesEquation ==
  ASSUME NEW trie
  PROVE  Subtries(trie) = [h \in 0..Width |-> Subtrie(trie, Subtries(trie), h)]
<1> DEFINE UpTo(g, n) == g = [h \in 0..n |-> Subtrie(trie, g, h)]
           T == {n \in Nat : ~ \E g : UpTo(g, n)}
<1>1. ASSUME NEW n \in Nat, NEW f, n > 0 => UpTo(f, n - 1)
      PROVE  \E g : UpTo(g, n)
  <2> DEFINE g == [h \in 0..n |-> Subtrie(trie, f, h)]
  <2>1. ASSUME NEW h \in 0..n PROVE Subtrie(trie, f, h) = Subtrie(trie, g, h)
    <3>1. h \in Nat OBVIOUS
    <3>2. ASSUME NEW m \in 0..(h - 1) PROVE f[m] = g[m]
      <4>1. m \in 0..n /\ n > 0 /\ m \in 0..(n - 1) BY <3>1
      <4>2. f[m] = Subtrie(trie, f, m) BY <1>1, <4>1
      <4>3. QED BY <4>1, <4>2
    <3> HIDE DEF g
    <3>3. QED BY <3>1, <3>2, SubtrieOfLower
  <2>2. g = [h \in 0..n |-> Subtrie(trie, g, h)]
    <3> DEFINE e == [h \in 0..n |-> Subtrie(trie, g, h)]
    <3>1. \A h \in 0..n : g[h] = e[h] BY <2>1
    <3>2. QED BY <2>1
  <2> HIDE DEF g
  <2>3. QED BY <2>2
<1>2. T = {}
  <2>1. SUFFICES ASSUME T # {} PROVE FALSE OBVIOUS
  <2>2. PICK n \in T : \A m \in T : n <= m BY <2>1, LeastNat
  <2>3. n > 0 => \E f : UpTo(f, n - 1)
    <3> SUFFICES ASSUME n > 0 PROVE \E f : UpTo(f, n - 1) OBVIOUS
    <3>1. n - 1 \in Nat /\ ~ (n <= n - 1) BY <2>2
    <3>2. n - 1 \notin T BY <2>2, <3>1
    <3>3. QED BY <3>1, <3>2
  <2>4. PICK f : n > 0 => UpTo(f, n - 1) BY <2>3
  <2>5. n \in Nat /\ ~ \E g : UpTo(g, n) BY <2>2
  <2>6. QED BY <1>1, <2>4, <2>5
<1>3. \E g : UpTo(g, Width) BY <1>2, WidthAssumption
<1>4. Subtries(trie) = CHOOSE f : UpTo(f, Width) BY DEF Subtries
<1> HIDE DEF UpTo
<1>5. UpTo(Subtries(trie), Width) BY <1>3, <1>4
<1>6. QED BY <1>5 DEF UpTo

-----------------------------------------------------------------------------
(* The way towards a key that is present.                                    *)

\* The subtrie of the present keys S with its top at height h.
Sub(trie, S, h) == Subtries(trie)[h][S]

\* Its keys are keys.
IsTrie(trie) == DOMAIN trie \subseteq Keys

\* A subtrie of height zero is a leaf.
LEMMA SubAtLeaf ==
  ASSUME NEW trie, NEW S \in SUBSET DOMAIN trie, NEW k, S = {k}
  PROVE  /\ Sub(trie, S, 0).hash = trie[k]
         /\ \A key \in Keys : Sub(trie, S, 0).towards[key] = <<>>
<1> DEFINE F == Subtries(trie)
<1>1. 0 \in 0..Width BY WidthAssumption
<1>2. F = [h \in 0..Width |-> Subtrie(trie, F, h)] BY SubtriesEquation
<1> HIDE DEF F
<1>3. F[0] = Subtrie(trie, F, 0) BY <1>1, <1>2
<1>4. F[0][S] = [hash |-> trie[CHOOSE x \in S : TRUE], towards |-> [key \in Keys |-> <<>>]]
  BY <1>3 DEF Subtrie
<1>5. (CHOOSE x \in S : TRUE) = k OBVIOUS
<1>6. QED BY <1>4, <1>5 DEF F, Sub

\* A higher one is its top node over lower ones.
LEMMA SubAbove ==
  ASSUME NEW trie, NEW S \in SUBSET DOMAIN trie, NEW h \in 1..Width
  PROVE  LET node == TopNode(Subtries(trie), S, h)
         IN  /\ Sub(trie, S, h).hash = NodeHash(node)
             /\ \A key \in Keys :
                  Sub(trie, S, h).towards[key] =
                    <<node>> \o Further(Subtries(trie), S, h, key)
<1> DEFINE F == Subtries(trie)
           node == TopNode(F, S, h)
<1>1. h \in 0..Width /\ h # 0 BY WidthAssumption
<1>2. F = [i \in 0..Width |-> Subtrie(trie, F, i)] BY SubtriesEquation
<1> HIDE DEF F
<1>3. F[h] = Subtrie(trie, F, h) BY <1>1, <1>2
<1>4. F[h][S] = [hash |-> NodeHash(node),
                 towards |-> [key \in Keys |-> <<node>> \o Further(F, S, h, key)]]
  BY <1>1, <1>3 DEF Subtrie
<1>5. QED BY <1>4 DEF F, Sub

\* What SubAbove says where S forks at h.
LEMMA SubOfFork ==
  ASSUME NEW trie, NEW S \in SUBSET DOMAIN trie, NEW h \in 1..Width, Forks(S, h)
  PROVE  LET node == BinaryNode(Sub(trie, Half(S, h, 0), h - 1).hash,
                                Sub(trie, Half(S, h, 1), h - 1).hash)
         IN  /\ Sub(trie, S, h).hash = NodeHash(node)
             /\ \A key \in Keys :
                  Sub(trie, S, h).towards[key] =
                    <<node>> \o Sub(trie, Half(S, h, Bit(key, h)), h - 1).towards[key]
<1>1. Bottom(S, h) = h BY BottomIsHighest, WidthAssumption
<1> DEFINE F == Subtries(trie)
<1>2. TopNode(F, S, h) = BinaryNode(Sub(trie, Half(S, h, 0), h - 1).hash,
                                    Sub(trie, Half(S, h, 1), h - 1).hash)
  BY <1>1 DEF TopNode, Sub
<1>3. \A key : Further(F, S, h, key) =
                 Sub(trie, Half(S, h, Bit(key, h)), h - 1).towards[key]
  BY <1>1 DEF Further, Sub
<1>4. /\ Sub(trie, S, h).hash = NodeHash(TopNode(F, S, h))
      /\ \A key \in Keys : Sub(trie, S, h).towards[key] =
                             <<TopNode(F, S, h)>> \o Further(F, S, h, key)
  BY SubAbove
<1> HIDE DEF F
<1>5. QED BY <1>2, <1>3, <1>4

\* The binary node at a fork; towards a key the nodes go on in its half.
ForkNode(trie, S, h) ==
  BinaryNode(Sub(trie, Half(S, h, 0), h - 1).hash, Sub(trie, Half(S, h, 1), h - 1).hash)

LEMMA TowardsAtFork ==
  ASSUME NEW trie, NEW S \in SUBSET DOMAIN trie, NEW h \in 1..Width, Forks(S, h),
         NEW key \in Keys
  PROVE  Sub(trie, S, h).towards[key] =
           <<ForkNode(trie, S, h)>> \o Sub(trie, Half(S, h, Bit(key, h)), h - 1).towards[key]
<1>1. \A k \in Keys : Sub(trie, S, h).towards[k] =
        <<BinaryNode(Sub(trie, Half(S, h, 0), h - 1).hash,
                     Sub(trie, Half(S, h, 1), h - 1).hash)>>
          \o Sub(trie, Half(S, h, Bit(k, h)), h - 1).towards[k]
  BY SubOfFork
<1>2. QED BY <1>1 DEF ForkNode

\* And where it does not.
LEMMA SubOfEdge ==
  ASSUME NEW trie, NEW S \in SUBSET DOMAIN trie, NEW h \in 1..Width, ~Forks(S, h)
  PROVE  LET b == Bottom(S, h)
             node == EdgeNode(Sub(trie, S, b).hash, Num(Path(S, h, b)), h - b)
         IN  /\ b \in 0..(h - 1)
             /\ Sub(trie, S, h).hash = NodeHash(node)
             /\ \A key \in Keys :
                  Sub(trie, S, h).towards[key] =
                    <<node>> \o IF Path(S, h, b) = Path({key}, h, b)
                                THEN Sub(trie, S, b).towards[key] ELSE <<>>
<1>1. Bottom(S, h) # h /\ Bottom(S, h) \in 0..(h - 1) BY BottomIsHighest, WidthAssumption
<1>2. TopNode(Subtries(trie), S, h) =
        EdgeNode(Sub(trie, S, Bottom(S, h)).hash, Num(Path(S, h, Bottom(S, h))),
                 h - Bottom(S, h))
  BY <1>1 DEF TopNode, Sub
<1>3. \A key : Further(Subtries(trie), S, h, key) =
                 IF Path(S, h, Bottom(S, h)) = Path({key}, h, Bottom(S, h))
                 THEN Sub(trie, S, Bottom(S, h)).towards[key] ELSE <<>>
  BY <1>1 DEF Further, Sub
<1>4. /\ Sub(trie, S, h).hash = NodeHash(TopNode(Subtries(trie), S, h))
      /\ \A key \in Keys : Sub(trie, S, h).towards[key] =
                             <<TopNode(Subtries(trie), S, h)>> \o Further(Subtries(trie), S, h, key)
  BY SubAbove
<1>5. QED BY <1>1, <1>2, <1>3, <1>4

\* nodes lead from the height top, where the hash is x, down to leaf along key.
LeadsDown(nodes, key, leaf, top, x) ==
  /\ \E T : nodes \in Seq(T)
  /\ \A j \in 1..Len(nodes) : nodes[j].tag \in {"binary", "edge"}
  /\ Linked(nodes)
  /\ Below(nodes, leaf, 0) = x
  /\ \E h \in [0..Len(nodes) -> 0..top] :
       /\ h[Len(nodes)] = 0 /\ h[0] = top
       /\ \A j \in 1..Len(nodes) :
            Rise(nodes[j]) \in 1..Width /\ h[j - 1] = h[j] + Rise(nodes[j])
       /\ OnKey(nodes, key, leaf, h, 0)

\* A sequence with one more element in front.
LEMMA OneMore ==
  ASSUME NEW T, NEW s \in Seq(T), NEW x
  PROVE  /\ <<x>> \o s \in Seq(T \cup {x})
         /\ Len(<<x>> \o s) = Len(s) + 1 /\ Len(s) \in Nat
         /\ (<<x>> \o s)[1] = x
         /\ \A j \in 1..Len(s) : (<<x>> \o s)[j + 1] = s[j]
         /\ \A j \in 2..(Len(s) + 1) : (<<x>> \o s)[j] = s[j - 1]
OBVIOUS

\* From a leaf no nodes lead to it.
LEMMA NoNodesDown ==
  ASSUME NEW key, NEW leaf
  PROVE  LeadsDown(<<>>, key, leaf, 0, leaf)
<1> DEFINE h == [j \in 0..0 |-> 0]
<1>1. <<>> \in Seq({}) /\ Len(<<>>) = 0 OBVIOUS
<1>2. h \in [0..Len(<<>>) -> 0..0] /\ h[0] = 0 BY <1>1
<1>3. OnKey(<<>>, key, leaf, h, 0) BY <1>1 DEF OnKey
<1>4. Linked(<<>>) /\ Below(<<>>, leaf, 0) = leaf BY <1>1 DEF Linked, Below
<1> HIDE DEF h
<1>5. QED BY <1>1, <1>2, <1>3, <1>4 DEF LeadsDown

\* A node on top of a way makes a longer way.
LEMMA OneNodeHigher ==
  ASSUME NEW s, NEW key, NEW leaf, NEW b \in Nat, NEW x, LeadsDown(s, key, leaf, b, x),
         NEW node, node.tag \in {"binary", "edge"}, Rise(node) \in 1..Width,
         node.tag = "binary" => x = Side(node, key, b + 1),
         node.tag = "edge" =>
           node.child = x /\ (b = 0 => node.path = Num(LowBits(key, node.len)))
  PROVE  LeadsDown(<<node>> \o s, key, leaf, b + Rise(node), NodeHash(node))
<1> DEFINE t == <<node>> \o s
           top == b + Rise(node)
<1>1. PICK T : s \in Seq(T) BY DEF LeadsDown
<1>2. /\ t \in Seq(T \cup {node})
      /\ Len(t) = Len(s) + 1 /\ Len(s) \in Nat /\ t[1] = node
      /\ \A j \in 1..Len(s) : t[j + 1] = s[j]
      /\ \A j \in 2..(Len(s) + 1) : t[j] = s[j - 1]
  BY <1>1, OneMore
<1> HIDE DEF t
<1>3. PICK h \in [0..Len(s) -> 0..b] :
        /\ h[Len(s)] = 0 /\ h[0] = b
        /\ \A j \in 1..Len(s) : Rise(s[j]) \in 1..Width /\ h[j - 1] = h[j] + Rise(s[j])
        /\ OnKey(s, key, leaf, h, 0)
  BY DEF LeadsDown
<1>4. top \in Nat /\ top > b /\ Rise(node) \in Nat BY WidthAssumption
<1> DEFINE g == [j \in 0..Len(t) |-> IF j = 0 THEN top ELSE h[j - 1]]
<1>5. /\ g \in [0..Len(t) -> 0..top] /\ g[0] = top
      /\ \A j \in 1..Len(t) : g[j] = h[j - 1]
  <2>1. ASSUME NEW j \in 1..Len(t) PROVE j - 1 \in 0..Len(s) /\ h[j - 1] \in 0..b
    <3>1. j - 1 \in 0..Len(s) BY <1>2
    <3>2. QED BY <1>3, <3>1
  <2>2. 0 \in 0..Len(t) BY <1>2
  <2>3. QED BY <1>4, <2>1, <2>2
<1> HIDE DEF g
<1>6. g[Len(t)] = 0 BY <1>2, <1>3, <1>5
<1>7. ASSUME NEW j \in 1..Len(t)
      PROVE  Rise(t[j]) \in 1..Width /\ g[j - 1] = g[j] + Rise(t[j])
  <2>1. CASE j = 1
    <3>1. g[1] = h[0] /\ g[1 - 1] = top BY <1>2, <1>5
    <3>2. QED BY <1>2, <1>3, <2>1, <3>1
  <2>2. CASE j > 1
    <3>1. /\ j - 1 \in 1..Len(s) /\ t[j] = s[j - 1] /\ j - 1 \in 1..Len(t)
          /\ g[j] = h[j - 1] /\ g[j - 1] = h[(j - 1) - 1]
      BY <1>2, <1>5, <2>2
    <3>2. QED BY <1>3, <3>1
  <2>3. QED BY <2>1, <2>2
<1>8. ASSUME NEW j \in 1..Len(t)
      PROVE  Below(t, leaf, j) = IF j = 1 THEN x ELSE Below(s, leaf, j - 1)
  <2>1. Below(s, leaf, 0) = x BY DEF LeadsDown
  <2>2. CASE j = Len(t)
    <3>1. j - 1 = Len(s) BY <1>2, <2>2
    <3>2. QED BY <2>1, <2>2, <3>1 DEF Below
  <2>3. CASE j # Len(t)
    <3>1. j - 1 # Len(s) /\ j \in 1..Len(s) /\ (j - 1) + 1 = j /\ t[j + 1] = s[j]
      BY <1>2, <2>3
    <3>2. Below(t, leaf, j) = NodeHash(s[j]) BY <2>3, <3>1 DEF Below
    <3>3. Below(s, leaf, j - 1) = NodeHash(s[j]) BY <3>1 DEF Below
    <3>4. QED BY <2>1, <3>2, <3>3
  <2>4. QED BY <2>2, <2>3
<1>9. Linked(t)
  <2> SUFFICES ASSUME NEW j \in 1..(Len(t) - 1), t[j].tag = "edge"
               PROVE  t[j].child = NodeHash(t[j + 1])
    BY DEF Linked
  <2>1. j \in 1..Len(t) /\ j # Len(t) BY <1>2
  <2>2. Below(t, leaf, j) = NodeHash(t[j + 1]) BY <2>1 DEF Below
  <2>3. CASE j = 1 BY <1>2, <1>8, <2>1, <2>2, <2>3
  <2>4. CASE j > 1
    <3>1. j - 1 \in 1..(Len(s) - 1) /\ t[j] = s[j - 1] /\ (j - 1) + 1 = j /\ t[j + 1] = s[j]
      BY <1>2, <2>4
    <3>2. s[j - 1].child = NodeHash(s[(j - 1) + 1]) BY <3>1 DEF LeadsDown, Linked
    <3>3. QED BY <3>1, <3>2
  <2>5. QED BY <2>3, <2>4
<1>10. OnKey(t, key, leaf, g, 0)
  <2> SUFFICES ASSUME NEW j \in 1..Len(t)
               PROVE  /\ t[j].tag = "binary" => Below(t, leaf, j) = Side(t[j], key, g[j] + 1)
                      /\ t[j].tag = "edge" /\ j = Len(t) =>
                           t[j].child = leaf /\ t[j].path = Num(LowBits(key, t[j].len))
    BY DEF OnKey
  <2>1. CASE j = 1
    <3>1. t[j] = node /\ Below(t, leaf, j) = x /\ g[j] = b BY <1>2, <1>3, <1>5, <1>8, <2>1
    <3>2. ASSUME j = Len(t) PROVE b = 0 /\ x = leaf
      <4>1. Len(s) = 0 BY <1>2, <2>1, <3>2
      <4>2. b = 0 BY <1>3, <4>1
      <4>3. Below(t, leaf, j) = leaf BY <3>2 DEF Below
      <4>4. QED BY <3>1, <4>2, <4>3
    <3>3. QED BY <3>1, <3>2
  <2>2. CASE j > 1
    <3>1. /\ j - 1 \in 1..Len(s) /\ t[j] = s[j - 1] /\ g[j] = h[j - 1]
          /\ Below(t, leaf, j) = Below(s, leaf, j - 1) /\ (j = Len(t) => j - 1 = Len(s))
      BY <1>2, <1>5, <1>8, <2>2
    <3>2. j - 1 \in (0 + 1)..Len(s) BY <3>1
    <3>3. /\ s[j - 1].tag = "binary" =>
               Below(s, leaf, j - 1) = Side(s[j - 1], key, h[j - 1] + 1)
          /\ s[j - 1].tag = "edge" /\ j - 1 = Len(s) =>
               s[j - 1].child = leaf /\ s[j - 1].path = Num(LowBits(key, s[j - 1].len))
      BY <1>3, <3>2 DEF OnKey
    <3>4. QED BY <3>1, <3>3
  <2>3. QED BY <2>1, <2>2
<1>11. Below(t, leaf, 0) = NodeHash(node) BY <1>2 DEF Below
<1>12. \A j \in 1..Len(t) : t[j].tag \in {"binary", "edge"}
  <2> SUFFICES ASSUME NEW j \in 1..Len(t) PROVE t[j].tag \in {"binary", "edge"} OBVIOUS
  <2>1. CASE j = 1 BY <1>2, <2>1
  <2>2. CASE j > 1
    <3>1. j \in 2..(Len(s) + 1) /\ j - 1 \in 1..Len(s) BY <1>2, <2>2
    <3>2. t[j] = s[j - 1] BY <1>2, <3>1
    <3>3. QED BY <3>1, <3>2 DEF LeadsDown
  <2>3. QED BY <2>1, <2>2
<1>13. QED BY <1>2, <1>5, <1>6, <1>7, <1>9, <1>10, <1>11, <1>12 DEF LeadsDown, t

\* Towards a key that is present the trie's nodes lead all the way down to its leaf.
Reached(trie, h) ==
  \A S \in SUBSET DOMAIN trie : \A key \in S :
    Alike(S, h) =>
      LeadsDown(Sub(trie, S, h).towards[key], key, trie[key], h, Sub(trie, S, h).hash)

\* A binary node has below it, on the key's side, the way to the leaf.
LEMMA ReachedThroughFork ==
  ASSUME NEW trie, IsTrie(trie), NEW h \in 1..Width, Reached(trie, h - 1),
         NEW S \in SUBSET DOMAIN trie, NEW key \in S, Alike(S, h), Forks(S, h)
  PROVE  LeadsDown(Sub(trie, S, h).towards[key], key, trie[key], h, Sub(trie, S, h).hash)
<1> DEFINE U(side) == Sub(trie, Half(S, h, side), h - 1)
           node == BinaryNode(U(0).hash, U(1).hash)
           side == Bit(key, h)
<1>1. h \in Nat /\ h > 0 /\ h - 1 \in Nat BY WidthAssumption
<1>2. side \in {0, 1} /\ key \in Half(S, h, side) BY <1>1, HalvesCover DEF Alike
<1>3. Alike(Half(S, h, side), h - 1) BY <1>1, <1>2, HalfAlike
<1>4. Half(S, h, side) \in SUBSET DOMAIN trie BY DEF Half
<1>5. LeadsDown(U(side).towards[key], key, trie[key], h - 1, U(side).hash)
  BY <1>2, <1>3, <1>4 DEF Reached
<1>6. /\ Sub(trie, S, h).hash = NodeHash(node)
      /\ Sub(trie, S, h).towards[key] = <<node>> \o U(side).towards[key]
  <2>1. Sub(trie, S, h).hash = NodeHash(node) BY SubOfFork
  <2>2. key \in Keys BY DEF Alike
  <2>3. Sub(trie, S, h).towards[key] = <<node>> \o U(side).towards[key]
    BY <2>2, TowardsAtFork DEF ForkNode
  <2>4. QED BY <2>1, <2>3
<1>7. /\ node.tag = "binary" /\ Rise(node) = 1
      /\ node.lower = U(0).hash /\ node.upper = U(1).hash
  BY DEF BinaryNode, Rise
<1>8. U(side).hash = Side(node, key, (h - 1) + 1)
  <2>1. (h - 1) + 1 = h BY <1>1
  <2>2. QED BY <1>2, <1>7, <2>1 DEF Side
<1> HIDE DEF U, node, side
<1>9. LeadsDown(<<node>> \o U(side).towards[key], key, trie[key], (h - 1) + Rise(node),
                NodeHash(node))
  BY <1>1, <1>5, <1>7, <1>8, OneNodeHigher, WidthAssumption
<1>10. (h - 1) + Rise(node) = h BY <1>1, <1>7
<1>11. QED BY <1>6, <1>9, <1>10

\* The keys of S have the bits of any of them.
LEMMA PathOfAny ==
  ASSUME NEW S, NEW h, NEW b, Alike(S, b), NEW key \in S
  PROVE  Path(S, h, b) = (key \div 2^b) % 2^(h - b) /\ Path({key}, h, b) = Path(S, h, b)
<1>1. PICK k \in S : k = CHOOSE x \in S : TRUE OBVIOUS
<1>2. k \div 2^b = key \div 2^b BY DEF Alike
<1>3. Path(S, h, b) = (key \div 2^b) % 2^(h - b) BY <1>1, <1>2 DEF Path
<1>4. (CHOOSE x \in {key} : TRUE) = key OBVIOUS
<1>5. QED BY <1>3, <1>4 DEF Path

\* An edge has it at its end, and its bits are the key's.
LEMMA ReachedAlongEdge ==
  ASSUME NEW trie, IsTrie(trie), NEW h \in 1..Width, \A b \in 0..(h - 1) : Reached(trie, b),
         NEW S \in SUBSET DOMAIN trie, NEW key \in S, Alike(S, h), ~Forks(S, h)
  PROVE  LeadsDown(Sub(trie, S, h).towards[key], key, trie[key], h, Sub(trie, S, h).hash)
<1> DEFINE b == Bottom(S, h)
           U == Sub(trie, S, b)
           node == EdgeNode(U.hash, Num(Path(S, h, b)), h - b)
<1>1. h \in Nat /\ h > 0 BY WidthAssumption
<1>2. b \in 0..(h - 1) BY SubOfEdge
<1>3. Alike(S, b)
  <2>1. \A d \in (b + 1)..h : ~Forks(S, d) BY <1>1, BottomIsHighest
  <2>2. b \in 0..h BY <1>1, <1>2
  <2> HIDE DEF b
  <2>3. QED BY <1>1, <2>1, <2>2, AlikeDown
<1> HIDE DEF b
<1>4. LeadsDown(U.towards[key], key, trie[key], b, U.hash) BY <1>2, <1>3 DEF Reached
<1>5. /\ Path(S, h, b) = (key \div 2^b) % 2^(h - b) /\ Path({key}, h, b) = Path(S, h, b)
  BY <1>3, PathOfAny
<1>6. /\ Sub(trie, S, h).hash = NodeHash(node)
      /\ Sub(trie, S, h).towards[key] = <<node>> \o U.towards[key]
  <2>1. key \in Keys BY DEF Alike
  <2>2. /\ Sub(trie, S, h).hash = NodeHash(node)
        /\ \A i \in Keys : Sub(trie, S, h).towards[i] =
             <<node>> \o IF Path(S, h, b) = Path({i}, h, b) THEN U.towards[i] ELSE <<>>
    BY SubOfEdge DEF b
  <2> HIDE DEF node, U
  <2>3. QED BY <1>5, <2>1, <2>2
<1>7. /\ node.tag = "edge" /\ Rise(node) = h - b /\ node.len = h - b
      /\ node.child = U.hash /\ node.path = Num(Path(S, h, b))
  BY DEF EdgeNode, Rise
<1>8. b = 0 => node.path = Num(LowBits(key, node.len))
  <2> SUFFICES ASSUME b = 0 PROVE node.path = Num(LowBits(key, node.len)) OBVIOUS
  <2>1. h - b = h BY <1>1
  <2>2. key \div 2^0 = key BY PrefixEnds DEF Alike
  <2>3. QED BY <1>5, <1>7, <2>1, <2>2 DEF LowBits
<1> HIDE DEF U, node
<1>9. b \in Nat /\ Rise(node) \in 1..Width BY <1>1, <1>2, <1>7, WidthAssumption
<1>10. LeadsDown(<<node>> \o U.towards[key], key, trie[key], b + Rise(node), NodeHash(node))
  BY <1>4, <1>7, <1>8, <1>9, OneNodeHigher
<1>11. b + Rise(node) = h BY <1>1, <1>7, <1>9
<1>12. QED BY <1>6, <1>10, <1>11

\* So the way is there from every height.
LEMMA ReachedFromAll ==
  ASSUME NEW trie, IsTrie(trie)
  PROVE  \A h \in 0..Width : Reached(trie, h)
<1> DEFINE T == {h \in Nat : h <= Width /\ ~Reached(trie, h)}
<1>1. SUFFICES T = {} BY WidthAssumption
<1>2. SUFFICES ASSUME T # {} PROVE FALSE OBVIOUS
<1>3. PICK h \in T : \A d \in T : h <= d BY <1>2, LeastNat
<1>4. h \in 0..Width /\ ~Reached(trie, h) BY <1>3
<1>5. \A d \in 0..(h - 1) : Reached(trie, d)
  <2> SUFFICES ASSUME NEW d \in 0..(h - 1) PROVE Reached(trie, d) OBVIOUS
  <2>1. d \in Nat /\ d <= Width /\ ~ (h <= d) BY <1>4, WidthAssumption
  <2>2. d \notin T BY <1>3, <2>1
  <2>3. QED BY <2>1, <2>2
<1> HIDE DEF T
<1>6. CASE h = 0
  <2>1. ASSUME NEW S \in SUBSET DOMAIN trie, NEW key \in S, Alike(S, 0)
        PROVE  LeadsDown(Sub(trie, S, 0).towards[key], key, trie[key], 0, Sub(trie, S, 0).hash)
    <3>1. S = {key} BY <2>1, AlikeBottom
    <3>2. key \in Keys BY <2>1 DEF Alike
    <3>3. Sub(trie, S, 0).hash = trie[key] /\ Sub(trie, S, 0).towards[key] = <<>>
      BY <3>1, <3>2, SubAtLeaf
    <3>4. QED BY <3>3, NoNodesDown
  <2>2. Reached(trie, 0) BY <2>1 DEF Reached
  <2>3. QED BY <1>4, <1>6, <2>2
<1>7. CASE h > 0
  <2>1. h \in 1..Width /\ h - 1 \in 0..(h - 1) BY <1>4, <1>7, WidthAssumption
  <2>2. Reached(trie, h - 1) BY <1>5, <2>1
  <2>3. Reached(trie, h)
    BY <1>5, <2>1, <2>2, ReachedThroughFork, ReachedAlongEdge DEF Reached
  <2>4. QED BY <1>4, <2>3
<1>8. QED BY <1>4, <1>6, <1>7

-----------------------------------------------------------------------------
(* The root of a trie determines the trie.                                   *)

\* A pair hash comes from one pair.
LEMMA OnePair ==
  ASSUME NEW a, NEW b, NEW c, NEW d, Pedersen(a, b) = Pedersen(c, d)
  PROVE  a = c /\ b = d
BY DEF Pedersen

\* A number is one number.
LEMMA OneNum ==
  ASSUME NEW m, NEW n, Num(m) = Num(n)
  PROVE  m = n
BY DEF Num

\* The hash of an edge that stands for some bits comes from one edge.
LEMMA OneEdge ==
  ASSUME NEW a, NEW b, NEW c, NEW d, NEW e, NEW f, c # 0, f # 0,
         EdgeHash(a, b, c) = EdgeHash(d, e, f)
  PROVE  a = d /\ b = e /\ c = f
BY DEF EdgeHash

\* And none is both: that takes an edge of no length (proof.rs:255-305).
LEMMA PairIsNoEdge ==
  ASSUME NEW a, NEW b, NEW c, NEW d, NEW e, e # 0
  PROVE  Pedersen(a, b) # EdgeHash(c, d, e)
BY DEF Pedersen, EdgeHash

\* What a binary node hashes to.
LEMMA HashOfBinary ==
  ASSUME NEW a, NEW b
  PROVE  NodeHash(BinaryNode(a, b)) = Pedersen(a, b) /\ BinaryNode(a, b).tag = "binary"
BY DEF NodeHash, BinaryNode

\* What an edge hashes to.
LEMMA HashOfEdge ==
  ASSUME NEW a, NEW b, NEW c
  PROVE  NodeHash(EdgeNode(a, b, c)) = EdgeHash(a, b, c) /\ EdgeNode(a, b, c).tag = "edge"
BY DEF NodeHash, EdgeNode

\* The hash of a subtrie that forks at its top.
LEMMA HashAtFork ==
  ASSUME NEW trie, NEW S \in SUBSET DOMAIN trie, NEW h \in 1..Width, Forks(S, h)
  PROVE  Sub(trie, S, h).hash = Pedersen(Sub(trie, Half(S, h, 0), h - 1).hash,
                                         Sub(trie, Half(S, h, 1), h - 1).hash)
<1> DEFINE node == BinaryNode(Sub(trie, Half(S, h, 0), h - 1).hash,
                              Sub(trie, Half(S, h, 1), h - 1).hash)
<1>1. Sub(trie, S, h).hash = NodeHash(node) BY SubOfFork
<1>2. QED BY <1>1, HashOfBinary

\* The hash of one that does not.
LEMMA HashAtEdge ==
  ASSUME NEW trie, NEW S \in SUBSET DOMAIN trie, NEW h \in 1..Width, ~Forks(S, h)
  PROVE  LET b == Bottom(S, h)
         IN  Sub(trie, S, h).hash = EdgeHash(Sub(trie, S, b).hash, Num(Path(S, h, b)), h - b)
<1> DEFINE b == Bottom(S, h)
           node == EdgeNode(Sub(trie, S, b).hash, Num(Path(S, h, b)), h - b)
<1>1. Sub(trie, S, h).hash = NodeHash(node) BY SubOfEdge
<1> HIDE DEF b
<1>2. NodeHash(node) = EdgeHash(Sub(trie, S, b).hash, Num(Path(S, h, b)), h - b) BY HashOfEdge
<1>3. QED BY <1>1, <1>2 DEF b

\* It is that of an edge which stands for some bits.
LEMMA EdgeAtEdge ==
  ASSUME NEW trie, NEW S \in SUBSET DOMAIN trie, NEW h \in 1..Width, ~Forks(S, h)
  PROVE  \E x, y, z : z # 0 /\ Sub(trie, S, h).hash = EdgeHash(x, y, z)
<1> DEFINE b == Bottom(S, h)
<1>1. b \in 0..(h - 1) BY SubOfEdge
<1>2. Sub(trie, S, h).hash = EdgeHash(Sub(trie, S, b).hash, Num(Path(S, h, b)), h - b)
  BY HashAtEdge
<1> HIDE DEF b
<1>3. h - b # 0 BY <1>1, WidthAssumption
<1>4. QED BY <1>2, <1>3

\* A hash above the leaves is that of a node.
LEMMA HashOfNode ==
  ASSUME NEW trie, NEW S \in SUBSET DOMAIN trie, NEW h \in 1..Width
  PROVE  \E node : node.tag \in {"binary", "edge"} /\ Sub(trie, S, h).hash = NodeHash(node)
<1> DEFINE b == Bottom(S, h)
           m == BinaryNode(Sub(trie, Half(S, h, 0), h - 1).hash,
                           Sub(trie, Half(S, h, 1), h - 1).hash)
           n == EdgeNode(Sub(trie, S, b).hash, Num(Path(S, h, b)), h - b)
<1>1. CASE Forks(S, h)
  <2>1. Sub(trie, S, h).hash = NodeHash(m) BY <1>1, SubOfFork
  <2>2. m.tag = "binary" BY HashOfBinary
  <2>3. QED BY <2>1, <2>2
<1>2. CASE ~Forks(S, h)
  <2>1. Sub(trie, S, h).hash = NodeHash(n) BY <1>2, SubOfEdge
  <2>2. n.tag = "edge" BY HashOfEdge
  <2>3. QED BY <2>1, <2>2
<1>3. QED BY <1>1, <1>2

\* The hash of a node is no plain number.
LEMMA NodeHashIsNoFelt ==
  ASSUME NEW node, NEW n
  PROVE  NodeHash(node) # Num(n)
BY DEF NodeHash, EdgeHash, Pedersen, Num

\* With one hash at height h, and on one way down to there, two tries have the
\* same keys and the same leaves below.
OneBelow(t, u, h) ==
  \A S \in SUBSET DOMAIN t, R \in SUBSET DOMAIN u :
    S # {} /\ R # {} /\ Alike(S \cup R, h) /\ Sub(t, S, h).hash = Sub(u, R, h).hash =>
      S = R /\ \A k \in S : t[k] = u[k]

\* With one hash at a fork there is one on each side.
LEMMA OneBelowFork ==
  ASSUME NEW t, NEW u, NEW h \in 1..Width, OneBelow(t, u, h - 1),
         NEW S \in SUBSET DOMAIN t, NEW R \in SUBSET DOMAIN u, Forks(S, h), Forks(R, h),
         Alike(S \cup R, h), Sub(t, S, h).hash = Sub(u, R, h).hash
  PROVE  S = R /\ \A k \in S : t[k] = u[k]
<1> DEFINE A(side) == Half(S, h, side)
           B(side) == Half(R, h, side)
<1>1. h \in Nat /\ h > 0 BY WidthAssumption
<1>2. /\ Sub(t, A(0), h - 1).hash = Sub(u, B(0), h - 1).hash
      /\ Sub(t, A(1), h - 1).hash = Sub(u, B(1), h - 1).hash
  <2>1. Sub(t, S, h).hash = Pedersen(Sub(t, A(0), h - 1).hash, Sub(t, A(1), h - 1).hash)
    BY HashAtFork
  <2>2. Sub(u, R, h).hash = Pedersen(Sub(u, B(0), h - 1).hash, Sub(u, B(1), h - 1).hash)
    BY HashAtFork
  <2> DEFINE v == Sub(t, A(0), h - 1).hash
             x == Sub(t, A(1), h - 1).hash
             y == Sub(u, B(0), h - 1).hash
             z == Sub(u, B(1), h - 1).hash
  <2>3. Pedersen(v, x) = Pedersen(y, z) BY <2>1, <2>2
  <2> HIDE DEF v, x, y, z
  <2>4. v = y /\ x = z BY <2>3, OnePair
  <2>5. QED BY <2>4 DEF v, x, y, z
<1>3. ASSUME NEW side \in {0, 1}
      PROVE  A(side) = B(side) /\ \A k \in A(side) : t[k] = u[k]
  <2>1. A(side) # {} /\ B(side) # {} BY DEF Forks
  <2>2. Half(S \cup R, h, side) = A(side) \cup B(side) BY DEF Half
  <2>3. Alike(A(side) \cup B(side), h - 1) BY <1>1, <2>1, <2>2, HalfAlike
  <2>4. A(side) \in SUBSET DOMAIN t /\ B(side) \in SUBSET DOMAIN u BY DEF Half
  <2>5. Sub(t, A(side), h - 1).hash = Sub(u, B(side), h - 1).hash BY <1>2
  <2> HIDE DEF A, B
  <2>6. QED BY <2>1, <2>3, <2>4, <2>5 DEF OneBelow
<1>4. S = A(0) \cup A(1) /\ R = B(0) \cup B(1) BY <1>1, HalvesCover DEF Alike
<1> HIDE DEF A, B
<1>5. QED BY <1>3, <1>4

\* With one hash at an edge there is one at its end, on the same way.
LEMMA OneBelowEdge ==
  ASSUME NEW t, NEW u, NEW h \in 1..Width, \A b \in 0..(h - 1) : OneBelow(t, u, b),
         NEW S \in SUBSET DOMAIN t, NEW R \in SUBSET DOMAIN u, ~Forks(S, h), ~Forks(R, h),
         S # {}, R # {}, Alike(S \cup R, h), Sub(t, S, h).hash = Sub(u, R, h).hash
  PROVE  S = R /\ \A k \in S : t[k] = u[k]
<1> DEFINE b == Bottom(S, h)
           d == Bottom(R, h)
<1>1. h \in Nat /\ h > 0 BY WidthAssumption
<1>2. b \in 0..(h - 1) /\ d \in 0..(h - 1) BY SubOfEdge
<1>3. /\ Sub(t, S, b).hash = Sub(u, R, d).hash
      /\ Path(S, h, b) = Path(R, h, d) /\ h - b = h - d
  <2>1. Sub(t, S, h).hash = EdgeHash(Sub(t, S, b).hash, Num(Path(S, h, b)), h - b)
    BY HashAtEdge
  <2>2. Sub(u, R, h).hash = EdgeHash(Sub(u, R, d).hash, Num(Path(R, h, d)), h - d)
    BY HashAtEdge
  <2> DEFINE v == Sub(t, S, b).hash
             x == Num(Path(S, h, b))
             y == Sub(u, R, d).hash
             z == Num(Path(R, h, d))
  <2> HIDE DEF b, d
  <2>3. EdgeHash(v, x, h - b) = EdgeHash(y, z, h - d) BY <2>1, <2>2
  <2>4. h - b # 0 /\ h - d # 0 BY <1>1, <1>2
  <2> HIDE DEF v, x, y, z
  <2>5. v = y /\ x = z /\ h - b = h - d BY <2>3, <2>4, OneEdge
  <2>6. Path(S, h, b) = Path(R, h, d) BY <2>5, OneNum DEF x, z
  <2>7. QED BY <2>5, <2>6 DEF v, y
<1>4. /\ \A e \in (b + 1)..h : ~Forks(S, e)
      /\ \A e \in (d + 1)..h : ~Forks(R, e)
  BY <1>1, BottomIsHighest
<1> HIDE DEF b, d
<1>5. b = d /\ b \in 0..h BY <1>1, <1>2, <1>3
<1>6. Alike(S, h) /\ Alike(R, h) BY DEF Alike
<1>7. Alike(S, b) BY <1>1, <1>4, <1>5, <1>6, AlikeDown
<1>8. Alike(R, b) BY <1>1, <1>4, <1>5, <1>6, AlikeDown
<1>9. ASSUME NEW j \in S, NEW k \in R PROVE j \div 2^b = k \div 2^b
  <2>1. j \in Nat /\ k \in Nat /\ j \div 2^h = k \div 2^h
    <3>1. j \in S \cup R /\ k \in S \cup R OBVIOUS
    <3>2. j \in Keys /\ k \in Keys /\ j \div 2^h = k \div 2^h BY <3>1 DEF Alike
    <3>3. QED BY <3>2, KeysNat
  <2>2. Path(S, h, b) = (j \div 2^b) % 2^(h - b) BY <1>7, PathOfAny
  <2>3. Path(R, h, b) = (k \div 2^b) % 2^(h - b) BY <1>8, PathOfAny
  <2>4. (j \div 2^b) % 2^(h - b) = (k \div 2^b) % 2^(h - b) BY <1>3, <1>5, <2>2, <2>3
  <2>5. QED BY <1>1, <1>5, <2>1, <2>4, PrefixDown
<1>10. Alike(S \cup R, b)
  <2>1. \A j, k \in S \cup R : j \div 2^b = k \div 2^b
    <3>1. \A j, k \in S : j \div 2^b = k \div 2^b BY <1>7 DEF Alike
    <3>2. \A j, k \in R : j \div 2^b = k \div 2^b BY <1>8 DEF Alike
    <3>3. QED BY <1>9, <3>1, <3>2
  <2>2. QED BY <1>6, <2>1 DEF Alike
<1>11. OneBelow(t, u, b) BY <1>2
<1>12. QED BY <1>3, <1>5, <1>10, <1>11 DEF OneBelow

\* So it is at every height, from the leaves up.
LEMMA OneBelowAll ==
  ASSUME NEW t, NEW u
  PROVE  \A h \in 0..Width : OneBelow(t, u, h)
<1> DEFINE T == {h \in Nat : h <= Width /\ ~OneBelow(t, u, h)}
<1>1. SUFFICES T = {} BY WidthAssumption
<1>2. SUFFICES ASSUME T # {} PROVE FALSE OBVIOUS
<1>3. PICK h \in T : \A d \in T : h <= d BY <1>2, LeastNat
<1>4. h \in 0..Width /\ ~OneBelow(t, u, h) BY <1>3
<1>5. \A d \in 0..(h - 1) : OneBelow(t, u, d)
  <2> SUFFICES ASSUME NEW d \in 0..(h - 1) PROVE OneBelow(t, u, d) OBVIOUS
  <2>1. d \in Nat /\ d <= Width /\ ~ (h <= d) BY <1>4, WidthAssumption
  <2>2. d \notin T BY <1>3, <2>1
  <2>3. QED BY <2>1, <2>2
<1> HIDE DEF T
<1> SUFFICES ASSUME NEW S \in SUBSET DOMAIN t, NEW R \in SUBSET DOMAIN u,
                    S # {}, R # {}, Alike(S \cup R, h), Sub(t, S, h).hash = Sub(u, R, h).hash
             PROVE  S = R /\ \A k \in S : t[k] = u[k]
  BY <1>4 DEF OneBelow
<1>6. CASE h = 0
  <2>1. PICK k \in S \cup R : S \cup R = {k} BY <1>6, AlikeBottom
  <2>2. S = {k} /\ R = {k} BY <2>1
  <2>3. Sub(t, S, 0).hash = t[k] /\ Sub(u, R, 0).hash = u[k] BY <2>2, SubAtLeaf
  <2>4. QED BY <1>6, <2>2, <2>3
<1>7. CASE h > 0
  <2>1. h \in 1..Width /\ h - 1 \in 0..(h - 1) BY <1>4, <1>7, WidthAssumption
  <2>2. Forks(S, h) => \E x, y : Sub(t, S, h).hash = Pedersen(x, y) BY <2>1, HashAtFork
  <2>3. Forks(R, h) => \E x, y : Sub(u, R, h).hash = Pedersen(x, y) BY <2>1, HashAtFork
  <2>4. ~Forks(S, h) => \E x, y, z : z # 0 /\ Sub(t, S, h).hash = EdgeHash(x, y, z)
    BY <2>1, EdgeAtEdge
  <2>5. ~Forks(R, h) => \E x, y, z : z # 0 /\ Sub(u, R, h).hash = EdgeHash(x, y, z)
    BY <2>1, EdgeAtEdge
  <2>6. \A x, y, a, b, c : c # 0 => Pedersen(x, y) # EdgeHash(a, b, c) BY PairIsNoEdge
  <2>7. Forks(S, h) <=> Forks(R, h) BY <2>2, <2>3, <2>4, <2>5, <2>6
  <2>8. CASE Forks(S, h)
    <3>1. Forks(R, h) /\ OneBelow(t, u, h - 1) BY <1>5, <2>1, <2>7, <2>8
    <3>2. QED BY <2>1, <2>8, <3>1, OneBelowFork
  <2>9. CASE ~Forks(S, h) BY <1>5, <2>1, <2>7, <2>9, OneBelowEdge
  <2>10. QED BY <2>8, <2>9
<1>8. QED BY <1>4, <1>6, <1>7

\* Two tries with one root are one trie: a root, compared at proof.rs:55-131, stands
\* for all keys and leaves under it.
THEOREM RootDeterminesTrie ==
  ASSUME NEW t, NEW u, IsTrie(t), IsTrie(u), TrieRoot(t) = TrieRoot(u)
  PROVE  DOMAIN t = DOMAIN u /\ \A k \in DOMAIN t : t[k] = u[k]
<1>1. Width \in 1..Width /\ Width \in 0..Width BY WidthAssumption
<1>2. ASSUME NEW v, DOMAIN v # {} PROVE TrieRoot(v) # Num(0)
  <2>1. DOMAIN v \in SUBSET DOMAIN v OBVIOUS
  <2>2. TrieRoot(v) = Sub(v, DOMAIN v, Width).hash BY <1>2 DEF TrieRoot, Whole, Sub
  <2>3. QED BY <1>1, <2>1, <2>2, HashOfNode, NodeHashIsNoFelt
<1>3. CASE DOMAIN t = {}
  <2>1. TrieRoot(t) = Num(0) BY <1>3 DEF TrieRoot
  <2>2. QED BY <1>2, <1>3, <2>1
<1>4. CASE DOMAIN t # {}
  <2>1. DOMAIN u # {} BY <1>2, <1>4 DEF TrieRoot
  <2>2. Sub(t, DOMAIN t, Width).hash = Sub(u, DOMAIN u, Width).hash
    BY <1>4, <2>1 DEF TrieRoot, Whole, Sub
  <2>3. Alike(DOMAIN t \cup DOMAIN u, Width) BY <1>4, AlikeTop DEF IsTrie
  <2>4. OneBelow(t, u, Width) BY <1>1, OneBelowAll
  <2>5. QED BY <1>4, <2>1, <2>2, <2>3, <2>4 DEF OneBelow
<1>5. QED BY <1>3, <1>4

\* Nodes that lead to a leaf show it at their end.
LEMMA LeadsShows ==
  ASSUME NEW nodes, NEW key, NEW leaf, NEW h, Leads(nodes, key, leaf, h)
  PROVE  /\ Len(nodes) \in Nat /\ Len(nodes) > 0
         /\ FullPath(nodes, key, leaf)
         /\ leaf = IF nodes[Len(nodes)].tag = "edge" THEN nodes[Len(nodes)].child
                   ELSE Side(nodes[Len(nodes)], key, 1)
<1>1. Len(nodes) \in Nat /\ h \in HeightsOf(nodes) BY DEF Leads
<1>2. FullPath(nodes, key, leaf) BY DEF Leads, FullPath
<1>3. Len(nodes) > 0 BY <1>1, <1>2, PathNotEmpty
<1>4. Len(nodes) \in 1..Len(nodes) BY <1>1, <1>3
<1>5. h[Len(nodes)] = 0 BY <1>1, HeightsRange
<1>6. Below(nodes, leaf, Len(nodes)) = leaf BY DEF Below
<1>7. QED BY <1>1, <1>2, <1>3, <1>4, <1>5, <1>6, BelowIsChild

\* The proof of a key that is present leads from the root to its leaf.
LEMMA ProofOfPresent ==
  ASSUME NEW t, IsTrie(t), NEW key \in DOMAIN t
  PROVE  /\ \E h : Leads(TrieProof(t, key), key, t[key], h)
         /\ Below(TrieProof(t, key), t[key], 0) = TrieRoot(t)
<1> DEFINE nodes == TrieProof(t, key)
           S == DOMAIN t
<1>1. Width \in 0..Width BY WidthAssumption
<1>2. Alike(S, Width) BY AlikeTop DEF IsTrie
<1>3. Reached(t, Width) BY <1>1, ReachedFromAll
<1>4. nodes = Sub(t, S, Width).towards[key] /\ TrieRoot(t) = Sub(t, S, Width).hash
  BY DEF TrieProof, TrieRoot, Whole, Sub
<1>5. LeadsDown(nodes, key, t[key], Width, TrieRoot(t)) BY <1>2, <1>3, <1>4 DEF Reached
<1> HIDE DEF nodes
<1>6. PICK T : nodes \in Seq(T) BY <1>5 DEF LeadsDown
<1>7. Len(nodes) \in Nat BY <1>6
<1>8. PICK h \in [0..Len(nodes) -> 0..Width] :
        /\ h[Len(nodes)] = 0 /\ h[0] = Width
        /\ \A j \in 1..Len(nodes) :
             Rise(nodes[j]) \in 1..Width /\ h[j - 1] = h[j] + Rise(nodes[j])
        /\ OnKey(nodes, key, t[key], h, 0)
  BY <1>5 DEF LeadsDown
<1>9. Leads(nodes, key, t[key], h)
  BY <1>5, <1>7, <1>8 DEF Leads, LeadsDown, HeightsOf, Heights
<1>10. Below(nodes, t[key], 0) = TrieRoot(t) BY <1>5 DEF LeadsDown
<1>11. QED BY <1>9, <1>10 DEF nodes

\* What the trie of contracts has for leaves.
LEMMA ContractLeaf ==
  ASSUME NEW w \in Worlds, NEW a \in DOMAIN w, NEW key
  PROVE  /\ IsTrie(ContractTrie(w)) /\ IsTrie(w[a].storage)
         /\ a \in DOMAIN ContractTrie(w)
         /\ ContractTrie(w)[a] = ContractStateHash(ContractData(w[a], key))
<1>1. DOMAIN w \subseteq Keys /\ DOMAIN w[a].storage \subseteq Keys BY WorldsAssumption
<1>2. DOMAIN ContractTrie(w) = DOMAIN w BY DEF ContractTrie
<1>3. ContractTrie(w)[a] =
        Pedersen(Pedersen(Pedersen(w[a].class_hash, TrieRoot(w[a].storage)), w[a].nonce), Num(0))
  BY DEF ContractTrie, ContractStateHash
<1>4. ContractStateHash(ContractData(w[a], key)) =
        Pedersen(Pedersen(Pedersen(w[a].class_hash, TrieRoot(w[a].storage)), w[a].nonce), Num(0))
  BY DEF ContractData, ContractStateHash
<1>5. QED BY <1>1, <1>2, <1>3, <1>4 DEF IsTrie

\* What an honest provider answers for a slot that was written is a genuine proof, the
\* hypothesis under which GenuineDecided speaks of verify (proof.rs:30-131).
THEOREM HonestIsGenuine ==
  ASSUME NEW w \in Worlds, NEW c, c.root = WorldRoot(w), c.address \in DOMAIN w,
         c.key \in DOMAIN w[c.address].storage
  PROVE  LET p == HonestProof(w, c.address, c.key)
         IN  GenuineProof(c, p) /\ Shown(c, p) = w[c.address].storage[c.key]
<1> DEFINE a == c.address
           p == HonestProof(w, a, c.key)
           storage == w[a].storage
           nodes == TrieProof(storage, c.key)
           up == TrieProof(ContractTrie(w), a)
           data == ContractData(w[a], c.key)
           leaf == ContractStateHash(data)
           value == storage[c.key]
<1>1. /\ IsTrie(ContractTrie(w)) /\ IsTrie(storage)
      /\ a \in DOMAIN ContractTrie(w) /\ ContractTrie(w)[a] = leaf
  BY ContractLeaf
<1>2. /\ p.contract_data = data /\ p.contract_proof = up
      /\ p.class_commitment = ClassCommitment /\ p.state_commitment = WorldRoot(w)
  BY DEF HonestProof
<1>3. data.storage_proofs = <<nodes>> /\ data.root = TrieRoot(storage) BY DEF ContractData
<1>4. /\ None # ClassCommitment /\ None # WorldRoot(w)
      /\ data # None /\ data.storage_proofs # None
  BY NoneAssumption, WorldsAssumption
<1>5. data.storage_proofs[1] = nodes /\ data.storage_proofs # <<>> BY <1>3
<1>6. PICK h : Leads(nodes, c.key, value, h) BY <1>1, ProofOfPresent
<1>7. Below(nodes, value, 0) = TrieRoot(storage) BY <1>1, ProofOfPresent
<1>8. PICK g : Leads(up, a, leaf, g) BY <1>1, ProofOfPresent
<1>9. Below(up, leaf, 0) = TrieRoot(ContractTrie(w)) BY <1>1, ProofOfPresent
<1> HIDE DEF p, nodes, up, data, leaf, value, storage
<1>10. /\ FullPath(nodes, c.key, value)
       /\ value = IF nodes[Len(nodes)].tag = "edge" THEN nodes[Len(nodes)].child
                  ELSE Side(nodes[Len(nodes)], c.key, 1)
  BY <1>6, LeadsShows
<1>11. FullPath(up, a, leaf) BY <1>8, LeadsShows
<1>12. Shown(c, p) = value BY <1>2, <1>5, <1>10 DEF Shown
<1>13. WorldRoot(w) = GlobalRoot(Below(up, leaf, 0), ClassCommitment) BY <1>9 DEF WorldRoot
<1>14. leaf = ContractStateHash(p.contract_data) BY <1>2 DEF leaf
<1>15. HasStorageProof(p) BY <1>2, <1>4, <1>5 DEF HasStorageProof
<1>16. GenuineProof(c, p)
  BY <1>2, <1>3, <1>4, <1>5, <1>7, <1>10, <1>11, <1>12, <1>13, <1>14, <1>15 DEF GenuineProof
<1>17. QED BY <1>12, <1>16 DEF p, value, storage

\* The contracts of a state are a trie.
LEMMA IsContractTrie ==
  ASSUME NEW w \in Worlds
  PROVE  IsTrie(ContractTrie(w)) /\ DOMAIN ContractTrie(w) = DOMAIN w
<1>1. DOMAIN w \subseteq Keys BY WorldsAssumption
<1>2. QED BY <1>1 DEF ContractTrie, IsTrie

\* The hash of a contract's state determines its storage root, and ends in a zero.
LEMMA OneStorageRoot ==
  ASSUME NEW c, NEW d, ContractStateHash(c) = ContractStateHash(d)
  PROVE  c.root = d.root
<1> DEFINE P(x) == Pedersen(x.class_hash, x.root)
           Q(x) == Pedersen(P(x), x.nonce)
<1>1. Pedersen(Q(c), Num(0)) = Pedersen(Q(d), Num(0)) BY DEF ContractStateHash
<1> HIDE DEF Q
<1>2. Q(c) = Q(d) BY <1>1, OnePair
<1>3. Pedersen(P(c), c.nonce) = Pedersen(P(d), d.nonce) BY <1>2 DEF Q
<1> HIDE DEF P
<1>4. P(c) = P(d) BY <1>3, OnePair
<1>5. Pedersen(c.class_hash, c.root) = Pedersen(d.class_hash, d.root) BY <1>4 DEF P
<1>6. QED BY <1>5, OnePair

\* The trusted root, the only thing verify trusts (proof.rs:111-114), determines the
\* value of every slot.
THEOREM RootDeterminesSlot ==
  ASSUME NEW w \in Worlds, NEW x \in Worlds, WorldRoot(w) = WorldRoot(x), NEW a, NEW key
  PROVE  SlotValue(w, a, key) = SlotValue(x, a, key)
<1>1. TrieRoot(ContractTrie(w)) = TrieRoot(ContractTrie(x)) BY DEF WorldRoot, GlobalRoot
<1>2. IsTrie(ContractTrie(w)) /\ DOMAIN ContractTrie(w) = DOMAIN w BY IsContractTrie
<1>3. IsTrie(ContractTrie(x)) /\ DOMAIN ContractTrie(x) = DOMAIN x BY IsContractTrie
<1>4. /\ DOMAIN w = DOMAIN x
      /\ \A b \in DOMAIN w : ContractTrie(w)[b] = ContractTrie(x)[b]
  <2> DEFINE t == ContractTrie(w)
             u == ContractTrie(x)
  <2> HIDE DEF t, u
  <2>1. DOMAIN t = DOMAIN u /\ \A k \in DOMAIN t : t[k] = u[k]
    BY <1>1, <1>2, <1>3, RootDeterminesTrie DEF t, u
  <2>2. QED BY <1>2, <1>3, <2>1 DEF t, u
<1>5. ASSUME a \in DOMAIN w
      PROVE  /\ DOMAIN w[a].storage = DOMAIN x[a].storage
             /\ \A k \in DOMAIN w[a].storage : w[a].storage[k] = x[a].storage[k]
  <2>1. a \in DOMAIN x BY <1>4, <1>5
  <2>2. IsTrie(w[a].storage) /\ ContractTrie(w)[a] = ContractStateHash(ContractData(w[a], key))
    BY <1>5, ContractLeaf
  <2>3. IsTrie(x[a].storage) /\ ContractTrie(x)[a] = ContractStateHash(ContractData(x[a], key))
    BY <2>1, ContractLeaf
  <2>4. ContractStateHash(ContractData(w[a], key)) = ContractStateHash(ContractData(x[a], key))
    BY <1>4, <1>5, <2>2, <2>3
  <2>5. ContractData(w[a], key).root = ContractData(x[a], key).root BY <2>4, OneStorageRoot
  <2>6. TrieRoot(w[a].storage) = TrieRoot(x[a].storage) BY <2>5 DEF ContractData
  <2>7. QED BY <2>2, <2>3, <2>6, RootDeterminesTrie
<1>6. QED BY <1>4, <1>5 DEF SlotValue

-----------------------------------------------------------------------------
(* The way towards a key that is not present ends at an edge that leads       *)
(* elsewhere, which no value fits.                                            *)

\* The last node is an edge, and none that starts from a value along the key.
Diverges(nodes, key) ==
  LET last == nodes[Len(nodes)]
  IN  /\ \E T : nodes \in Seq(T)
      /\ Len(nodes) > 0
      /\ last.tag = "edge" /\ last.len \in 1..Width
      /\ \A v : IsData(v) =>
           NodeHash(last) # EdgeHash(v, Num(LowBits(key, last.len)), last.len)

\* The key is not in S, though above height h it has the bits of S.
Stranger(S, key, h) == S # {} /\ key \notin S /\ Alike(S \cup {key}, h)

\* So end all ways from height h towards a key that is not present.
Missed(t, h) ==
  \A S \in SUBSET DOMAIN t : \A key \in Keys :
    Stranger(S, key, h) => h > 0 /\ Diverges(Sub(t, S, h).towards[key], key)

\* What is on top of the last node does not matter.
LEMMA DivergesBelow ==
  ASSUME NEW node, NEW s, NEW key, Diverges(s, key)
  PROVE  Diverges(<<node>> \o s, key)
<1> DEFINE r == <<node>> \o s
<1>1. PICK T : s \in Seq(T) BY DEF Diverges
<1>2. /\ r \in Seq(T \cup {node}) /\ Len(r) = Len(s) + 1 /\ Len(s) \in Nat
      /\ \A j \in 1..Len(s) : r[j + 1] = s[j]
  BY <1>1, OneMore
<1> HIDE DEF r
<1>3. Len(s) \in 1..Len(s) BY <1>2 DEF Diverges
<1>4. r[Len(r)] = s[Len(s)] /\ Len(r) > 0 BY <1>2, <1>3
<1>5. Diverges(r, key) BY <1>2, <1>4 DEF Diverges
<1>6. QED BY <1>5 DEF r

\* The hash of a node is no data.
LEMMA NodeHashIsNoData ==
  ASSUME NEW node
  PROVE  ~IsData(NodeHash(node))
BY DEF IsData, NodeHash, EdgeHash, Pedersen

\* The key's half of a fork has other keys, and the way goes on there.
LEMMA MissedAtFork ==
  ASSUME NEW t, IsTrie(t), NEW h \in 1..Width, Missed(t, h - 1),
         NEW S \in SUBSET DOMAIN t, NEW key \in Keys, Stranger(S, key, h),
         Forks(S, h)
  PROVE  Diverges(Sub(t, S, h).towards[key], key)
<1> DEFINE side == Bit(key, h)
           H == Half(S, h, side)
<1>1. h \in Nat /\ h > 0 BY WidthAssumption
<1>2. side \in {0, 1} BY <1>1, KeysNat, PrefixStep
<1>3. H # {} /\ H \in SUBSET DOMAIN t /\ key \notin H
  BY <1>2 DEF Forks, Half, Stranger
<1>4. Half(S \cup {key}, h, side) = H \cup {key} BY DEF Half
<1>5. Alike(H \cup {key}, h - 1) BY <1>1, <1>2, <1>4, HalfAlike DEF Stranger
<1>6. Sub(t, S, h).towards[key] = <<ForkNode(t, S, h)>> \o Sub(t, H, h - 1).towards[key]
  BY TowardsAtFork
<1> HIDE DEF H
<1>7. Stranger(H, key, h - 1) BY <1>3, <1>5 DEF Stranger
<1>8. Diverges(Sub(t, H, h - 1).towards[key], key) BY <1>3, <1>7 DEF Missed
<1>9. QED BY <1>6, <1>8, DivergesBelow

\* An edge leaves the key, or goes on towards the other keys.
LEMMA MissedAtEdge ==
  ASSUME NEW t, IsTrie(t), NEW h \in 1..Width, \A b \in 0..(h - 1) : Missed(t, b),
         NEW S \in SUBSET DOMAIN t, NEW key \in Keys, Stranger(S, key, h),
         ~Forks(S, h)
  PROVE  Diverges(Sub(t, S, h).towards[key], key)
<1> DEFINE b == Bottom(S, h)
           U == Sub(t, S, b)
           node == EdgeNode(U.hash, Num(Path(S, h, b)), h - b)
<1>1. h \in Nat /\ h > 0 BY WidthAssumption
<1>2. b \in 0..(h - 1) BY SubOfEdge
<1>3. Sub(t, S, h).towards[key] =
        <<node>> \o IF Path(S, h, b) = Path({key}, h, b) THEN U.towards[key] ELSE <<>>
  BY SubOfEdge
<1>4. \A d \in (b + 1)..h : ~Forks(S, d) BY <1>1, BottomIsHighest
<1> HIDE DEF b
<1>5. Alike(S, h) BY DEF Alike, Stranger
<1>6. b \in 0..h BY <1>1, <1>2
<1>7. Alike(S, b) BY <1>1, <1>4, <1>5, <1>6, AlikeDown
<1>8. Path({key}, h, b) = (key \div 2^b) % 2^(h - b)
  <2>1. (CHOOSE x \in {key} : TRUE) = key OBVIOUS
  <2>2. QED BY <2>1 DEF Path
<1>9. CASE Path(S, h, b) = Path({key}, h, b)
  <2>1. ASSUME NEW k \in S PROVE k \div 2^b = key \div 2^b
    <3>1. k \in Nat /\ key \in Nat /\ k \div 2^h = key \div 2^h
      <4>1. k \in S \cup {key} /\ key \in S \cup {key} OBVIOUS
      <4>2. k \in Keys /\ k \div 2^h = key \div 2^h BY <4>1 DEF Alike, Stranger
      <4>3. QED BY <4>2, KeysNat
    <3>2. Path(S, h, b) = (k \div 2^b) % 2^(h - b) BY <1>7, PathOfAny
    <3>3. (k \div 2^b) % 2^(h - b) = (key \div 2^b) % 2^(h - b) BY <1>8, <1>9, <3>2
    <3>4. QED BY <1>1, <1>6, <3>1, <3>3, PrefixDown
  <2>2. \A j, k \in S \cup {key} : j \div 2^b = k \div 2^b BY <2>1
  <2>3. Stranger(S, key, b) BY <2>2 DEF Alike, Stranger
  <2>4. Diverges(U.towards[key], key) BY <1>2, <2>3 DEF Missed
  <2>5. Sub(t, S, h).towards[key] = <<node>> \o U.towards[key] BY <1>3, <1>9
  <2> HIDE DEF node, U
  <2>6. QED BY <2>4, <2>5, DivergesBelow
<1>10. CASE Path(S, h, b) # Path({key}, h, b)
  <2>1. Sub(t, S, h).towards[key] = <<node>>
    <3>1. Sub(t, S, h).towards[key] = <<node>> \o <<>> BY <1>3, <1>10
    <3> HIDE DEF node
    <3>2. <<node>> \o <<>> = <<node>> OBVIOUS
    <3>3. QED BY <3>1, <3>2
  <2>2. /\ node.tag = "edge" /\ node.len = h - b /\ node.len \in 1..Width
        /\ NodeHash(node) = EdgeHash(U.hash, Num(Path(S, h, b)), h - b)
    <3>1. h - b \in 1..Width BY <1>1, <1>2, WidthAssumption
    <3>2. QED BY <3>1 DEF NodeHash, EdgeNode
  <2>3. ASSUME NEW v, IsData(v), NodeHash(node) = EdgeHash(v, Num(LowBits(key, h - b)), h - b)
        PROVE  FALSE
    <3>1. U.hash = v /\ Path(S, h, b) = LowBits(key, h - b)
      <4> DEFINE x == U.hash
                 y == Num(Path(S, h, b))
                 z == Num(LowBits(key, h - b))
      <4>1. EdgeHash(x, y, h - b) = EdgeHash(v, z, h - b) BY <2>2, <2>3
      <4>2. h - b # 0 BY <1>1, <1>2
      <4> HIDE DEF x, y, z
      <4>3. x = v /\ y = z BY <4>1, <4>2, OneEdge
      <4>4. QED BY <4>3, OneNum DEF x, y, z
    <3>2. CASE b = 0
      <4>1. key \div 2^b = key BY <3>2, PrefixEnds
      <4>2. QED BY <1>8, <1>10, <3>1, <4>1 DEF LowBits
    <3>3. CASE b > 0
      <4>1. b \in 1..Width BY <1>1, <1>2, <3>3, WidthAssumption
      <4>2. \E n : U.hash = NodeHash(n) BY <4>1, HashOfNode
      <4>3. QED BY <2>3, <3>1, <4>2, NodeHashIsNoData
    <3>4. QED BY <1>2, <3>2, <3>3
  <2> HIDE DEF node, U
  <2>4. \A v : IsData(v) =>
          NodeHash(node) # EdgeHash(v, Num(LowBits(key, node.len)), node.len)
    BY <2>2, <2>3
  <2>5. Diverges(<<node>>, key)
    <3> DEFINE s == <<node>>
    <3>1. s \in Seq({node}) /\ Len(s) = 1 /\ s[Len(s)] = node OBVIOUS
    <3> HIDE DEF s
    <3>2. Diverges(s, key) BY <2>2, <2>4, <3>1 DEF Diverges
    <3>3. QED BY <3>2 DEF s
  <2>6. QED BY <2>1, <2>5
<1>11. QED BY <1>9, <1>10

\* So it is from every height, and at a leaf there is no other key.
LEMMA MissedFromAll ==
  ASSUME NEW t, IsTrie(t)
  PROVE  \A h \in 0..Width : Missed(t, h)
<1> DEFINE T == {h \in Nat : h <= Width /\ ~Missed(t, h)}
<1>1. SUFFICES T = {} BY WidthAssumption
<1>2. SUFFICES ASSUME T # {} PROVE FALSE OBVIOUS
<1>3. PICK h \in T : \A d \in T : h <= d BY <1>2, LeastNat
<1>4. h \in 0..Width /\ ~Missed(t, h) BY <1>3
<1>5. \A d \in 0..(h - 1) : Missed(t, d)
  <2> SUFFICES ASSUME NEW d \in 0..(h - 1) PROVE Missed(t, d) OBVIOUS
  <2>1. d \in Nat /\ d <= Width /\ ~ (h <= d) BY <1>4, WidthAssumption
  <2>2. d \notin T BY <1>3, <2>1
  <2>3. QED BY <2>1, <2>2
<1> HIDE DEF T
<1>6. CASE h = 0
  <2>1. ASSUME NEW S, NEW key, Stranger(S, key, 0) PROVE FALSE
    <3>1. PICK k \in S \cup {key} : S \cup {key} = {k} BY <2>1, AlikeBottom DEF Stranger
    <3>2. QED BY <2>1, <3>1 DEF Stranger
  <2>2. Missed(t, 0) BY <2>1 DEF Missed
  <2>3. QED BY <1>4, <1>6, <2>2
<1>7. CASE h > 0
  <2>1. h \in 1..Width /\ h - 1 \in 0..(h - 1) BY <1>4, <1>7, WidthAssumption
  <2>2. Missed(t, h - 1) BY <1>5, <2>1
  <2>3. Missed(t, h) BY <1>5, <1>7, <2>1, <2>2, MissedAtFork, MissedAtEdge DEF Missed
  <2>4. QED BY <1>4, <2>3
<1>8. QED BY <1>4, <1>6, <1>7

\* The proof of a key that is not present ends at such an edge.
LEMMA ProofOfAbsent ==
  ASSUME NEW t, IsTrie(t), NEW key \in Keys, key \notin DOMAIN t
  PROVE  /\ DOMAIN t = {} => TrieProof(t, key) = <<>> /\ TrieRoot(t) = Num(0)
         /\ DOMAIN t # {} => Diverges(TrieProof(t, key), key)
<1>1. CASE DOMAIN t = {} BY <1>1 DEF TrieProof, TrieRoot
<1>2. CASE DOMAIN t # {}
  <2>1. Width \in 0..Width BY WidthAssumption
  <2>2. DOMAIN t \cup {key} # {} /\ DOMAIN t \cup {key} \subseteq Keys BY DEF IsTrie
  <2>3. Stranger(DOMAIN t, key, Width) BY <1>2, <2>2, AlikeTop DEF Stranger
  <2>4. DOMAIN t \in SUBSET DOMAIN t OBVIOUS
  <2>5. Missed(t, Width) BY <2>1, MissedFromAll
  <2>6. Diverges(Sub(t, DOMAIN t, Width).towards[key], key) BY <1>2, <2>3, <2>4, <2>5 DEF Missed
  <2>7. TrieProof(t, key) = Sub(t, DOMAIN t, Width).towards[key] BY <1>2 DEF TrieProof, Whole, Sub
  <2>8. QED BY <1>2, <2>6, <2>7
<1>3. QED BY <1>1, <1>2

-----------------------------------------------------------------------------
(* The honest proof of a slot that was never written: it shows no value, so    *)
(* what carries the claim through the verification is that it goes no further  *)
(* than the lowest node.                                                       *)

\* The part of ClaimsAssumption about the claim at hand.
ClaimIn == claim.address \in Keys /\ claim.key \in Keys

\* The slot has a value in state w.
Written(w, a, key) == a \in DOMAIN w /\ key \in DOMAIN w[a].storage

\* The claim gives data to a slot that an honest provider knows to have none.
Absent ==
  /\ claim.value # Num(0) /\ IsData(claim.value)
  /\ \E w \in Worlds : /\ proof = HonestProof(w, claim.address, claim.key)
                       /\ ~Written(w, claim.address, claim.key)

\* Such a claim is about to have its lowest node hashed, or is refused.
AbsentInv ==
  Absent => \/ phase = "begin"
            \/ /\ phase = "storage" /\ left = Len(StorageNodes)
               /\ hold = claim.value /\ pathLen = 0
            \/ phase = "end" /\ verdict = "error"

\* What the honest proof of such a slot looks like: no contract, no nodes, or an edge
\* that leads elsewhere.
LEMMA AbsentParts ==
  ASSUME Absent, ClaimIn
  PROVE  \/ proof.contract_data = None
         \/ /\ proof.contract_data # None
            /\ proof.contract_data.storage_proofs \notin {None, <<>>}
            /\ \/ Len(StorageNodes) = 0 /\ proof.contract_data.root = Num(0)
               \/ Diverges(StorageNodes, claim.key)
<1>1. PICK w \in Worlds : /\ proof = HonestProof(w, claim.address, claim.key)
                          /\ ~Written(w, claim.address, claim.key)
  BY DEF Absent
<1> DEFINE a == claim.address
           storage == w[a].storage
           nodes == TrieProof(storage, claim.key)
           data == ContractData(w[a], claim.key)
<1>2. CASE a \notin DOMAIN w BY <1>1, <1>2 DEF HonestProof
<1>3. CASE a \in DOMAIN w
  <2>1. proof.contract_data = data BY <1>1, <1>3 DEF HonestProof
  <2>2. data.storage_proofs = <<nodes>> /\ data.root = TrieRoot(storage) BY DEF ContractData
  <2>3. data # None /\ data.storage_proofs # None BY <1>3, NoneAssumption DEF ClaimIn
  <2>4. IsTrie(storage) BY <1>3, ContractLeaf
  <2>5. claim.key \in Keys /\ claim.key \notin DOMAIN storage
    BY <1>1, <1>3 DEF Written, ClaimIn
  <2>6. /\ DOMAIN storage = {} => nodes = <<>> /\ TrieRoot(storage) = Num(0)
        /\ DOMAIN storage # {} => Diverges(nodes, claim.key)
    BY <2>4, <2>5, ProofOfAbsent
  <2> HIDE DEF nodes, data, storage
  <2>7. StorageNodes = nodes /\ data.storage_proofs # <<>> BY <2>1, <2>2 DEF StorageNodes
  <2>8. nodes = <<>> => Len(nodes) = 0 OBVIOUS
  <2>9. QED BY <2>1, <2>2, <2>3, <2>6, <2>7, <2>8
<1>4. QED BY <1>2, <1>3

\* A lowest edge that leads elsewhere fits no data.
LEMMA DivergingMisfits ==
  ASSUME Diverges(StorageNodes, claim.key), IsData(claim.value), phase = "storage",
         left = Len(StorageNodes)
  PROVE  left > 0 /\ Node.tag = "edge" /\ Node.len \in 0..Width /\ ~EdgeFits
<1>1. Nodes = StorageNodes /\ Key = claim.key /\ Leaf = claim.value
  BY DEF Nodes, Key, Leaf
<1>2. Node = StorageNodes[Len(StorageNodes)] BY <1>1 DEF Node
<1>3. Node.tag = "edge" /\ Node.len \in 1..Width /\ left > 0 BY <1>2 DEF Diverges
<1>4. NodeHash(Node) # EdgeHash(Leaf, Num(LowBits(Key, Node.len)), Node.len)
  BY <1>1, <1>2 DEF Diverges
<1>5. 1..Width \subseteq 0..Width BY WidthAssumption
<1>6. QED BY <1>3, <1>4, <1>5 DEF EdgeFits

\* Nothing is decided at first.
LEMMA AbsentInit == Init => AbsentInv /\ ClaimIn
BY ClaimsAssumption DEF Init, AbsentInv, ClaimIn

\* A verification of such a claim ends at the lowest node or at the storage root.
LEMMA AbsentStep == Inv /\ AbsentInv /\ ClaimIn /\ [Next]_vars => AbsentInv' /\ ClaimIn'
<1> SUFFICES ASSUME Inv, AbsentInv, ClaimIn, [Next]_vars PROVE AbsentInv' /\ ClaimIn' OBVIOUS
<1>1. UNCHANGED input
  BY DEF Next, vars, input, NoStorageProof, BeginStorage, EdgeStep, EdgeMisfit,
     BinaryStep, BinaryMisfit, StorageRoot, StateRoot, End, Parse
<1>2. proof' = proof /\ claim' = claim /\ StorageNodes' = StorageNodes
  BY <1>1, ProofStays
<1>3. ClaimIn' BY <1>2 DEF ClaimIn
<1>4. SUFFICES ASSUME Absent
               PROVE  \/ /\ phase' = "storage" /\ left' = Len(StorageNodes)
                         /\ hold' = claim.value /\ pathLen' = 0
                      \/ phase' = "end" /\ verdict' = "error"
                      \/ UNCHANGED vars
  <2>1. Absent' = Absent BY <1>2 DEF Absent
  <2>2. CASE UNCHANGED vars
    <3>1. /\ phase' = phase /\ left' = left /\ hold' = hold
          /\ pathLen' = pathLen /\ verdict' = verdict
      BY <2>2 DEF vars
    <3>2. QED BY <1>2, <1>3, <2>1, <3>1 DEF AbsentInv
  <2>3. QED BY <1>2, <1>3, <1>4, <2>1, <2>2 DEF AbsentInv
<1>5. \/ phase = "begin"
      \/ phase = "storage" /\ left = Len(StorageNodes) /\ hold = claim.value /\ pathLen = 0
      \/ phase = "end"
  BY <1>4 DEF AbsentInv
<1>6. \/ proof.contract_data = None
      \/ /\ proof.contract_data # None
         /\ proof.contract_data.storage_proofs \notin {None, <<>>}
         /\ \/ Len(StorageNodes) = 0 /\ proof.contract_data.root = Num(0)
            \/ Diverges(StorageNodes, claim.key)
  BY <1>4, AbsentParts
<1>7. CASE phase = "begin"
  <2>1. NoStorageProof \/ BeginStorage \/ UNCHANGED vars
    BY <1>7 DEF Next, EdgeStep, EdgeMisfit, BinaryStep, BinaryMisfit, StorageRoot, StateRoot
  <2>2. CASE NoStorageProof BY <1>6, <2>2 DEF NoStorageProof, End
  <2>3. CASE BeginStorage BY <2>3 DEF BeginStorage, Parse
  <2>4. QED BY <2>1, <2>2, <2>3
<1>8. CASE phase = "storage"
  <2>1. left = Len(StorageNodes) /\ hold = claim.value /\ pathLen = 0 BY <1>5, <1>8
  <2>2. \/ EdgeStep \/ EdgeMisfit \/ BinaryStep \/ BinaryMisfit \/ StorageRoot
        \/ UNCHANGED vars
    BY <1>8 DEF Next, NoStorageProof, BeginStorage, StateRoot
  <2>3. CASE Diverges(StorageNodes, claim.key)
    <3>1. left > 0 /\ Node.tag = "edge" /\ Node.len \in 0..Width /\ ~EdgeFits
      BY <1>4, <1>8, <2>1, <2>3, DivergingMisfits DEF Absent
    <3>2. EdgeMisfit => phase' = "end" /\ verdict' = "error"
      <4>1. pathLen = 0 /\ 0 + Node.len = Node.len /\ Wrapped(Node.len) = Node.len
        BY <2>1, <3>1, MaxLenAssumption, WidthAssumption DEF Wrapped
      <4>2. QED BY <3>1, <4>1 DEF EdgeMisfit, End
    <3>3. ~EdgeStep
      <4>1. Nodes = StorageNodes BY <1>8 DEF Nodes
      <4>2. QED BY <2>1, <3>1, <4>1 DEF EdgeStep
    <3>4. ~BinaryStep /\ ~BinaryMisfit BY <3>1 DEF BinaryStep, BinaryMisfit
    <3>5. left # 0 BY <3>1
    <3>6. ~StorageRoot BY <3>5 DEF StorageRoot
    <3>7. QED BY <2>2, <3>2, <3>3, <3>4, <3>6
  <2>4. CASE left = 0 /\ proof.contract_data.root = Num(0)
    <3>1. ~ (left > 0) BY <2>4
    <3>2. StorageRoot \/ UNCHANGED vars
      BY <2>2, <3>1 DEF EdgeStep, EdgeMisfit, BinaryStep, BinaryMisfit
    <3>3. hold # proof.contract_data.root BY <1>4, <2>1, <2>4 DEF Absent
    <3>4. StorageRoot => End("error") BY <3>3 DEF StorageRoot
    <3>5. QED BY <3>2, <3>4 DEF End
  <2>5. CASE proof.contract_data = None BY <1>8, <2>5 DEF Inv, LoopInv
  <2>6. QED BY <1>6, <2>1, <2>3, <2>4, <2>5
<1>9. CASE phase = "end"
  <2>1. UNCHANGED vars
    BY <1>9 DEF Next, NoStorageProof, BeginStorage, EdgeStep, EdgeMisfit, BinaryStep,
       BinaryMisfit, StorageRoot, StateRoot
  <2>2. QED BY <2>1
<1>10. QED BY <1>5, <1>7, <1>8, <1>9

\* The honest proof is genuine or it is of a slot that was never written.
LEMMA HonestDecides ==
  ASSUME GenuineDecides, AbsentInv, ClaimIn
  PROVE  HonestProofDecides
<1> SUFFICES ASSUME phase = "end", HasHonestProof, NEW w \in Trusted
             PROVE  LET v == SlotValue(w, claim.address, claim.key)
                    IN  /\ claim.value # v /\ (v # Num(0) \/ IsData(claim.value)) =>
                             verdict = "error"
                        /\ v # Num(0) => GenuineProof(claim, proof) /\ Shown(claim, proof) = v
                        /\ claim.value = v /\ v # Num(0) => verdict = "ok"
  BY DEF HonestProofDecides
<1> DEFINE a == claim.address
           key == claim.key
           v == SlotValue(w, a, key)
<1>1. PICK x \in Trusted : proof = HonestProof(x, a, key) BY DEF HasHonestProof
<1>2. /\ w \in Worlds /\ x \in Worlds
      /\ WorldRoot(w) = claim.root /\ WorldRoot(x) = claim.root
  BY DEF Trusted, RootOf
<1>3. v = SlotValue(x, a, key) BY <1>2, RootDeterminesSlot
<1> HIDE DEF v
<1>4. CASE Written(x, a, key)
  <2>1. a \in DOMAIN x /\ key \in DOMAIN x[a].storage BY <1>4 DEF Written
  <2>2. v = x[a].storage[key] BY <1>3, <2>1 DEF SlotValue
  <2>3. v # Num(0) BY <1>2, <2>1, <2>2, WorldsAssumption
  <2>4. GenuineProof(claim, proof) /\ Shown(claim, proof) = v
    BY <1>1, <1>2, <2>1, <2>2, HonestIsGenuine
  <2>5. verdict = IF claim.value = v THEN "ok" ELSE "error" BY <2>4 DEF GenuineDecides
  <2>6. QED BY <2>3, <2>4, <2>5 DEF v
<1>5. CASE ~Written(x, a, key)
  <2>1. v = Num(0) BY <1>3, <1>5 DEF SlotValue, Written
  <2>2. claim.value # v /\ IsData(claim.value) => Absent BY <1>1, <1>2, <1>5, <2>1 DEF Absent
  <2>3. claim.value # v /\ IsData(claim.value) => verdict = "error" BY <2>2 DEF AbsentInv
  <2>4. QED BY <2>1, <2>3 DEF v
<1>6. QED BY <1>4, <1>5

\* An honest provider's answer decides, in every state and for keys of any width:
\* verify (proof.rs:30-315) accepts it for the value of a written slot and no other, and
\* for no data where the slot was never written.
THEOREM HonestDecided == Spec => []HonestProofDecides
<1>1. Spec => []GenuineDecides BY GenuineDecided
<1>2. Inv /\ Input /\ [Next]_vars => Inv' /\ Input' BY InvStep
<1>3. Inv /\ AbsentInv /\ ClaimIn /\ [Next]_vars => AbsentInv' /\ ClaimIn' BY AbsentStep
<1>4. Init => Inv /\ Input /\ AbsentInv /\ ClaimIn BY InvInit, AbsentInit
<1>5. GenuineDecides /\ AbsentInv /\ ClaimIn => HonestProofDecides BY HonestDecides
<1>6. QED BY <1>1, <1>2, <1>3, <1>4, <1>5, PTL DEF Spec

-----------------------------------------------------------------------------
(* Down from a root: nodes that lead to a leaf along a key hang from the same  *)
(* leaf as the trie's own.                                                     *)

\* A list that is chained from a trie's root, and on a key's side at the heights it
\* has, leads to the leaf of that key.
LEMMA EndsAtLeaf ==
  ASSUME NEW t, IsTrie(t), NEW key \in DOMAIN t, NEW nodes, NEW leaf, Len(nodes) \in Nat,
         \A j \in 1..Len(nodes) : nodes[j].tag \in {"binary", "edge"},
         Linked(nodes), HeightsOf(nodes) # {}, Sided(nodes, key, leaf, 0),
         Below(nodes, leaf, 0) = TrieRoot(t)
  PROVE  leaf = t[key]
<1>1. PICK g \in HeightsOf(nodes) : OnKey(nodes, key, leaf, g, 0) BY DEF Sided
<1>2. Leads(nodes, key, leaf, g) BY <1>1 DEF Leads
<1> DEFINE m == TrieProof(t, key)
<1>3. /\ \E h : Leads(m, key, t[key], h)
      /\ Below(m, t[key], 0) = TrieRoot(t)
  BY ProofOfPresent
<1> HIDE DEF m
<1>4. PICK h : Leads(m, key, t[key], h) BY <1>3
<1>5. Below(nodes, leaf, 0) = Below(m, t[key], 0) BY <1>3
<1>6. QED BY <1>2, <1>4, <1>5, SameLeaf

\* Both lists are of some way, each on its key's side, so both end at their keys' own
\* leaves.
LEMMA Stands ==
  ASSUME Inv, Input, SidedInv
  PROVE  NoWrittenSlotContradicted
<1> SUFFICES ASSUME verdict = "ok", OnSomeWay(proof),
                    NEW w \in Trusted, SlotValue(w, claim.address, claim.key) # Num(0)
             PROVE  SlotValue(w, claim.address, claim.key) = claim.value
  BY DEF NoWrittenSlotContradicted
<1> DEFINE a == claim.address
           key == claim.key
           storage == w[a].storage
           nodes == StorageNodes
           up == proof.contract_proof
           leaf == ContractStateHash(proof.contract_data)
           value == claim.value
<1>1. w \in Worlds /\ WorldRoot(w) = claim.root BY DEF Trusted, RootOf
<1>2. a \in DOMAIN w /\ key \in DOMAIN storage
      /\ SlotValue(w, claim.address, claim.key) = storage[key]
  BY DEF SlotValue
<1>3. /\ claim.root = GlobalRoot(Below(up, leaf, 0), proof.class_commitment)
      /\ proof.contract_data.root = Below(nodes, value, 0)
  BY DEF Inv, BrokenOnlyAtGaps, StorageChained, ContractChained
<1>4. /\ HasStorageProof(proof)
      /\ Sided(nodes, key, value, 0) /\ Sided(up, a, leaf, 0)
  BY DEF SidedInv
<1>5. /\ Len(nodes) \in Nat
      /\ \A j \in 1..Len(nodes) : nodes[j].tag \in {"binary", "edge"}
      /\ Len(up) \in Nat /\ \A j \in 1..Len(up) : up[j].tag \in {"binary", "edge"}
  BY <1>4 DEF Input, HasStorageProof, StorageNodes
<1>6. /\ Linked(nodes) /\ HeightsOf(nodes) # {}
      /\ Linked(up) /\ HeightsOf(up) # {}
  BY DEF OnSomeWay, StorageNodes
<1> HIDE DEF up, nodes
<1>7. leaf = ContractTrie(w)[a]
  <2> DEFINE t == ContractTrie(w)
  <2>1. Below(up, leaf, 0) = TrieRoot(t) BY <1>1, <1>3 DEF WorldRoot, GlobalRoot
  <2>2. IsTrie(t) /\ a \in DOMAIN t BY <1>1, <1>2, IsContractTrie
  <2> HIDE DEF t, leaf, a
  <2>3. leaf = t[a] BY <1>4, <1>5, <1>6, <2>1, <2>2, EndsAtLeaf
  <2>4. QED BY <2>3 DEF t
<1>8. IsTrie(storage) /\ proof.contract_data.root = TrieRoot(storage)
  <2>1. /\ IsTrie(storage)
        /\ ContractTrie(w)[a] = ContractStateHash(ContractData(w[a], key))
    BY <1>1, <1>2, ContractLeaf
  <2>2. proof.contract_data.root = ContractData(w[a], key).root
    BY <1>7, <2>1, OneStorageRoot
  <2>3. QED BY <2>1, <2>2 DEF ContractData
<1> HIDE DEF storage, key, value
<1>9. value = storage[key] BY <1>2, <1>3, <1>4, <1>5, <1>6, <1>8, EndsAtLeaf
<1>10. QED BY <1>2, <1>9 DEF value

\* Whatever slot, contract or state the nodes of an answer were made for: if they are of
\* some way, which verify does not check (edges above the lowest and the number of bits
\* are compared with nothing, proof.rs:257-314), what is accepted never contradicts a
\* written slot of the trusted state.
THEOREM WrittenStands == Spec => []NoWrittenSlotContradicted
<1>1. Inv /\ Input /\ SidedInv => NoWrittenSlotContradicted BY Stands
<1>2. QED BY InvInit, InvStep, SidedInit, SidedStep, <1>1, PTL DEF Spec

=============================================================================
