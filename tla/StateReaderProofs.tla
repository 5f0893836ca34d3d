------------------------- MODULE StateReaderProofs --------------------------
(***************************************************************************)
(* Proofs about StateReader, for any number of concurrent calls, any state *)
(* of any blocks, any capacity of the caches, any answers, and whatever    *)
(* proofs verify accepts.                                                  *)
(***************************************************************************)
EXTENDS StateReader, SequenceTheorems, TLAPS

-----------------------------------------------------------------------------
(* The cache as a sequence. *)

\* Freshen drops the entry at n and appends e; the others keep their order.
LEMMA FreshenElements ==
  ASSUME NEW S, NEW s \in Seq(S), NEW n \in 1..Len(s), NEW e \in S
  PROVE  /\ Freshen(s, n, e) \in Seq(S)
         /\ Len(Freshen(s, n, e)) = Len(s)
         /\ \A m \in 1..Len(s) : Freshen(s, n, e)[m] =
              IF m < n THEN s[m] ELSE IF m < Len(s) THEN s[m + 1] ELSE e
<1> DEFINE low == SubSeq(s, 1, n - 1)
           high == SubSeq(s, n + 1, Len(s))
<1>1. /\ low \in Seq(S) /\ Len(low) = n - 1
      /\ \A m \in 1..(n - 1) : low[m] = s[m]
  <2>1. \A m \in 1..(n - 1) : s[m] \in S BY ElementOfSeq
  <2>2. /\ low \in Seq(S)
        /\ Len(low) = IF 1 <= n - 1 THEN (n - 1) - 1 + 1 ELSE 0
        /\ \A m \in 1..((n - 1) - 1 + 1) : low[m] = s[1 + m - 1]
    BY <2>1, SubSeqProperties
  <2>3. QED BY <2>2
<1>2. /\ high \in Seq(S) /\ Len(high) = Len(s) - n
      /\ \A m \in 1..(Len(s) - n) : high[m] = s[n + m]
  <2>1. \A m \in (n + 1)..Len(s) : s[m] \in S BY ElementOfSeq
  <2>2. /\ high \in Seq(S)
        /\ Len(high) = IF n + 1 <= Len(s) THEN Len(s) - (n + 1) + 1 ELSE 0
        /\ \A m \in 1..(Len(s) - (n + 1) + 1) : high[m] = s[(n + 1) + m - 1]
    BY <2>1, SubSeqProperties
  <2>3. QED BY <2>2
<1> DEFINE rest == low \o high
<1>3. /\ rest \in Seq(S) /\ Len(rest) = Len(s) - 1
      /\ \A m \in 1..(Len(s) - 1) : rest[m] = IF m < n THEN s[m] ELSE s[m + 1]
  <2> HIDE DEF low, high
  <2>1. /\ rest \in Seq(S) /\ Len(rest) = Len(low) + Len(high)
        /\ \A m \in 1..(Len(low) + Len(high)) :
             rest[m] = IF m <= Len(low) THEN low[m] ELSE high[m - Len(low)]
    BY <1>1, <1>2, ConcatProperties
  <2>2. QED BY <1>1, <1>2, <2>1
<1>4. Freshen(s, n, e) = Append(rest, e) BY DEF Freshen, RemoveAt
<1> HIDE DEF rest
<1>5. /\ Append(rest, e) \in Seq(S) /\ Len(Append(rest, e)) = Len(rest) + 1
      /\ \A m \in 1..Len(rest) : Append(rest, e)[m] = rest[m]
      /\ Append(rest, e)[Len(rest) + 1] = e
  BY <1>3, AppendProperties
<1>6. \A m \in 1..Len(s) : Append(rest, e)[m] =
        IF m < n THEN s[m] ELSE IF m < Len(s) THEN s[m + 1] ELSE e
  <2> TAKE m \in 1..Len(s)
  <2>1. CASE m < Len(s)
    <3>1. m \in 1..(Len(s) - 1) /\ m \in 1..Len(rest) BY <1>3, <2>1
    <3>2. Append(rest, e)[m] = rest[m] /\ rest[m] = IF m < n THEN s[m] ELSE s[m + 1]
      BY <1>3, <1>5, <3>1
    <3>3. QED BY <2>1, <3>2
  <2>2. CASE m = Len(s) BY <1>3, <1>5, <2>2
  <2>3. m < Len(s) \/ m = Len(s)
    <3>1. Len(s) \in Nat BY LenProperties
    <3>2. QED BY <3>1
  <2>4. QED BY <2>1, <2>2, <2>3, Zenon
<1>7. Len(Append(rest, e)) = Len(s) BY <1>3, <1>5
<1>8. QED BY <1>4, <1>5, <1>6, <1>7, Zenon

\* All that is in t is in s, or is e.
OnlyFrom(t, s, e) ==
  \A m \in 1..Len(t) : t[m] = e \/ \E n \in 1..Len(s) : t[m] = s[n]

\* After a hit the cache holds what it held.
LEMMA FreshenOnlyFrom ==
  ASSUME NEW S, NEW s \in Seq(S), NEW n \in 1..Len(s), NEW e \in S
  PROVE  /\ Freshen(s, n, e) \in Seq(S)
         /\ Len(Freshen(s, n, e)) = Len(s)
         /\ OnlyFrom(Freshen(s, n, e), s, e)
<1> DEFINE f == Freshen(s, n, e)
<1>1. Len(s) \in Nat BY LenProperties
<1>2. /\ f \in Seq(S) /\ Len(f) = Len(s)
      /\ \A m \in 1..Len(s) :
           f[m] = IF m < n THEN s[m] ELSE IF m < Len(s) THEN s[m + 1] ELSE e
  BY FreshenElements
<1> HIDE DEF f
<1>3. ASSUME NEW m \in 1..Len(s) PROVE f[m] = e \/ \E j \in 1..Len(s) : f[m] = s[j]
  <2>1. CASE m < n BY <1>2, <2>1
  <2>2. CASE ~(m < n) /\ m < Len(s)
    <3>1. f[m] = s[m + 1] BY <1>2, <2>2
    <3>2. m + 1 \in 1..Len(s) BY <1>1, <2>2
    <3>3. QED BY <3>1, <3>2
  <2>3. CASE ~(m < n) /\ ~(m < Len(s)) BY <1>2, <2>3
  <2>4. QED BY <2>1, <2>2, <2>3
<1>4. OnlyFrom(f, s, e) BY <1>2, <1>3 DEF OnlyFrom
<1>5. QED BY <1>2, <1>4 DEF f

\* Append brings in its element only.
LEMMA AppendOnlyFrom ==
  ASSUME NEW S, NEW s \in Seq(S), NEW e \in S
  PROVE  Append(s, e) \in Seq(S) /\ OnlyFrom(Append(s, e), s, e)
<1>1. /\ Append(s, e) \in Seq(S) /\ Len(Append(s, e)) = Len(s) + 1 /\ Len(s) \in Nat
      /\ \A m \in 1..Len(s) : Append(s, e)[m] = s[m]
      /\ Append(s, e)[Len(s) + 1] = e
  BY AppendProperties, LenProperties
<1>2. \A m \in 1..(Len(s) + 1) : m \in 1..Len(s) \/ m = Len(s) + 1 BY <1>1
<1>3. QED BY <1>1, <1>2 DEF OnlyFrom

\* What is in the cache after a put was there before, or is the new entry.
LEMMA PutOnlyFrom ==
  ASSUME NEW S, NEW s \in Seq(S), NEW size \in Nat \ {0}, NEW e \in S
  PROVE  LruPut(s, size, e) \in Seq(S) /\ OnlyFrom(LruPut(s, size, e), s, e)
<1> DEFINE old == Places(s, e.block, e.item)
           at == CHOOSE n \in old : TRUE
<1>1. Len(s) \in Nat BY LenProperties
<1>2. CASE old # {}
  <2>1. at \in 1..Len(s) BY <1>2 DEF Places
  <2>2. LruPut(s, size, e) = Freshen(s, at, e) BY <1>2 DEF LruPut
  <2> HIDE DEF at
  <2>3. Freshen(s, at, e) \in Seq(S) /\ OnlyFrom(Freshen(s, at, e), s, e)
    BY <2>1, FreshenOnlyFrom
  <2>4. QED BY <2>2, <2>3
<1>3. CASE old = {} /\ Len(s) >= size
  <2> DEFINE t == Tail(s)
  <2>1. LruPut(s, size, e) = Append(t, e) BY <1>3 DEF LruPut
  <2>2. s # <<>> BY <1>1, <1>3
  <2>3. t \in Seq(S) /\ Len(t) = Len(s) - 1 /\ \A m \in 1..Len(t) : t[m] = s[m + 1]
    BY <2>2, HeadTailProperties
  <2> HIDE DEF t
  <2>4. \A m \in 1..Len(t) : m + 1 \in 1..Len(s) BY <1>1, <2>3
  <2>5. Append(t, e) \in Seq(S) /\ OnlyFrom(Append(t, e), t, e) BY <2>3, AppendOnlyFrom
  <2>6. OnlyFrom(Append(t, e), s, e) BY <2>3, <2>4, <2>5 DEF OnlyFrom
  <2>7. QED BY <2>1, <2>5, <2>6
<1>4. CASE old = {} /\ ~(Len(s) >= size)
  <2>1. LruPut(s, size, e) = Append(s, e) BY <1>4 DEF LruPut
  <2>2. QED BY <2>1, AppendOnlyFrom
<1>5. QED BY <1>2, <1>3, <1>4

-----------------------------------------------------------------------------
(* The invariant, entry by entry and call by call. *)

CallRecord == [pc : {"idle", "run", "fetch", "prove", "store"},
               block : Blocks, item : Items, value : Values, left : 0..MaxAccesses,
               reads : SUBSET [item : Items, value : Values]]

\* A value that may be cached, and may be read, in block b.
Fit(h, b, i, v) == Proven(b, i, v) /\ (h => v = Truth[b][i])

EntryFit(h, k, e) == Kind(e.item) = k /\ Fit(h, e.block, e.item, e.value)

CallFit(h, r) ==
  /\ r.pc \in {"fetch", "prove", "store"} => r.left > 0
  /\ \A x \in r.reads : Fit(h, r.block, x.item, x.value)
  /\ r.pc = "store" => Proven(r.block, r.item, r.value)
  /\ h /\ r.pc \in {"prove", "store"} => r.value = Truth[r.block][r.item]

CacheInv ==
  /\ cache \in [CachedKinds -> Seq(Entry)]
  /\ \A k \in CachedKinds : \A n \in 1..Len(cache[k]) : EntryFit(honest, k, cache[k][n])

CallInv ==
  /\ call \in [Calls -> CallRecord]
  /\ \A c \in Calls : CallFit(honest, call[c])

Inv == honest \in BOOLEAN /\ CacheInv /\ CallInv

\* The two forms of the invariant are the same.
LEMMA InvIsIInv == Inv <=> IInv
<1> DEFINE EntryOK(k, e) == /\ Kind(e.item) = k /\ Proven(e.block, e.item, e.value)
                            /\ honest => e.value = Truth[e.block][e.item]
           ReadOK(r, x) == /\ Proven(r.block, x.item, x.value)
                           /\ honest => x.value = Truth[r.block][x.item]
           CacheOK == \A k \in CachedKinds : \A e \in Entries(k) : EntryOK(k, e)
           CallOK(r) == /\ r.pc \in {"fetch", "prove", "store"} => r.left > 0
                        /\ \A x \in r.reads : ReadOK(r, x)
                        /\ r.pc = "store" => Proven(r.block, r.item, r.value)
                        /\ honest /\ r.pc \in {"prove", "store"} =>
                             r.value = Truth[r.block][r.item]
<1>1. CacheInv <=> cache \in [CachedKinds -> Seq(Entry)] /\ CacheOK
  BY DEF CacheInv, EntryFit, Fit, Entries
<1>2. CallInv <=> call \in [Calls -> CallRecord] /\ \A c \in Calls : CallOK(call[c])
  BY DEF CallInv, CallFit, Fit
<1>3. (\A k \in CachedKinds : \A e \in Entries(k) : Kind(e.item) = k) /\ CacheProven
        /\ (honest => \A k \in CachedKinds : \A e \in Entries(k) :
                         e.value = Truth[e.block][e.item])
      <=> CacheOK
  BY DEF CacheProven
<1>4. (\A c \in Calls : call[c].pc \in {"fetch", "prove", "store"} => call[c].left > 0)
        /\ ReadsOfOneBlock /\ InFlight
        /\ (honest => \A c \in Calls : \A x \in call[c].reads :
                         x.value = Truth[call[c].block][x.item])
      <=> \A c \in Calls : CallOK(call[c])
  BY DEF ReadsOfOneBlock, InFlight
<1> HIDE DEF CacheOK, CallOK
<1>5. QED
  BY <1>1, <1>2, <1>3, <1>4 DEF Inv, IInv, TypeOK, ExactWhenHonest, CallRecord

\* One cache changes; all that comes in is fit.
LEMMA CacheStep ==
  ASSUME CacheInv, honest' = honest, NEW k \in CachedKinds, NEW s \in Seq(Entry),
         NEW e, EntryFit(honest, k, e),
         OnlyFrom(s, cache[k], e),
         cache' = [cache EXCEPT ![k] = s]
  PROVE  CacheInv'
<1>1. cache' \in [CachedKinds -> Seq(Entry)] BY DEF CacheInv
<1>2. ASSUME NEW j \in CachedKinds, NEW m \in 1..Len(cache'[j])
      PROVE  EntryFit(honest, j, cache'[j][m])
  <2>1. CASE j = k
    <3>1. cache'[j] = s BY <2>1 DEF CacheInv
    <3>2. m \in 1..Len(s) BY <1>2, <3>1
    <3>3. s[m] = e \/ \E n \in 1..Len(cache[k]) : s[m] = cache[k][n] BY <3>2 DEF OnlyFrom
    <3>4. QED BY <2>1, <3>1, <3>3 DEF CacheInv
  <2>2. CASE j # k
    <3>1. cache'[j] = cache[j] BY <2>2 DEF CacheInv
    <3>2. QED BY <1>2, <3>1 DEF CacheInv
  <2>3. QED BY <2>1, <2>2
<1>3. QED BY <1>1, <1>2 DEF CacheInv

\* One call changes, to a fit state.
LEMMA CallStep ==
  ASSUME CallInv, honest' = honest, NEW c \in Calls, NEW r \in CallRecord,
         CallFit(honest, r), call' = [call EXCEPT ![c] = r]
  PROVE  CallInv'
<1>1. call' \in [Calls -> CallRecord] BY DEF CallInv
<1>2. \A d \in Calls : call'[d] = IF d = c THEN r ELSE call[d] BY DEF CallInv
<1>3. QED BY <1>1, <1>2 DEF CallInv

\* A fit value is read.
LEMMA ReturnsStep ==
  ASSUME CallInv, honest' = honest, NEW c \in Calls, call[c].left > 0,
         NEW i \in Items, NEW v \in Values, Fit(honest, call[c].block, i, v), Returns(c, i, v)
  PROVE  CallInv'
<1> DEFINE r == [call[c] EXCEPT !.pc = "run", !.left = @ - 1,
                                !.reads = @ \cup {[item |-> i, value |-> v]}]
<1>1. call[c] \in CallRecord /\ CallFit(honest, call[c]) BY DEF CallInv
<1>2. call' = [call EXCEPT ![c] = r] BY DEF Returns, CallInv
<1>3. r \in CallRecord
  <2>1. MaxAccesses \in Nat BY ReaderAssumption
  <2>2. call[c].left - 1 \in 0..MaxAccesses BY <1>1, <2>1 DEF CallRecord
  <2>3. call[c].reads \cup {[item |-> i, value |-> v]} \in SUBSET [item : Items, value : Values]
    BY <1>1 DEF CallRecord
  <2>4. QED BY <1>1, <2>2, <2>3 DEF CallRecord
<1>4. /\ r.pc = "run" /\ r.block = call[c].block
      /\ r.reads = call[c].reads \cup {[item |-> i, value |-> v]}
  BY <1>1 DEF CallRecord
<1> HIDE DEF r
<1>5. CallFit(honest, r) 
  <2>1. \A x \in r.reads : Fit(honest, r.block, x.item, x.value)
    BY <1>1, <1>4 DEF CallFit
  <2>2. QED BY <1>4, <2>1 DEF CallFit
<1>6. QED BY <1>2, <1>3, <1>5, CallStep

-----------------------------------------------------------------------------
(* Every step keeps the invariant. *)

\* A call that does not run owes nothing.
LEMMA IdleFit == Idle \in CallRecord /\ CallFit(honest, Idle)
<1>1. (CHOOSE b \in Blocks : TRUE) \in Blocks /\ (CHOOSE i \in Items : TRUE) \in Items
  BY ReaderAssumption
<1>2. QED BY <1>1, ReaderAssumption DEF Idle, CallRecord, CallFit

\* The caches are empty and no call runs at first.
LEMMA InvInit == Init => Inv
<1> SUFFICES ASSUME Init PROVE Inv OBVIOUS
<1>1. CacheInv
  <2>1. <<>> \in Seq(Entry) /\ Len(<<>>) = 0 BY EmptySeq
  <2>2. QED BY <2>1 DEF Init, CacheInv
<1>2. CallInv BY IdleFit DEF Init, CallInv
<1>3. QED BY <1>1, <1>2 DEF Init, Inv

\* One case per action.
LEMMA InvStep == Inv /\ [Next]_vars => Inv'
<1> SUFFICES ASSUME Inv, [Next]_vars PROVE Inv' OBVIOUS
<1> USE DEF Inv
<1>1. ASSUME NEW c \in Calls, CallNext(c) PROVE Inv'
  <2>1. honest' = honest
    BY <1>1 DEF CallNext, Start, Hit, Miss, ValueArrives, ProofArrives, Store, Write, Fails,
                Finish
  <2>2. call[c] \in CallRecord /\ CallFit(honest, call[c]) BY DEF CallInv
  <2>3. ASSUME UNCHANGED cache PROVE CacheInv' BY <2>1, <2>3 DEF CacheInv
  <2>4. CASE Start(c)
    <3>1. PICK b \in Blocks :
            call' = [call EXCEPT ![c] =
                       [Idle EXCEPT !.block = b, !.pc = "run", !.left = MaxAccesses]]
      BY <2>4 DEF Start
    <3> DEFINE r == [Idle EXCEPT !.block = b, !.pc = "run", !.left = MaxAccesses]
    <3>2. r \in CallRecord
      <4>1. MaxAccesses \in 0..MaxAccesses BY ReaderAssumption
      <4>2. QED BY <4>1, IdleFit DEF CallRecord
    <3>3. r.pc = "run" /\ r.reads = {} BY DEF Idle
    <3> HIDE DEF r
    <3>4. CallFit(honest, r) BY <3>3 DEF CallFit
    <3>5. CallInv' BY <2>1, <3>1, <3>2, <3>4, CallStep DEF r
    <3>6. QED BY <2>1, <2>3, <2>4, <3>5 DEF Start
  <2>5. CASE Hit(c)
    <3>1. PICK i \in Items :
            /\ Kind(i) \in CachedKinds
            /\ \E n \in Places(cache[Kind(i)], call[c].block, i) :
                 /\ cache' = [cache EXCEPT ![Kind(i)] = Freshen(@, n, cache[Kind(i)][n])]
                 /\ Returns(c, i, cache[Kind(i)][n].value)
      BY <2>5 DEF Hit
    <3> DEFINE k == Kind(i)
               s == cache[k]
    <3>2. PICK n \in Places(s, call[c].block, i) :
            /\ cache' = [cache EXCEPT ![k] = Freshen(@, n, s[n])]
            /\ Returns(c, i, s[n].value)
      BY <3>1
    <3>3. n \in 1..Len(s) /\ s[n].block = call[c].block /\ s[n].item = i
      BY DEF Places, SameKey
    <3>4. s \in Seq(Entry) BY <3>1 DEF CacheInv
    <3>5. s[n] \in Entry BY <3>3, <3>4, ElementOfSeq
    <3>6. EntryFit(honest, k, s[n]) BY <3>1, <3>3 DEF CacheInv
    <3>7. cache' = [cache EXCEPT ![k] = Freshen(s, n, s[n])] BY <3>1, <3>2 DEF CacheInv
    <3> HIDE DEF s, k
    <3>8. Freshen(s, n, s[n]) \in Seq(Entry) /\ OnlyFrom(Freshen(s, n, s[n]), s, s[n])
      BY <3>3, <3>4, <3>5, FreshenOnlyFrom
    <3>9. CacheInv' BY <2>1, <3>1, <3>6, <3>7, <3>8, CacheStep DEF s, k
    <3>10. Fit(honest, call[c].block, i, s[n].value) BY <3>3, <3>6 DEF EntryFit
    <3>11. s[n].value \in Values BY <3>5 DEF Entry
    <3>12. call[c].left > 0 BY <2>5 DEF Hit, Accesses
    <3>13. CallInv' BY <2>1, <3>2, <3>10, <3>11, <3>12, ReturnsStep
    <3>14. QED BY <2>1, <3>9, <3>13
  <2>6. CASE Miss(c)
    <3>1. PICK i \in Items : call' = [call EXCEPT ![c].pc = "fetch", ![c].item = i]
      BY <2>6 DEF Miss
    <3> DEFINE r == [call[c] EXCEPT !.pc = "fetch", !.item = i]
    <3>2. call' = [call EXCEPT ![c] = r] BY <3>1 DEF CallInv
    <3>3. r \in CallRecord BY <2>2 DEF CallRecord
    <3>4. r.pc = "fetch" /\ r.left > 0 /\ r.reads = call[c].reads /\ r.block = call[c].block
      BY <2>2, <2>6 DEF CallRecord, Miss, Accesses
    <3> HIDE DEF r
    <3>5. CallFit(honest, r) BY <2>2, <3>4 DEF CallFit
    <3>6. CallInv' BY <2>1, <3>2, <3>3, <3>5, CallStep
    <3>7. QED BY <2>1, <2>3, <2>6, <3>6 DEF Miss
  <2>7. CASE ValueArrives(c)
    <3> DEFINE i == call[c].item
               b == call[c].block
    <3>1. PICK v \in Values :
            /\ honest => v = Truth[b][i]
            /\ call' = [call EXCEPT ![c].value = v,
                                    ![c].pc = IF NeedsProof(i, v) THEN "prove" ELSE "store"]
      BY <2>7 DEF ValueArrives
    <3> DEFINE q == IF NeedsProof(i, v) THEN "prove" ELSE "store"
               r == [call[c] EXCEPT !.value = v, !.pc = q]
    <3>2. call' = [call EXCEPT ![c] = r] BY <3>1 DEF CallInv
    <3>3. r \in CallRecord BY <2>2 DEF CallRecord
    <3>4. /\ r.pc = q /\ r.value = v /\ r.left = call[c].left /\ r.reads = call[c].reads
          /\ r.block = b /\ r.item = i
      BY <2>2 DEF CallRecord
    <3>5. call[c].left > 0 BY <2>2, <2>7 DEF CallFit, ValueArrives
    <3>6. q = "store" => Proven(b, i, v) BY DEF Proven
    <3> HIDE DEF r, q, i, b
    <3>7. CallFit(honest, r) BY <2>2, <3>1, <3>4, <3>5, <3>6 DEF CallFit, b, i
    <3>8. CallInv' BY <2>1, <3>2, <3>3, <3>7, CallStep
    <3>9. QED BY <2>1, <2>3, <2>7, <3>8 DEF ValueArrives
  <2>8. CASE ProofArrives(c)
    <3> DEFINE r == [call[c] EXCEPT !.pc = "store"]
    <3>1. call' = [call EXCEPT ![c] = r] BY <2>8 DEF ProofArrives, CallInv
    <3>2. r \in CallRecord BY <2>2 DEF CallRecord
    <3>3. /\ r.pc = "store" /\ r.value = call[c].value /\ r.left = call[c].left
          /\ r.reads = call[c].reads /\ r.block = call[c].block /\ r.item = call[c].item
      BY <2>2 DEF CallRecord
    <3>4. Proven(r.block, r.item, r.value) BY <2>8, <3>3 DEF ProofArrives, Proven
    <3>5. call[c].pc = "prove" BY <2>8 DEF ProofArrives
    <3> HIDE DEF r
    <3>6. CallFit(honest, r) BY <2>2, <3>3, <3>4, <3>5 DEF CallFit
    <3>7. CallInv' BY <2>1, <3>1, <3>2, <3>6, CallStep
    <3>8. QED BY <2>1, <2>3, <2>8, <3>7 DEF ProofArrives
  <2>9. CASE Store(c)
    <3> DEFINE i == call[c].item
               b == call[c].block
               v == call[c].value
               e == CacheEntry(b, i, v)
               k == Kind(i)
    <3>1. i \in Items /\ b \in Blocks /\ v \in Values BY <2>2 DEF CallRecord
    <3>2. call[c].left > 0 /\ Fit(honest, b, i, v) BY <2>2, <2>9 DEF CallFit, Store, Fit
    <3>3. e \in Entry /\ EntryFit(honest, k, e) /\ e.value = v
      BY <3>1, <3>2 DEF CacheEntry, Entry, EntryFit
    <3>4. Returns(c, i, v) BY <2>9, <3>3 DEF Store
    <3>5. CallInv' BY <2>1, <3>1, <3>2, <3>4, ReturnsStep
    <3>6. CASE k \notin CachedKinds
      <4>1. UNCHANGED cache BY <2>9, <3>6 DEF Store
      <4>2. QED BY <2>1, <2>3, <3>5, <4>1
    <3>7. CASE k \in CachedKinds
      <4> DEFINE s == LruPut(cache[k], Size[k], e)
      <4>1. cache' = [cache EXCEPT ![k] = s] BY <2>9, <3>7 DEF Store, CacheInv
      <4>2. cache[k] \in Seq(Entry) /\ Size[k] \in Nat \ {0}
        BY <3>7, ReaderAssumption DEF CacheInv
      <4> HIDE DEF e, k
      <4>3. s \in Seq(Entry) /\ OnlyFrom(s, cache[k], e) BY <3>3, <4>2, PutOnlyFrom
      <4> HIDE DEF s
      <4>4. CacheInv' BY <2>1, <3>3, <3>7, <4>1, <4>3, CacheStep
      <4>5. QED BY <2>1, <3>5, <4>4
    <3>8. QED BY <3>6, <3>7
  <2>10. CASE Write(c)
    <3> DEFINE r == [call[c] EXCEPT !.left = @ - 1]
    <3>1. call' = [call EXCEPT ![c] = r] BY <2>10 DEF Write, CallInv
    <3>2. r \in CallRecord
      <4>1. MaxAccesses \in Nat BY ReaderAssumption
      <4>2. call[c].left \in 0..MaxAccesses /\ call[c].left > 0
        BY <2>2, <2>10 DEF CallRecord, Write, Accesses
      <4>3. call[c].left - 1 \in 0..MaxAccesses BY <4>1, <4>2
      <4>4. QED BY <2>2, <4>3 DEF CallRecord
    <3>3. r.pc = "run" /\ r.reads = call[c].reads /\ r.block = call[c].block
      BY <2>2, <2>10 DEF CallRecord, Write, Accesses
    <3> HIDE DEF r
    <3>4. CallFit(honest, r) BY <2>2, <3>3 DEF CallFit
    <3>5. CallInv' BY <2>1, <3>1, <3>2, <3>4, CallStep
    <3>6. QED BY <2>1, <2>3, <2>10, <3>5 DEF Write
  <2>11. CASE Fails(c) \/ Finish(c)
    <3>1. UNCHANGED cache /\ call' = [call EXCEPT ![c] = Idle]
      BY <2>11 DEF Fails, Finish
    <3>2. CallInv' BY <2>1, <3>1, IdleFit, CallStep
    <3>3. QED BY <2>1, <2>3, <3>1, <3>2
  <2>12. QED
    BY <1>1, <2>4, <2>5, <2>6, <2>7, <2>8, <2>9, <2>10, <2>11 DEF CallNext
<1>2. CASE UNCHANGED vars BY <1>2 DEF vars, CacheInv, CallInv
<1>3. QED BY <1>1, <1>2 DEF Next

-----------------------------------------------------------------------------
(* Theorems. *)

\* What is cached, read and on its way is fit for its block, at every moment.
THEOREM ReaderInvariance == Spec => []IInv
<1>1. Spec => []Inv BY InvInit, InvStep, PTL DEF Spec
<1>2. QED BY <1>1, InvIsIInv, PTL

\* Values, entries and calls keep their types, and an entry its kind's cache.
THEOREM ReaderTypes == Spec => []TypeOK
<1>1. IInv => TypeOK BY DEF IInv
<1>2. QED BY <1>1, ReaderInvariance, PTL

\* Nothing but zero gets into the storage cache that cannot be proved under the root of
\* its block (exe/cache.rs:142-146, exe/mod.rs:184-201).
THEOREM CacheIsProven == Spec => []CacheProven
<1>1. IInv => CacheProven BY DEF IInv
<1>2. QED BY <1>1, ReaderInvariance, PTL

\* A call sees what can be proved under the root of one block, or zero, whatever the
\* other calls cache (exe/cache.rs:142-146, exe/mod.rs:184-201).
THEOREM ReadsAreOfOneBlock == Spec => []ReadsOfOneBlock
<1>1. IInv => ReadsOfOneBlock BY DEF IInv
<1>2. QED BY <1>1, ReaderInvariance, PTL

\* With an honest provider the caches are transparent.
THEOREM ExactIfHonest == Spec => []ExactWhenHonest
<1>1. IInv => ExactWhenHonest BY DEF IInv
<1>2. QED BY <1>1, ReaderInvariance, PTL

-----------------------------------------------------------------------------
(* One entry per key. *)

\* No two entries of s have the same key.
Distinct(s) ==
  \A m, n \in 1..Len(s) :
    m # n => s[m].block # s[n].block \/ s[m].item # s[n].item

\* Moving an entry to the end, with the same key, keeps the keys distinct.
LEMMA FreshenDistinct ==
  ASSUME NEW S, NEW s \in Seq(S), NEW n \in 1..Len(s), NEW e \in S, Distinct(s),
         e.block = s[n].block, e.item = s[n].item
  PROVE  Distinct(Freshen(s, n, e))
<1> DEFINE f == Freshen(s, n, e)
           from(m) == IF m < n THEN m ELSE IF m < Len(s) THEN m + 1 ELSE n
<1>1. Len(s) \in Nat BY LenProperties
<1>2. Len(f) = Len(s) /\ \A m \in 1..Len(s) : f[m] =
        IF m < n THEN s[m] ELSE IF m < Len(s) THEN s[m + 1] ELSE e
  <2> HIDE DEF from
  <2>1. Len(f) = Len(s) BY FreshenElements
  <2>2. ASSUME NEW m \in 1..Len(s)
        PROVE  f[m] = IF m < n THEN s[m] ELSE IF m < Len(s) THEN s[m + 1] ELSE e
    BY FreshenElements
  <2>3. QED BY <2>1, <2>2
<1> HIDE DEF f
<1>3. \A m \in 1..Len(s) : f[m].block = s[from(m)].block /\ f[m].item = s[from(m)].item
  BY <1>2
<1>4. \A m, j \in 1..Len(s) :
        from(m) \in 1..Len(s) /\ (m # j => from(m) # from(j))
  BY <1>1
<1> HIDE DEF from
<1>5. \A m, j \in 1..Len(s) :
        m # j => f[m].block # f[j].block \/ f[m].item # f[j].item
  <2> SUFFICES ASSUME NEW m \in 1..Len(s), NEW j \in 1..Len(s), m # j
               PROVE  f[m].block # f[j].block \/ f[m].item # f[j].item
    OBVIOUS
  <2>1. from(m) \in 1..Len(s) /\ from(j) \in 1..Len(s) /\ from(m) # from(j) BY <1>4
  <2>2. s[from(m)].block # s[from(j)].block \/ s[from(m)].item # s[from(j)].item
    BY <2>1 DEF Distinct
  <2>3. /\ f[m].block = s[from(m)].block /\ f[m].item = s[from(m)].item
        /\ f[j].block = s[from(j)].block /\ f[j].item = s[from(j)].item
    BY <1>3
  <2>4. QED BY <2>2, <2>3
<1>6. QED BY <1>2, <1>5 DEF Distinct, f

\* A put neither doubles a key nor exceeds the capacity.
LEMMA PutDistinct ==
  ASSUME NEW S, NEW s \in Seq(S), NEW size \in Nat \ {0}, NEW e \in S,
         Distinct(s), Len(s) <= size
  PROVE  Distinct(LruPut(s, size, e)) /\ Len(LruPut(s, size, e)) <= size
<1> DEFINE old == Places(s, e.block, e.item)
           at == CHOOSE n \in old : TRUE
<1>1. Len(s) \in Nat BY LenProperties
<1>2. CASE old # {}
  <2>1. at \in 1..Len(s) /\ s[at].block = e.block /\ s[at].item = e.item
    BY <1>2 DEF Places, SameKey
  <2>2. LruPut(s, size, e) = Freshen(s, at, e) BY <1>2 DEF LruPut
  <2> HIDE DEF at
  <2>3. Len(Freshen(s, at, e)) = Len(s) BY <2>1, FreshenOnlyFrom
  <2>4. Distinct(Freshen(s, at, e)) BY <2>1, FreshenDistinct
  <2>5. QED BY <2>2, <2>3, <2>4
<1>3. CASE old = {}
  <2>1. \A n \in 1..Len(s) : s[n].block # e.block \/ s[n].item # e.item
    BY <1>3 DEF Places, SameKey
  <2>2. CASE Len(s) >= size
    <3> DEFINE t == Tail(s)
    <3>1. LruPut(s, size, e) = Append(t, e) BY <1>3, <2>2 DEF LruPut
    <3>2. s # <<>> BY <1>1, <2>2
    <3>3. t \in Seq(S) /\ Len(t) = Len(s) - 1 /\ \A m \in 1..Len(t) : t[m] = s[m + 1]
      BY <3>2, HeadTailProperties
    <3> HIDE DEF t
    <3>4. /\ Len(Append(t, e)) = Len(t) + 1 /\ Append(t, e)[Len(t) + 1] = e
          /\ \A m \in 1..Len(t) : Append(t, e)[m] = t[m]
      BY <3>3, AppendProperties
    <3>5. ASSUME NEW m \in 1..Len(t), NEW n \in 1..Len(t), m # n
          PROVE  t[m].block # t[n].block \/ t[m].item # t[n].item
      <4>1. /\ m + 1 \in 1..Len(s) /\ n + 1 \in 1..Len(s) /\ m + 1 # n + 1
            /\ t[m] = s[m + 1] /\ t[n] = s[n + 1]
        BY <1>1, <3>3, <3>5
      <4>2. QED BY <4>1 DEF Distinct
    <3>6. ASSUME NEW m \in 1..Len(t) PROVE t[m].block # e.block \/ t[m].item # e.item
      <4>1. m + 1 \in 1..Len(s) /\ t[m] = s[m + 1] BY <1>1, <3>3
      <4>2. QED BY <2>1, <4>1
    <3>7. Distinct(Append(t, e)) BY <1>1, <3>3, <3>4, <3>5, <3>6 DEF Distinct
    <3>8. QED BY <1>1, <3>1, <3>3, <3>4, <3>7
  <2>3. CASE ~(Len(s) >= size)
    <3>1. LruPut(s, size, e) = Append(s, e) BY <1>3, <2>3 DEF LruPut
    <3>2. /\ Len(Append(s, e)) = Len(s) + 1 /\ Append(s, e)[Len(s) + 1] = e
          /\ \A m \in 1..Len(s) : Append(s, e)[m] = s[m]
      BY AppendProperties
    <3>3. Distinct(Append(s, e)) BY <1>1, <2>1, <3>2 DEF Distinct
    <3>4. QED BY <1>1, <2>3, <3>1, <3>2, <3>3
  <2>4. QED BY <2>2, <2>3
<1>4. QED BY <1>2, <1>3

CachesDistinct ==
  \A k \in CachedKinds : Distinct(cache[k]) /\ Len(cache[k]) <= Size[k]

\* Said of each cache as a sequence, or of all of them.
LEMMA DistinctIsOneEntry == CachesDistinct <=> OneEntryPerKey
BY DEF CachesDistinct, OneEntryPerKey, Distinct

\* Every step keeps the keys distinct and the sizes bounded.
LEMMA DistinctStep == Inv /\ CachesDistinct /\ [Next]_vars => CachesDistinct'
<1> SUFFICES ASSUME Inv, CachesDistinct, [Next]_vars PROVE CachesDistinct' OBVIOUS
<1>1. ASSUME UNCHANGED cache PROVE CachesDistinct' BY <1>1 DEF CachesDistinct
<1>2. cache \in [CachedKinds -> Seq(Entry)] BY DEF Inv, CacheInv
<1>3. ASSUME NEW k \in CachedKinds, NEW s, cache' = [cache EXCEPT ![k] = s],
             Distinct(s), Len(s) <= Size[k]
      PROVE  CachesDistinct'
  <2>1. \A j \in CachedKinds : cache'[j] = IF j = k THEN s ELSE cache[j] BY <1>2, <1>3
  <2>2. QED BY <1>3, <2>1 DEF CachesDistinct
<1>4. ASSUME NEW c \in Calls, Hit(c) PROVE CachesDistinct'
  <2>1. PICK k \in CachedKinds : \E n \in 1..Len(cache[k]) :
          cache' = [cache EXCEPT ![k] = Freshen(@, n, cache[k][n])]
    BY <1>4 DEF Hit, Places
  <2>2. PICK n \in 1..Len(cache[k]) :
          cache' = [cache EXCEPT ![k] = Freshen(@, n, cache[k][n])]
    BY <2>1
  <2>3. cache' = [cache EXCEPT ![k] = Freshen(cache[k], n, cache[k][n])] BY <1>2, <2>2
  <2>4. cache[k] \in Seq(Entry) /\ cache[k][n] \in Entry BY <1>2, ElementOfSeq
  <2>5. Distinct(cache[k]) /\ Len(cache[k]) <= Size[k] BY DEF CachesDistinct
  <2>6. Distinct(Freshen(cache[k], n, cache[k][n])) BY <2>4, <2>5, FreshenDistinct
  <2>7. Len(Freshen(cache[k], n, cache[k][n])) = Len(cache[k]) BY <2>4, FreshenOnlyFrom
  <2>8. QED BY <1>3, <2>3, <2>5, <2>6, <2>7
<1>5. ASSUME NEW c \in Calls, Store(c) PROVE CachesDistinct'
  <2> DEFINE k == Kind(call[c].item)
             e == CacheEntry(call[c].block, call[c].item, call[c].value)
  <2>1. CASE k \notin CachedKinds BY <1>1, <1>5, <2>1 DEF Store
  <2>2. CASE k \in CachedKinds
    <3>1. cache' = [cache EXCEPT ![k] = LruPut(cache[k], Size[k], e)]
      BY <1>2, <1>5, <2>2 DEF Store
    <3>2. call[c] \in CallRecord BY DEF Inv, CallInv
    <3>3. e \in Entry BY <3>2 DEF CacheEntry, Entry, CallRecord
    <3>4. cache[k] \in Seq(Entry) /\ Size[k] \in Nat \ {0} BY <1>2, <2>2, ReaderAssumption
    <3> HIDE DEF e, k
    <3>5. Distinct(cache[k]) /\ Len(cache[k]) <= Size[k] BY <2>2 DEF CachesDistinct
    <3>6. Distinct(LruPut(cache[k], Size[k], e)) /\ Len(LruPut(cache[k], Size[k], e)) <= Size[k]
      BY <3>3, <3>4, <3>5, PutDistinct
    <3>7. QED BY <1>3, <2>2, <3>1, <3>6
  <2>3. QED BY <2>1, <2>2
<1>6. CASE UNCHANGED vars BY <1>1, <1>6 DEF vars
<1>7. QED
  BY <1>1, <1>4, <1>5, <1>6
  DEF Next, CallNext, Start, Miss, ValueArrives, ProofArrives, Write, Fails, Finish

LEMMA DistinctInit == Init => CachesDistinct
<1>1. Len(<<>>) = 0 BY EmptySeq
<1>2. QED BY <1>1, ReaderAssumption DEF Init, CachesDistinct, Distinct

\* However many calls put the same key, a cache has one entry of it, and its size.
THEOREM OneEntry == Spec => []OneEntryPerKey
<1>1. Spec => []CachesDistinct BY DistinctInit, InvInit, InvStep, DistinctStep, PTL DEF Spec
<1>2. QED BY <1>1, DistinctIsOneEntry, PTL

-----------------------------------------------------------------------------
(* The least recently used entry leaves. *)

\* A key of a distinct list stands at one place.
LEMMA OnePlace ==
  ASSUME NEW t, Distinct(t), NEW b, NEW i, NEW p \in Places(t, b, i), NEW q \in Places(t, b, i)
  PROVE  p = q
BY DEF Distinct, Places, SameKey

\* Recency is kept if the entries of s go to places of t, to[n] = 0 for one that
\* is lost, in the same order but for one that goes to the end.
LEMMA RecencyByPlaces ==
  ASSUME NEW s, NEW t, NEW size, NEW to, Len(s) \in Nat, Len(t) \in Nat, Distinct(t),
         \A n \in 1..Len(s) :
           IF to[n] = 0
           THEN n = 1 /\ Len(s) = size /\ Places(t, s[n].block, s[n].item) = {}
           ELSE to[n] \in Places(t, s[n].block, s[n].item),
         \A m, n \in 1..Len(s) : m < n /\ to[m] # 0 /\ to[n] # 0 =>
           to[m] < to[n] \/ to[m] = Len(t)
  PROVE  RecencyKept(s, t, size)
<1>1. ASSUME NEW n \in 1..Len(s), Places(t, s[n].block, s[n].item) = {}
      PROVE  n = 1 /\ Len(s) = size
  <2>1. to[n] = 0 BY <1>1
  <2>2. QED BY <2>1
<1>2. ASSUME NEW n \in 1..Len(s), NEW p \in Places(t, s[n].block, s[n].item)
      PROVE  to[n] # 0 /\ p = to[n]
  <2>1. to[n] # 0 BY <1>2
  <2>2. to[n] \in Places(t, s[n].block, s[n].item) BY <2>1
  <2>3. QED BY <1>2, <2>1, <2>2, OnePlace
<1>3. ASSUME NEW m \in 1..Len(s), NEW n \in 1..Len(s), m < n,
             NEW p \in Places(t, s[m].block, s[m].item),
             NEW q \in Places(t, s[n].block, s[n].item)
      PROVE  p < q \/ p = Len(t)
  <2>1. to[m] # 0 /\ p = to[m] /\ to[n] # 0 /\ q = to[n] BY <1>2
  <2>2. QED BY <1>3, <2>1
<1>4. QED BY <1>1, <1>3 DEF RecencyKept

\* A cache that nobody uses.
LEMMA StayRecency ==
  ASSUME NEW s, Len(s) \in Nat, Distinct(s), NEW size
  PROVE  RecencyKept(s, s, size)
<1> DEFINE to == [n \in 1..Len(s) |-> n]
<1>1. \A n \in 1..Len(s) : to[n] = n OBVIOUS
<1>2. \A n \in 1..Len(s) : n \in Places(s, s[n].block, s[n].item) BY DEF Places, SameKey
<1> HIDE DEF to
<1>3. QED BY <1>1, <1>2, RecencyByPlaces

\* An entry that is used goes to the end.
LEMMA FreshenRecency ==
  ASSUME NEW S, NEW s \in Seq(S), NEW n \in 1..Len(s), NEW e \in S, Distinct(s),
         e.block = s[n].block, e.item = s[n].item, NEW size
  PROVE  RecencyKept(s, Freshen(s, n, e), size) /\ Newest(Freshen(s, n, e), e)
<1> DEFINE t == Freshen(s, n, e)
           to == [m \in 1..Len(s) |-> IF m < n THEN m ELSE IF m > n THEN m - 1 ELSE Len(s)]
<1>1. Len(s) \in Nat /\ n \in Nat BY LenProperties
<1>2. /\ t \in Seq(S) /\ Len(t) = Len(s)
      /\ \A m \in 1..Len(s) : t[m] =
           IF m < n THEN s[m] ELSE IF m < Len(s) THEN s[m + 1] ELSE e
  <2> HIDE DEF to
  <2>1. t \in Seq(S) /\ Len(t) = Len(s) BY FreshenElements
  <2>2. ASSUME NEW m \in 1..Len(s)
        PROVE  t[m] = IF m < n THEN s[m] ELSE IF m < Len(s) THEN s[m + 1] ELSE e
    BY FreshenElements
  <2>3. QED BY <2>1, <2>2
<1>3. Distinct(t) BY FreshenDistinct
<1>4. \A m \in 1..Len(s) :
        to[m] = IF m < n THEN m ELSE IF m > n THEN m - 1 ELSE Len(s)
  OBVIOUS
<1> HIDE DEF t, to
<1>5. ASSUME NEW m \in 1..Len(s)
      PROVE  to[m] # 0 /\ to[m] \in Places(t, s[m].block, s[m].item)
  <2>1. CASE m < n
    <3>1. to[m] = m /\ t[m] = s[m] BY <1>1, <1>2, <1>4, <2>1
    <3>2. QED BY <1>1, <1>2, <3>1 DEF Places, SameKey
  <2>2. CASE m > n
    <3>1. to[m] = m - 1 /\ m - 1 \in 1..Len(s) /\ ~ (m - 1 < n) /\ m - 1 < Len(s)
          /\ (m - 1) + 1 = m
      BY <1>1, <1>4, <2>2
    <3>2. t[m - 1] = s[m] BY <1>2, <3>1
    <3>3. QED BY <1>1, <1>2, <3>1, <3>2 DEF Places, SameKey
  <2>3. CASE m = n
    <3>1. to[m] = Len(s) /\ Len(s) \in 1..Len(s) /\ ~ (Len(s) < n) BY <1>1, <1>4, <2>3
    <3>2. t[Len(s)] = e BY <1>2, <3>1
    <3>3. QED BY <1>1, <1>2, <2>3, <3>1, <3>2 DEF Places, SameKey
  <2>4. QED BY <1>1, <2>1, <2>2, <2>3
<1>6. \A m, j \in 1..Len(s) : m < j => to[m] < to[j] \/ to[m] = Len(t)
  BY <1>1, <1>2, <1>4
<1>7. RecencyKept(s, t, size) BY <1>1, <1>2, <1>3, <1>5, <1>6, RecencyByPlaces
<1>8. Newest(t, e)
  <2>1. Len(s) \in 1..Len(s) /\ ~ (Len(s) < n) BY <1>1
  <2>2. t[Len(t)] = e BY <1>2, <2>1
  <2>3. t # <<>> BY <1>1, <1>2, EmptySeq
  <2>4. QED BY <2>2, <2>3 DEF Newest
<1>9. QED BY <1>7, <1>8 DEF t

\* What is put is at the end, and only the first entry of a full cache makes room.
LEMMA PutRecency ==
  ASSUME NEW S, NEW s \in Seq(S), NEW size \in Nat \ {0}, NEW e \in S,
         Distinct(s), Len(s) <= size
  PROVE  RecencyKept(s, LruPut(s, size, e), size) /\ Newest(LruPut(s, size, e), e)
<1> DEFINE old == Places(s, e.block, e.item)
           at == CHOOSE n \in old : TRUE
<1>1. Len(s) \in Nat BY LenProperties
<1>2. CASE old # {}
  <2>1. at \in 1..Len(s) /\ s[at].block = e.block /\ s[at].item = e.item
    BY <1>2 DEF Places, SameKey
  <2>2. LruPut(s, size, e) = Freshen(s, at, e) BY <1>2 DEF LruPut
  <2> HIDE DEF at
  <2>3. QED BY <2>1, <2>2, FreshenRecency
<1>3. CASE old = {}
  <2> DEFINE t == LruPut(s, size, e)
  <2>1. Distinct(t) BY PutDistinct
  <2>2. \A n \in 1..Len(s) : s[n].block # e.block \/ s[n].item # e.item
    BY <1>3 DEF Places, SameKey
  <2>3. CASE Len(s) >= size
    <3> DEFINE u == Tail(s)
               to == [n \in 1..Len(s) |-> n - 1]
    <3>1. t = Append(u, e) BY <1>3, <2>3 DEF LruPut
    <3>2. s # <<>> BY <1>1, <2>3
    <3>3. u \in Seq(S) /\ Len(u) = Len(s) - 1 /\ \A m \in 1..Len(u) : u[m] = s[m + 1]
      BY <3>2, HeadTailProperties
    <3> HIDE DEF u, t
    <3>4. /\ Len(t) = Len(s) /\ t[Len(s)] = e
          /\ \A m \in 1..(Len(s) - 1) : t[m] = s[m + 1]
      <4>1. /\ Len(t) = Len(u) + 1 /\ t[Len(u) + 1] = e
            /\ \A m \in 1..Len(u) : t[m] = u[m]
        BY <3>1, <3>3, AppendProperties
      <4>2. Len(u) + 1 = Len(s) BY <1>1, <3>3
      <4>3. QED BY <3>3, <4>1, <4>2
    <3>5. \A n \in 1..Len(s) : to[n] = n - 1 OBVIOUS
    <3> HIDE DEF to
    <3>6. Places(t, s[1].block, s[1].item) = {}
      <4> SUFFICES ASSUME NEW p \in 1..Len(t), t[p].block = s[1].block, t[p].item = s[1].item
                   PROVE  FALSE
        BY DEF Places, SameKey
      <4>1. 1 \in 1..Len(s) BY <1>1, <2>3
      <4>2. CASE p = Len(s) BY <2>2, <3>4, <4>1, <4>2
      <4>3. CASE p # Len(s)
        <5>1. p \in 1..(Len(s) - 1) /\ p + 1 \in 1..Len(s) /\ p + 1 # 1 BY <1>1, <3>4, <4>3
        <5>2. t[p] = s[p + 1] BY <3>4, <5>1
        <5>3. QED BY <4>1, <5>1, <5>2 DEF Distinct
      <4>4. QED BY <4>2, <4>3
    <3>7. ASSUME NEW n \in 1..Len(s), n # 1
          PROVE  to[n] # 0 /\ to[n] \in Places(t, s[n].block, s[n].item)
      <4>1. /\ to[n] = n - 1 /\ n - 1 \in 1..(Len(s) - 1) /\ (n - 1) + 1 = n
            /\ n - 1 \in 1..Len(t)
        BY <1>1, <3>4, <3>5, <3>7
      <4>2. t[n - 1] = s[n] BY <3>4, <4>1
      <4>3. QED BY <4>1, <4>2 DEF Places, SameKey
    <3>8. ASSUME NEW n \in 1..Len(s)
          PROVE  IF to[n] = 0
                 THEN n = 1 /\ Len(s) = size /\ Places(t, s[n].block, s[n].item) = {}
                 ELSE to[n] \in Places(t, s[n].block, s[n].item)
      <4>1. CASE n # 1 BY <3>7, <4>1
      <4>2. CASE n = 1
        <5>1. to[n] = 0 /\ Len(s) = size BY <1>1, <2>3, <3>5, <4>2
        <5>2. QED BY <3>6, <4>2, <5>1
      <4>3. QED BY <4>1, <4>2
    <3>9. \A m, n \in 1..Len(s) : m < n => to[m] < to[n] BY <1>1, <3>5
    <3>10. RecencyKept(s, t, size) BY <1>1, <2>1, <3>4, <3>8, <3>9, RecencyByPlaces
    <3>11. t # <<>> BY <1>1, <2>3, <3>4, EmptySeq
    <3>12. QED BY <3>4, <3>10, <3>11 DEF Newest, t
  <2>4. CASE ~(Len(s) >= size)
    <3> DEFINE to == [n \in 1..Len(s) |-> n]
    <3>1. t = Append(s, e) BY <1>3, <2>4 DEF LruPut
    <3> HIDE DEF t
    <3>2. /\ Len(t) = Len(s) + 1 /\ t[Len(s) + 1] = e
          /\ \A m \in 1..Len(s) : t[m] = s[m]
      BY <3>1, AppendProperties
    <3>3. \A n \in 1..Len(s) : to[n] = n OBVIOUS
    <3> HIDE DEF to
    <3>4. \A n \in 1..Len(s) : to[n] # 0 /\ to[n] \in Places(t, s[n].block, s[n].item)
      BY <1>1, <3>2, <3>3 DEF Places, SameKey
    <3>5. \A m, n \in 1..Len(s) : m < n => to[m] < to[n] BY <3>3
    <3>6. RecencyKept(s, t, size) BY <1>1, <2>1, <3>2, <3>4, <3>5, RecencyByPlaces
    <3>7. t # <<>> BY <1>1, <3>2, EmptySeq
    <3>8. QED BY <3>2, <3>6, <3>7 DEF Newest, t
  <2>5. QED BY <2>3, <2>4
<1>4. QED BY <1>2, <1>3

\* What one step does to the caches and to what the calls have read.
UsedStep ==
  /\ \A k \in CachedKinds : RecencyKept(cache[k], cache'[k], Size[k])
  /\ \A c \in Calls : \A r \in call'[c].reads \ call[c].reads :
       Kind(r.item) \in CachedKinds =>
         Newest(cache'[Kind(r.item)], CacheEntry(call[c].block, r.item, r.value))

\* The call that a value returns to reads it, and no other call anything.
LEMMA ReturnsReads ==
  ASSUME call \in [Calls -> CallRecord], NEW c \in Calls, NEW i, NEW v, Returns(c, i, v),
         NEW d \in Calls, NEW r \in call'[d].reads \ call[d].reads
  PROVE  d = c /\ r.item = i /\ r.value = v
<1>1. call' = [call EXCEPT ![c] = [call[c] EXCEPT !.pc = "run", !.left = @ - 1,
                 !.reads = @ \cup {[item |-> i, value |-> v]}]]
  BY DEF Returns
<1>2. call'[d] = IF d = c THEN [call[c] EXCEPT !.pc = "run", !.left = @ - 1,
                                  !.reads = @ \cup {[item |-> i, value |-> v]}]
                 ELSE call[d]
  BY <1>1
<1>3. d = c BY <1>2
<1>4. call'[d].reads = call[d].reads \cup {[item |-> i, value |-> v]}
  BY <1>2, <1>3 DEF CallRecord
<1>5. r = [item |-> i, value |-> v] BY <1>4
<1>6. QED BY <1>3, <1>5

LEMMA StepUses == Inv /\ CachesDistinct /\ [Next]_vars => UsedStep
<1> SUFFICES ASSUME Inv, CachesDistinct, [Next]_vars PROVE UsedStep OBVIOUS
<1>1. cache \in [CachedKinds -> Seq(Entry)] /\ call \in [Calls -> CallRecord]
  BY DEF Inv, CacheInv, CallInv
<1>2. ASSUME NEW k \in CachedKinds
      PROVE  /\ cache[k] \in Seq(Entry) /\ Len(cache[k]) \in Nat /\ Distinct(cache[k])
             /\ Len(cache[k]) <= Size[k] /\ Size[k] \in Nat \ {0}
  BY <1>1, LenProperties, ReaderAssumption DEF CachesDistinct
<1>3. ASSUME UNCHANGED cache, \A c \in Calls : call'[c].reads \subseteq call[c].reads
      PROVE  UsedStep
  BY <1>2, <1>3, StayRecency DEF UsedStep
<1>4. ASSUME NEW c \in Calls, NEW r, r.reads \subseteq call[c].reads, UNCHANGED cache,
             call' = [call EXCEPT ![c] = r]
      PROVE  UsedStep
  BY <1>1, <1>3, <1>4
<1>5. ASSUME NEW k \in CachedKinds, NEW s, cache' = [cache EXCEPT ![k] = s],
             RecencyKept(cache[k], s, Size[k])
      PROVE  /\ \A j \in CachedKinds : RecencyKept(cache[j], cache'[j], Size[j])
             /\ cache'[k] = s
  <2>1. \A j \in CachedKinds : cache'[j] = IF j = k THEN s ELSE cache[j] BY <1>1, <1>5
  <2>2. QED BY <1>2, <1>5, <2>1, StayRecency
<1>6. ASSUME NEW c \in Calls, Hit(c) PROVE UsedStep
  <2>1. PICK i \in Items : /\ Kind(i) \in CachedKinds
                           /\ \E n \in Places(cache[Kind(i)], call[c].block, i) :
                                LET e == cache[Kind(i)][n]
                                IN  /\ cache' = [cache EXCEPT ![Kind(i)] = Freshen(@, n, e)]
                                    /\ Returns(c, i, e.value)
    BY <1>6 DEF Hit
  <2> DEFINE k == Kind(i)
  <2>2. PICK n \in Places(cache[k], call[c].block, i) :
          /\ cache' = [cache EXCEPT ![k] = Freshen(@, n, cache[k][n])]
          /\ Returns(c, i, cache[k][n].value)
    BY <2>1
  <2> DEFINE e == cache[k][n]
  <2>3. k \in CachedKinds BY <2>1
  <2>4. n \in 1..Len(cache[k]) /\ e.block = call[c].block /\ e.item = i
    BY DEF Places, SameKey
  <2>5. e \in Entry BY <1>2, <2>3, <2>4, ElementOfSeq
  <2>6. cache' = [cache EXCEPT ![k] = Freshen(cache[k], n, e)] BY <1>1, <2>2, <2>3
  <2>7. RecencyKept(cache[k], Freshen(cache[k], n, e), Size[k]) /\ Newest(Freshen(cache[k], n, e), e)
    BY <1>2, <2>3, <2>4, <2>5, FreshenRecency
  <2>8. e = CacheEntry(call[c].block, i, e.value) BY <2>4, <2>5 DEF Entry, CacheEntry
  <2>9. Returns(c, i, e.value) BY <2>2
  <2> HIDE DEF e, k
  <2>10. /\ \A j \in CachedKinds : RecencyKept(cache[j], cache'[j], Size[j])
         /\ cache'[k] = Freshen(cache[k], n, e)
    BY <1>5, <2>3, <2>6, <2>7
  <2>11. ASSUME NEW d \in Calls, NEW r \in call'[d].reads \ call[d].reads
         PROVE  Newest(cache'[Kind(r.item)], CacheEntry(call[d].block, r.item, r.value))
    <3>1. d = c /\ r.item = i /\ r.value = e.value BY <1>1, <2>9, ReturnsReads
    <3>2. QED BY <2>7, <2>8, <2>10, <3>1 DEF k
  <2>12. QED BY <2>10, <2>11 DEF UsedStep
<1>7. ASSUME NEW c \in Calls, Store(c) PROVE UsedStep
  <2> DEFINE i == call[c].item
             k == Kind(i)
             e == CacheEntry(call[c].block, i, call[c].value)
  <2>1. e \in Entry /\ e.item = i /\ e.value = call[c].value
    BY <1>1 DEF CacheEntry, Entry, CallRecord
  <2>2. Returns(c, i, call[c].value) BY <1>7, <2>1 DEF Store
  <2>3. ASSUME NEW d \in Calls, NEW r \in call'[d].reads \ call[d].reads
        PROVE  d = c /\ r.item = i /\ r.value = call[c].value
    BY <1>1, <2>2, <2>3, ReturnsReads
  <2>4. CASE k \notin CachedKinds
    <3>1. UNCHANGED cache BY <1>7, <2>4 DEF Store
    <3>2. QED BY <1>2, <2>3, <2>4, <3>1, StayRecency DEF UsedStep
  <2>5. CASE k \in CachedKinds
    <3>1. cache' = [cache EXCEPT ![k] = LruPut(cache[k], Size[k], e)]
      BY <1>1, <1>7, <2>5 DEF Store
    <3>2. /\ RecencyKept(cache[k], LruPut(cache[k], Size[k], e), Size[k])
          /\ Newest(LruPut(cache[k], Size[k], e), e)
      BY <1>2, <2>1, <2>5, PutRecency
    <3>3. /\ \A j \in CachedKinds : RecencyKept(cache[j], cache'[j], Size[j])
          /\ cache'[k] = LruPut(cache[k], Size[k], e)
      BY <1>5, <2>5, <3>1, <3>2
    <3>4. QED BY <2>3, <3>2, <3>3 DEF UsedStep
  <2>6. QED BY <2>4, <2>5
<1>8. ASSUME NEW c \in Calls, Start(c) PROVE UsedStep
  <2>1. PICK b \in Blocks :
          call' = [call EXCEPT ![c] = [Idle EXCEPT !.block = b, !.pc = "run", !.left = MaxAccesses]]
    BY <1>8 DEF Start
  <2>2. [Idle EXCEPT !.block = b, !.pc = "run", !.left = MaxAccesses].reads = {} BY DEF Idle
  <2>3. UNCHANGED cache BY <1>8 DEF Start
  <2>4. QED BY <1>4, <2>1, <2>2, <2>3
<1>9. ASSUME NEW c \in Calls, Miss(c) \/ ValueArrives(c) \/ ProofArrives(c) \/ Write(c)
      PROVE  UsedStep
  <2>1. UNCHANGED cache BY <1>9 DEF Miss, ValueArrives, ProofArrives, Write
  <2>2. ASSUME NEW d \in Calls PROVE call'[d].reads = call[d].reads
    <3>1. CASE Miss(c) BY <1>1, <3>1 DEF Miss, CallRecord
    <3>2. CASE ValueArrives(c)
      <4>1. PICK v \in Values :
              call' = [call EXCEPT ![c].value = v,
                                   ![c].pc = IF NeedsProof(call[c].item, v)
                                             THEN "prove" ELSE "store"]
        BY <3>2 DEF ValueArrives
      <4>2. QED BY <1>1, <4>1 DEF CallRecord
    <3>3. CASE ProofArrives(c) BY <1>1, <3>3 DEF ProofArrives, CallRecord
    <3>4. CASE Write(c) BY <1>1, <3>4 DEF Write, CallRecord
    <3>5. QED BY <1>9, <3>1, <3>2, <3>3, <3>4
  <2>3. QED BY <1>3, <2>1, <2>2
<1>10. ASSUME NEW c \in Calls, Fails(c) \/ Finish(c) PROVE UsedStep
  <2>1. UNCHANGED cache /\ call' = [call EXCEPT ![c] = Idle] BY <1>10 DEF Fails, Finish
  <2>2. Idle.reads = {} BY DEF Idle
  <2>3. QED BY <1>4, <2>1, <2>2
<1>11. CASE UNCHANGED vars BY <1>3, <1>11 DEF vars
<1>12. QED BY <1>6, <1>7, <1>8, <1>9, <1>10, <1>11 DEF Next, CallNext

\* Any number of calls, any capacity: what was used leaves after what was not.
THEOREM LeastUsedFirst == Spec => LeastUsedLeaves
<1>1. Init => CachesDistinct BY DistinctInit
<1>2. Inv /\ CachesDistinct /\ [Next]_vars =>
        [/\ \A k \in CachedKinds : RecencyKept(cache[k], cache'[k], Size[k])
         /\ \A c \in Calls : \A r \in call'[c].reads \ call[c].reads :
              Kind(r.item) \in CachedKinds =>
                Newest(cache'[Kind(r.item)], CacheEntry(call[c].block, r.item, r.value))]_vars
  BY StepUses DEF UsedStep
<1>3. QED BY <1>1, <1>2, InvInit, InvStep, DistinctStep, PTL DEF Spec, LeastUsedLeaves

-----------------------------------------------------------------------------
(* The refinement. *)

\* One call changes, and its task with it.
LEMMA TaskStep ==
  ASSUME call \in [Calls -> CallRecord], NEW c \in Calls, NEW r,
         call' = [call EXCEPT ![c] = r]
  PROVE  Tasks' = [Tasks EXCEPT ![c] = Task(r)]
<1>1. \A d \in Calls : call'[d] = IF d = c THEN r ELSE call[d]
  OBVIOUS
<1>2. QED BY <1>1 DEF Tasks

\* A value that fits is one that can be shown of the block.
LEMMA FitIsViewed ==
  ASSUME NEW b \in Blocks, NEW i \in Items, NEW v \in Values, Fit(honest, b, i, v)
  PROVE  v \in Promise!Views(b, i)
<1>1. CASE honest
  <2>1. v = Truth[b][i] BY <1>1 DEF Fit
  <2>2. QED BY <1>1, <2>1 DEF Promise!Views
<1>2. CASE ~honest
  BY <1>2 DEF Fit, Proven, NeedsProof, Verifies, Kind, Promise!Views
<1>3. QED BY <1>1, <1>2, Zenon

\* A value that is handed to the contract is a read of the abstract call.
LEMMA ReturnsIsRead ==
  ASSUME CallInv, NEW c \in Calls, call[c].pc # "idle", call[c].left > 0, honest' = honest,
         NEW i \in Items, NEW v \in Values, Fit(honest, call[c].block, i, v), Returns(c, i, v)
  PROVE  Promise!SpecNext
<1> DEFINE r == [call[c] EXCEPT !.pc = "run", !.left = @ - 1,
                                !.reads = @ \cup {[item |-> i, value |-> v]}]
<1>1. call \in [Calls -> CallRecord] /\ call[c] \in CallRecord BY DEF CallInv
<1>2. call' = [call EXCEPT ![c] = r] BY <1>1 DEF Returns
<1>3. Tasks' = [Tasks EXCEPT ![c] = Task(r)] BY <1>1, <1>2, TaskStep
<1>4. /\ Tasks[c].pc = "run" /\ Tasks[c].left = call[c].left /\ Tasks[c].block = call[c].block
      /\ Tasks[c] = Task(call[c])
  BY DEF Tasks, Task
<1>5. Task(r) = [pc |-> "run", block |-> call[c].block, left |-> call[c].left - 1,
                 reads |-> call[c].reads \cup {[item |-> i, value |-> v]}]
  <2>1. /\ r.pc = "run" /\ r.block = call[c].block /\ r.left = call[c].left - 1
        /\ r.reads = call[c].reads \cup {[item |-> i, value |-> v]}
    BY <1>1 DEF CallRecord
  <2> HIDE DEF r
  <2>2. QED BY <2>1 DEF Task
<1> HIDE DEF r
<1>6. Tasks' = [Tasks EXCEPT ![c] =
                  [pc |-> "run", block |-> Tasks[c].block, left |-> Tasks[c].left - 1,
                   reads |-> Tasks[c].reads \cup {[item |-> i, value |-> v]}]]
  <2>1. Tasks[c].reads = call[c].reads BY <1>4 DEF Task
  <2>2. QED BY <1>3, <1>4, <1>5, <2>1
<1>7. v \in Promise!Views(call[c].block, i) BY <1>1, FitIsViewed DEF CallRecord
<1>8. Promise!Read(c) BY <1>4, <1>6, <1>7 DEF Promise!Read, Promise!Accesses
<1>9. QED BY <1>8 DEF Promise!SpecNext

\* A step within a read or a fetch is invisible.
LEMMA HiddenStep ==
  ASSUME CallInv, honest' = honest, NEW c \in Calls, NEW r, call' = [call EXCEPT ![c] = r],
         Task(r) = Task(call[c])
  PROVE  UNCHANGED Promise!specVars
<1>1. Tasks' = [Tasks EXCEPT ![c] = Task(call[c])] BY TaskStep DEF CallInv
<1>2. Tasks' = Tasks BY <1>1 DEF Tasks
<1>3. QED BY <1>2 DEF Promise!specVars

\* One case per action.
LEMMA RefinesStep == Inv /\ [Next]_vars => [Promise!SpecNext]_Promise!specVars
<1> SUFFICES ASSUME Inv, [Next]_vars PROVE [Promise!SpecNext]_Promise!specVars OBVIOUS
<1>0. CacheInv /\ CallInv BY DEF Inv
<1>1. ASSUME NEW c \in Calls, CallNext(c) PROVE [Promise!SpecNext]_Promise!specVars
  <2>1. honest' = honest
    BY <1>1 DEF CallNext, Start, Hit, Miss, ValueArrives, ProofArrives, Store, Write, Fails,
                Finish
  <2>2. call \in [Calls -> CallRecord] /\ call[c] \in CallRecord /\ CallFit(honest, call[c])
    BY <1>0 DEF CallInv
  <2>3. Tasks[c] = Task(call[c]) BY DEF Tasks
  <2>4. CASE Start(c)
    <3>1. PICK b \in Blocks :
            call' = [call EXCEPT ![c] =
                       [Idle EXCEPT !.block = b, !.pc = "run", !.left = MaxAccesses]]
      BY <2>4 DEF Start
    <3> DEFINE r == [Idle EXCEPT !.block = b, !.pc = "run", !.left = MaxAccesses]
    <3>2. Task(r) = [pc |-> "run", block |-> b, left |-> MaxAccesses, reads |-> {}]
      BY DEF Idle, Task
    <3> HIDE DEF r
    <3>3. Tasks' = [Tasks EXCEPT ![c] = Task(r)] BY <2>2, <3>1, TaskStep DEF r
    <3>4. Tasks[c].pc = "idle" BY <2>3, <2>4 DEF Start, Task
    <3>5. Promise!Begin(c) BY <3>2, <3>3, <3>4 DEF Promise!Begin
    <3>6. QED BY <2>1, <3>5 DEF Promise!SpecNext
  <2>5. CASE Hit(c)
    <3>1. PICK i \in Items :
            /\ Kind(i) \in CachedKinds
            /\ \E n \in Places(cache[Kind(i)], call[c].block, i) :
                 Returns(c, i, cache[Kind(i)][n].value)
      BY <2>5 DEF Hit
    <3> DEFINE k == Kind(i)
               s == cache[k]
    <3>2. PICK n \in Places(s, call[c].block, i) : Returns(c, i, s[n].value)
      BY <3>1
    <3>3. n \in 1..Len(s) /\ s[n].block = call[c].block /\ s[n].item = i
      BY DEF Places, SameKey
    <3>4. s \in Seq(Entry) BY <1>0, <3>1 DEF CacheInv
    <3>5. s[n] \in Entry BY <3>3, <3>4, ElementOfSeq
    <3>6. EntryFit(honest, k, s[n]) BY <1>0, <3>1, <3>3 DEF CacheInv
    <3>7. Fit(honest, call[c].block, i, s[n].value) BY <3>3, <3>6 DEF EntryFit
    <3>8. s[n].value \in Values BY <3>5 DEF Entry
    <3>9. call[c].pc # "idle" /\ call[c].left > 0 BY <2>5 DEF Hit, Accesses
    <3> HIDE DEF s, k
    <3>10. QED BY <1>0, <2>1, <3>2, <3>7, <3>8, <3>9, ReturnsIsRead
  <2>6. CASE Miss(c)
    <3>1. PICK i \in Items : call' = [call EXCEPT ![c].pc = "fetch", ![c].item = i]
      BY <2>6 DEF Miss
    <3> DEFINE r == [call[c] EXCEPT !.pc = "fetch", !.item = i]
    <3>2. call' = [call EXCEPT ![c] = r] BY <2>2, <3>1
    <3>3. call[c].pc = "run" BY <2>6 DEF Miss, Accesses
    <3>4. Task(r) = Task(call[c]) BY <2>2, <3>3 DEF Task, CallRecord
    <3> HIDE DEF r
    <3>5. QED BY <1>0, <2>1, <3>2, <3>4, HiddenStep
  <2>7. CASE ValueArrives(c)
    <3>1. PICK v \in Values :
            call' = [call EXCEPT ![c].value = v,
                                 ![c].pc = IF NeedsProof(call[c].item, v) THEN "prove" ELSE "store"]
      BY <2>7 DEF ValueArrives
    <3> DEFINE q == IF NeedsProof(call[c].item, v) THEN "prove" ELSE "store"
               r == [call[c] EXCEPT !.value = v, !.pc = q]
    <3>2. call' = [call EXCEPT ![c] = r] BY <2>2, <3>1
    <3>3. q # "idle" /\ call[c].pc = "fetch" BY <2>7 DEF ValueArrives
    <3> HIDE DEF q
    <3>4. Task(r) = Task(call[c]) BY <2>2, <3>3 DEF Task, CallRecord
    <3> HIDE DEF r
    <3>5. QED BY <1>0, <2>1, <3>2, <3>4, HiddenStep
  <2>8. CASE ProofArrives(c)
    <3> DEFINE r == [call[c] EXCEPT !.pc = "store"]
    <3>1. call' = [call EXCEPT ![c] = r] BY <2>2, <2>8 DEF ProofArrives
    <3>2. call[c].pc = "prove" BY <2>8 DEF ProofArrives
    <3>3. Task(r) = Task(call[c]) BY <2>2, <3>2 DEF Task, CallRecord
    <3> HIDE DEF r
    <3>4. QED BY <1>0, <2>1, <3>1, <3>3, HiddenStep
  <2>9. CASE Store(c)
    <3> DEFINE i == call[c].item
               v == call[c].value
    <3>1. i \in Items /\ v \in Values BY <2>2 DEF CallRecord
    <3>2. call[c].pc = "store" BY <2>9 DEF Store
    <3>3. call[c].left > 0 /\ Fit(honest, call[c].block, i, v) BY <2>2, <3>2 DEF CallFit, Fit
    <3>4. Returns(c, i, v) BY <2>9 DEF Store, CacheEntry
    <3>5. QED BY <1>0, <2>1, <3>1, <3>2, <3>3, <3>4, ReturnsIsRead
  <2>10. CASE Write(c)
    <3> DEFINE r == [call[c] EXCEPT !.left = @ - 1]
    <3>1. call' = [call EXCEPT ![c] = r] BY <2>2, <2>10 DEF Write
    <3>2. call[c].pc = "run" /\ call[c].left > 0 BY <2>10 DEF Write, Accesses
    <3>3. Task(r) = [Task(call[c]) EXCEPT !.left = @ - 1] BY <2>2 DEF Task, CallRecord
    <3> HIDE DEF r
    <3>4. Tasks' = [Tasks EXCEPT ![c].left = @ - 1]
      BY <2>2, <2>3, <3>1, <3>3, TaskStep DEF Tasks, Task
    <3>5. Tasks[c].pc = "run" /\ Tasks[c].left > 0 BY <2>3, <3>2 DEF Task
    <3>6. Promise!Write(c) BY <3>4, <3>5 DEF Promise!Write, Promise!Accesses
    <3>7. QED BY <2>1, <3>6 DEF Promise!SpecNext
  <2>11. CASE Fails(c) \/ Finish(c)
    <3>1. call' = [call EXCEPT ![c] = Idle] /\ call[c].pc # "idle"
      BY <2>11 DEF Fails, Finish
    <3>2. Tasks' = [Tasks EXCEPT ![c] = Task(Idle)] BY <2>2, <3>1, TaskStep
    <3>3. PICK b \in Blocks : Task(Idle) = [pc |-> "idle", block |-> b, left |-> 0, reads |-> {}]
      BY ReaderAssumption DEF Task, Idle
    <3>4. Tasks[c].pc = "run" BY <2>3, <3>1 DEF Task
    <3>5. Promise!End(c) BY <3>2, <3>3, <3>4 DEF Promise!End
    <3>6. QED BY <2>1, <3>5 DEF Promise!SpecNext
  <2>12. QED
    BY <1>1, <2>4, <2>5, <2>6, <2>7, <2>8, <2>9, <2>10, <2>11 DEF CallNext
<1>2. CASE UNCHANGED vars BY <1>2 DEF vars, Tasks, Promise!specVars
<1>3. QED BY <1>1, <1>2 DEF Next

\* Each call reads as if it were alone with what can be proved of its block: caches
\* that are shared, proofs that come late and dropped writes implement that
\* (exe/cache.rs:134-202, exe/mod.rs:168-331).
THEOREM Isolation == Spec => SnapshotReads
<1>1. Init => Promise!SpecInit
  <2> SUFFICES ASSUME Init PROVE Promise!SpecInit OBVIOUS
  <2>1. Task(Idle) \in [pc : {"idle"}, block : Blocks, left : {0}, reads : {{}}]
    <3>1. (CHOOSE b \in Blocks : TRUE) \in Blocks BY ReaderAssumption
    <3>2. QED BY <3>1 DEF Task, Idle
  <2>2. \A c \in Calls : Tasks[c] = Task(Idle) BY DEF Init, Tasks
  <2>3. Tasks \in [Calls -> [pc : {"idle"}, block : Blocks, left : {0}, reads : {{}}]]
    BY <2>1, <2>2 DEF Tasks
  <2>4. QED BY <2>3 DEF Init, Promise!SpecInit
<1>2. Spec => []Inv BY InvInit, InvStep, PTL DEF Spec
<1>3. QED BY <1>1, <1>2, RefinesStep, PTL DEF Spec, SnapshotReads, Promise!SnapshotSpec
=============================================================================
