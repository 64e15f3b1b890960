---------------------------- MODULE ReviewBodyProofs ---------------------------
(***************************************************************************)
(* Proofs about pack_chunks, parse_review_output and _render_review_body.  *)
(*                                                                         *)
(* Packing: for every list of files and every setting of the three limits, *)
(* the chunks respect the limits, no file is lost or reviewed twice, a     *)
(* file is skipped only for want of room, no two chunks would fit into     *)
(* one, and the running totals are true.  The inductive invariant PackInv  *)
(* is the conjunction of these with their types and one more fact, that a  *)
(* file placed means a chunk open; the totals are inductive relative to    *)
(* it.  Each conjunct survives because chunks only grow: what had no room  *)
(* in them has none later, and two chunks that exceed one exceed it ever   *)
(* after.                                                                  *)
(*                                                                         *)
(* The body: prepare packs as Chunking says (BodyRefinesPacking), and      *)
(* BodyInv says what it has made of the chunks.  From the two follow, for  *)
(* every reply the model may give, that no file with a patch is lost on    *)
(* the way to the text that is posted, and which lines of the reply are.   *)
(***************************************************************************)
EXTENDS ReviewBody, FiniteSetTheorems, SequenceTheorems, WellFoundedInduction,
        TLAPS

-----------------------------------------------------------------------------
(* Sets of numbers, and sums along a list.                                 *)

\* The least-number principle, from the well-foundedness of <.  It stands in
\* for induction wherever something was computed step by step.
LEMMA LeastOf ==
  ASSUME NEW S, S \subseteq Nat, S # {}
  PROVE  \E m \in S : \A k \in S : m <= k
<1> DEFINE R == OpToRel(<, Nat)
<1>1. IsWellFoundedOn(R, Nat)
  BY NatLessThanWellFounded
<1>2. \A i, j \in Nat : i < j => <<i, j>> \in R
  BY DEF OpToRel
<1> HIDE DEF R
<1>3. PICK m \in S : \A k \in S : ~(<<k, m>> \in R)
  BY <1>1, WFMin
<1>4. ASSUME NEW k \in S
      PROVE  m <= k
  <2>1. m \in Nat /\ k \in Nat /\ ~(<<k, m>> \in R)
    BY <1>3
  <2>2. ~(k < m)
    BY <1>2, <2>1
  <2> QED
    BY <2>1, <2>2
<1> QED
  BY <1>4

\* Min finds the least number of a set.
LEMMA MinFacts ==
  ASSUME NEW S, S \subseteq Nat, S # {}
  PROVE  Min(S) \in S /\ \A k \in S : Min(S) <= k
BY LeastOf DEF Min

\* Max finds the greatest, if there is one: it is as far below a bound as
\* the least distance from it.
LEMMA MaxFacts ==
  ASSUME NEW S, S \subseteq Nat, S # {}, NEW b \in Nat, \A k \in S : k <= b
  PROVE  Max(S) \in S /\ \A k \in S : k <= Max(S)
<1> DEFINE D == {d \in Nat : b - d \in S}
<1>1. PICK s \in S : TRUE
  OBVIOUS
<1>2. s \in Nat /\ s <= b
  BY <1>1
<1>3. b - s \in Nat /\ b - (b - s) = s
  BY <1>2
<1>4. b - s \in D
  BY <1>1, <1>3
<1>5. PICK d \in D : \A e \in D : d <= e
  BY <1>4, LeastOf
<1>6. b - d \in S
  BY <1>5
<1>7. ASSUME NEW k \in S
      PROVE  k <= b - d
  <2>1. k \in Nat /\ k <= b /\ d \in Nat
    BY <1>5
  <2>2. b - k \in Nat /\ b - (b - k) = k
    BY <2>1
  <2>3. b - k \in D
    BY <2>2
  <2>4. d <= b - k
    BY <1>5, <2>3
  <2> QED
    BY <2>1, <2>4
<1>8. \E m \in S : \A k \in S : k <= m
  BY <1>6, <1>7
<1> QED
  BY <1>8 DEF Max

\* What holds at 0 and is passed on from each number below n to the next
\* holds up to n.
LEMMA UpTo ==
  ASSUME NEW n \in Nat, NEW T, 0 \in T,
         \A k \in 1 .. n : k - 1 \in T => k \in T
  PROVE  \A k \in 0 .. n : k \in T
<1> DEFINE Missing == {k \in 0 .. n : k \notin T}
<1> SUFFICES ASSUME Missing # {} PROVE FALSE
  OBVIOUS
<1>1. Missing \subseteq Nat
  OBVIOUS
<1> HIDE DEF Missing
<1>2. PICK m \in Missing : \A k \in Missing : m <= k
  BY <1>1, LeastOf
<1>3. m \in 1 .. n /\ m \notin T
  BY <1>2 DEF Missing
<1>4. m - 1 \in 0 .. n /\ ~(m <= m - 1)
  BY <1>3
<1>5. m - 1 \in T
  BY <1>2, <1>4 DEF Missing
<1> QED
  BY <1>3, <1>5

\* AddedUp is what its recursion says: such a function exists, since one up
\* to k - 1 extends to one up to k.
LEMMA AddedUpDef ==
  ASSUME NEW ns \in Seq(Nat), NEW S
  PROVE  /\ AddedUp(ns, S) \in [0 .. Len(ns) -> Nat]
         /\ AddedUp(ns, S)[0] = 0
         /\ \A k \in 1 .. Len(ns) :
              AddedUp(ns, S)[k] =
                AddedUp(ns, S)[k - 1] + (IF k \in S THEN ns[k] ELSE 0)
<1> DEFINE n == Len(ns)
           a == [k \in 1 .. n |-> IF k \in S THEN ns[k] ELSE 0]
           Sums(m, g) == /\ g \in [0 .. m -> Nat] /\ g[0] = 0
                         /\ \A k \in 1 .. m : g[k] = g[k - 1] + a[k]
           T == {m \in 0 .. n : \E g : Sums(m, g)}
<1>1. n \in Nat /\ a \in [1 .. n -> Nat]
  <2>1. n \in Nat
    OBVIOUS
  <2>2. ASSUME NEW k \in 1 .. n PROVE (IF k \in S THEN ns[k] ELSE 0) \in Nat
    OBVIOUS
  <2> QED
    BY <2>1, <2>2
<1>a. \A k \in 1 .. n : a[k] = IF k \in S THEN ns[k] ELSE 0
  OBVIOUS
<1> HIDE DEF n, a
<1>2. 0 \in T
  <2>1. Sums(0, [k \in 0 .. 0 |-> 0])
    OBVIOUS
  <2>2. 0 \in 0 .. n
    BY <1>1
  <2>3. \E g : Sums(0, g)
    BY <2>1
  <2> QED
    BY <2>2, <2>3
<1>3. ASSUME NEW k \in 1 .. n, k - 1 \in T
      PROVE  k \in T
  <2>1. k \in Nat /\ k - 1 \in Nat /\ a[k] \in Nat /\ k \in 0 .. n
    BY <1>1
  <2>2. PICK g : Sums(k - 1, g)
    BY <1>3
  <2> DEFINE h == [i \in 0 .. k |-> IF i = k THEN g[k - 1] + a[k] ELSE g[i]]
  <2>3. h \in [0 .. k -> Nat] /\ h[0] = 0
    BY <2>1, <2>2
  <2>4. ASSUME NEW i \in 1 .. k PROVE h[i] = h[i - 1] + a[i]
    <3>1. CASE i = k
      <4>1. h[k] = g[k - 1] + a[k] /\ h[k - 1] = g[k - 1]
        BY <2>1
      <4> QED
        BY <3>1, <4>1
    <3>2. CASE i # k
      <4>1. i \in 1 .. (k - 1) /\ i - 1 \in 0 .. k /\ i - 1 # k /\ i \in 0 .. k
        BY <2>1, <3>2
      <4>2. h[i] = g[i] /\ h[i - 1] = g[i - 1]
        BY <3>2, <4>1
      <4> QED
        BY <2>2, <4>1, <4>2
    <3> QED
      BY <3>1, <3>2
  <2>5. Sums(k, h)
    BY <2>3, <2>4
  <2> QED
    BY <2>1, <2>5
<1>4. n \in T
  <2> HIDE DEF T
  <2>1. \A k \in 0 .. n : k \in T
    BY <1>1, <1>2, <1>3, UpTo
  <2> QED
    BY <1>1, <2>1
<1>5. PICK g : Sums(n, g)
  BY <1>4
<1>6. g = [k \in 0 .. n |->
             IF k = 0 THEN 0
             ELSE g[k - 1] + (IF k \in S THEN ns[k] ELSE 0)]
  <2>1. ASSUME NEW k \in 0 .. n
        PROVE  g[k] = IF k = 0 THEN 0
                      ELSE g[k - 1] + (IF k \in S THEN ns[k] ELSE 0)
    <3>1. CASE k = 0
      BY <1>5, <3>1
    <3>2. CASE k # 0
      <4>1. k \in 1 .. n
        BY <1>1, <3>2
      <4> QED
        BY <1>5, <1>a, <3>2, <4>1
    <3> QED
      BY <3>1, <3>2
  <2> QED
    BY <1>5, <2>1
<1> DEFINE f == AddedUp(ns, S)
<1>7. f = [k \in 0 .. n |->
             IF k = 0 THEN 0
             ELSE f[k - 1] + (IF k \in S THEN ns[k] ELSE 0)]
  BY <1>6 DEF AddedUp, n
<1> HIDE DEF f
<1>8. \A k \in 1 .. n : f[k] = f[k - 1] + a[k]
  <2> SUFFICES ASSUME NEW k \in 1 .. n PROVE f[k] = f[k - 1] + a[k]
    OBVIOUS
  <2>1. k \in 0 .. n /\ k # 0
    BY <1>1
  <2> QED
    BY <1>7, <1>a, <2>1
<1>9. f[0] = 0
  BY <1>1, <1>7
<1>10. f \in [0 .. n -> Nat]
  <2> DEFINE U == {k \in 0 .. n : f[k] \in Nat}
  <2>1. 0 \in U
    BY <1>1, <1>9
  <2>2. ASSUME NEW k \in 1 .. n, k - 1 \in U PROVE k \in U
    <3>1. k \in 0 .. n /\ a[k] \in Nat /\ f[k - 1] \in Nat
      BY <1>1, <2>2
    <3> QED
      BY <1>8, <3>1
  <2>3. \A k \in 0 .. n : k \in U
    <3> HIDE DEF U
    <3> QED
      BY <1>1, <2>1, <2>2, UpTo
  <2> QED
    BY <1>7, <2>3
<1> QED
  BY <1>8, <1>9, <1>10, <1>a DEF f, n

\* Nothing adds up to nothing.
LEMMA TotalOfNone ==
  ASSUME NEW ns \in Seq(Nat)
  PROVE  AddedUp(ns, {})[Len(ns)] = 0
<1> DEFINE n == Len(ns)
           f == AddedUp(ns, {})
           T == {k \in 0 .. n : f[k] = 0}
<1>1. n \in Nat /\ f[0] = 0 /\ \A k \in 1 .. n : f[k] = f[k - 1] + 0
  BY AddedUpDef
<1> HIDE DEF f, n
<1>2. 0 \in T
  BY <1>1
<1>3. ASSUME NEW k \in 1 .. n, k - 1 \in T PROVE k \in T
  BY <1>1, <1>3
<1>4. \A k \in 0 .. n : k \in T
  <2> HIDE DEF T
  <2> QED
    BY <1>1, <1>2, <1>3, UpTo
<1> QED
  BY <1>1, <1>4 DEF f, n

\* One more position adds its number.
LEMMA TotalOfOneMore ==
  ASSUME NEW ns \in Seq(Nat), NEW S, NEW p \in DOMAIN ns, p \notin S
  PROVE  AddedUp(ns, S \cup {p})[Len(ns)] = AddedUp(ns, S)[Len(ns)] + ns[p]
<1> DEFINE n == Len(ns)
           f == AddedUp(ns, S)
           g == AddedUp(ns, S \cup {p})
           T == {k \in 0 .. n : g[k] = f[k] + (IF p <= k THEN ns[p] ELSE 0)}
<1>1. /\ n \in Nat /\ p \in 1 .. n /\ ns[p] \in Nat
      /\ \A k \in 1 .. n : ns[k] \in Nat
  OBVIOUS
<1>2. /\ f \in [0 .. n -> Nat] /\ f[0] = 0
      /\ \A k \in 1 .. n : f[k] = f[k - 1] + (IF k \in S THEN ns[k] ELSE 0)
  BY AddedUpDef
<1>3. /\ g \in [0 .. n -> Nat] /\ g[0] = 0
      /\ \A k \in 1 .. n :
           g[k] = g[k - 1] + (IF k \in S \cup {p} THEN ns[k] ELSE 0)
  BY AddedUpDef
<1> HIDE DEF f, g, n
<1>4. 0 \in T
  BY <1>1, <1>2, <1>3
<1>5. ASSUME NEW k \in 1 .. n, k - 1 \in T PROVE k \in T
  <2>1. /\ k \in 0 .. n /\ k - 1 \in 0 .. n /\ ns[k] \in Nat
        /\ f[k - 1] \in Nat /\ g[k - 1] \in Nat
        /\ g[k - 1] = f[k - 1] + (IF p <= k - 1 THEN ns[p] ELSE 0)
    BY <1>1, <1>2, <1>3, <1>5
  <2>2. CASE k = p
    <3>1. g[k] = g[k - 1] + ns[p] /\ f[k] = f[k - 1] + 0
      BY <1>2, <1>3, <2>2
    <3>2. ~(p <= k - 1) /\ p <= k
      BY <1>1, <2>2
    <3> QED
      BY <1>1, <2>1, <3>1, <3>2
  <2>3. CASE k # p
    <3> DEFINE d == IF k \in S THEN ns[k] ELSE 0
               e == IF p <= k THEN ns[p] ELSE 0
    <3>1. d \in Nat /\ e \in Nat
      BY <1>1, <2>1
    <3>2. g[k] = g[k - 1] + d /\ f[k] = f[k - 1] + d
      BY <1>2, <1>3, <2>3
    <3>3. (p <= k - 1) <=> (p <= k)
      BY <1>1, <2>3
    <3>4. g[k - 1] = f[k - 1] + e
      BY <2>1, <3>3
    <3> HIDE DEF d, e
    <3>5. g[k] = f[k] + e
      BY <2>1, <3>1, <3>2, <3>4
    <3> QED
      BY <2>1, <3>5 DEF e
  <2> QED
    BY <2>2, <2>3
<1>6. \A k \in 0 .. n : k \in T
  <2> HIDE DEF T
  <2> QED
    BY <1>1, <1>4, <1>5, UpTo
<1>7. n \in 0 .. n /\ p <= n
  BY <1>1
<1>8. g[n] = f[n] + ns[p]
  BY <1>6, <1>7
<1> QED
  BY <1>8 DEF f, g, n

-----------------------------------------------------------------------------
(* Packing.                                                                *)

\* What a turn of the loop does to the chunks: the effects of the three
\* branches, spelled out index by index.
LEMMA SkipEffect ==
  ASSUME PackTypeOK, NEW f \in waiting, SkipFile(f)
  PROVE  /\ skipped' = skipped \cup {f}
         /\ chunks_files' = chunks_files /\ chunks_sizes' = chunks_sizes
         /\ placed_count' = placed_count
BY DEF SkipFile

\* OpenChunk adds one chunk at the end and leaves the others alone.
LEMMA OpenEffect ==
  ASSUME PackTypeOK, NEW f \in waiting, OpenChunk(f)
  PROVE  /\ chunks_files' \in Seq(SUBSET Files) /\ chunks_sizes' \in Seq(Nat)
         /\ Len(chunks_files') = Len(chunks_files) + 1
         /\ Len(chunks_sizes') = Len(chunks_files) + 1
         /\ \A i \in 1 .. Len(chunks_files) :
              /\ chunks_files'[i] = chunks_files[i]
              /\ chunks_sizes'[i] = chunks_sizes[i]
         /\ chunks_files'[Len(chunks_files) + 1] = {f}
         /\ chunks_sizes'[Len(chunks_files) + 1] = size[f]
         /\ placed_count' = placed_count + 1
         /\ skipped' = skipped
<1>1. f \in Files /\ size[f] \in Nat
  BY DEF PackTypeOK, Files
<1>2. {f} \in SUBSET Files
  BY <1>1
<1> QED
  BY <1>1, <1>2 DEF OpenChunk, PackTypeOK

\* AddToChunk puts the file into one chunk that has room for it.
LEMMA AddEffect ==
  ASSUME PackTypeOK, NEW f \in waiting, AddToChunk(f)
  PROVE  \E k \in Chunks :
           /\ chunks_sizes[k] + size[f] <= MaxChunkChars
           /\ chunks_files' \in Seq(SUBSET Files) /\ chunks_sizes' \in Seq(Nat)
           /\ Len(chunks_files') = Len(chunks_files)
           /\ Len(chunks_sizes') = Len(chunks_files)
           /\ chunks_files'[k] = chunks_files[k] \cup {f}
           /\ chunks_sizes'[k] = chunks_sizes[k] + size[f]
           /\ \A i \in Chunks \ {k} :
                /\ chunks_files'[i] = chunks_files[i]
                /\ chunks_sizes'[i] = chunks_sizes[i]
           /\ placed_count' = placed_count + 1
           /\ skipped' = skipped
<1>1. f \in Files /\ size[f] \in Nat
  BY DEF PackTypeOK, Files
<1>2. PICK k \in Room(f) :
        /\ chunks_files' = [chunks_files EXCEPT ![k] = @ \cup {f}]
        /\ chunks_sizes' = [chunks_sizes EXCEPT ![k] = @ + size[f]]
  BY DEF AddToChunk
<1>3. k \in Chunks /\ chunks_sizes[k] + size[f] <= MaxChunkChars
  BY <1>2 DEF Room, Chunks
<1>4. k \in DOMAIN chunks_files /\ k \in DOMAIN chunks_sizes
  BY <1>3 DEF PackTypeOK, Chunks
<1>5. chunks_files[k] \cup {f} \in SUBSET Files
  BY <1>1, <1>4 DEF PackTypeOK
<1>6. chunks_sizes[k] + size[f] \in Nat
  BY <1>1, <1>4 DEF PackTypeOK
<1>7. /\ chunks_files' \in Seq(SUBSET Files)
      /\ Len(chunks_files') = Len(chunks_files)
      /\ chunks_files'[k] = chunks_files[k] \cup {f}
      /\ \A i \in Chunks \ {k} : chunks_files'[i] = chunks_files[i]
  BY <1>2, <1>4, <1>5 DEF PackTypeOK, Chunks
<1>8. /\ chunks_sizes' \in Seq(Nat)
      /\ Len(chunks_sizes') = Len(chunks_files)
      /\ chunks_sizes'[k] = chunks_sizes[k] + size[f]
      /\ \A i \in Chunks \ {k} : chunks_sizes'[i] = chunks_sizes[i]
  BY <1>2, <1>4, <1>6 DEF PackTypeOK, Chunks
<1> QED
  BY <1>3, <1>7, <1>8 DEF AddToChunk

-----------------------------------------------------------------------------
\* The loop starts within the invariant.
LEMMA PackInitInv == PackInit => PackInv
BY FileListsAssumption, PackLimitsAssumption
DEF PackInit, PackInv, PackTypeOK, WithinLimits, EveryFileAccountedFor,
    SkippedForAReason, NoTwoChunksFitInOne, Files, Chunks, PlacedIn

\* A turn that leaves the file out.
LEMMA SkipInv ==
  ASSUME PackInv, NEW f \in waiting, waiting' = waiting \ {f}, size' = size,
         SkipFile(f)
  PROVE  PackInv'
<1> USE DEF PackInv
<1>1. /\ skipped' = skipped \cup {f}
      /\ chunks_files' = chunks_files /\ chunks_sizes' = chunks_sizes
      /\ placed_count' = placed_count
  BY SkipEffect
<1>2. PackTypeOK'
  BY <1>1 DEF PackTypeOK, Files
<1>3. EveryFileAccountedFor'
  BY <1>1 DEF EveryFileAccountedFor, PlacedIn, Chunks, Files
<1>4. SkippedForAReason'
  <2>1. \/ size[f] > MaxChunkChars
        \/ placed_count = MaxFiles
        \/ /\ Len(chunks_files) = MaxChunks
           /\ \A i \in Chunks : chunks_sizes[i] + size[f] > MaxChunkChars
    <3>1. CASE AtFileLimit
      BY <3>1, PackLimitsAssumption DEF AtFileLimit, WithinLimits, PackTypeOK
    <3>2. CASE TooLarge(f)
      BY <3>2 DEF TooLarge
    <3>3. CASE Room(f) = {} /\ Len(chunks_files) >= MaxChunks
      <4>1. Len(chunks_files) = MaxChunks
        BY <3>3, PackLimitsAssumption DEF WithinLimits, PackTypeOK
      <4>2. ASSUME NEW i \in Chunks
            PROVE  chunks_sizes[i] + size[f] > MaxChunkChars
        <5>1. ~(chunks_sizes[i] + size[f] <= MaxChunkChars)
          BY <3>3 DEF Room, Chunks
        <5>2. chunks_sizes[i] \in Nat /\ size[f] \in Nat /\ MaxChunkChars \in Nat
          BY PackLimitsAssumption DEF PackTypeOK, Chunks, Files
        <5> QED
          BY <5>1, <5>2
      <4> QED
        BY <4>1, <4>2
    <3> QED
      BY <3>1, <3>2, <3>3 DEF SkipFile
  <2> QED
    BY <1>1, <2>1 DEF SkippedForAReason, Chunks
<1> QED
  BY <1>1, <1>2, <1>3, <1>4 DEF WithinLimits, NoTwoChunksFitInOne, Chunks

\* A turn that opens a chunk.
LEMMA OpenInv ==
  ASSUME PackInv, NEW f \in waiting, waiting' = waiting \ {f}, size' = size,
         OpenChunk(f)
  PROVE  PackInv'
<1> DEFINE n == Len(chunks_files)
<1>1. /\ PackTypeOK /\ WithinLimits /\ EveryFileAccountedFor
      /\ SkippedForAReason /\ NoTwoChunksFitInOne
  BY DEF PackInv
<1>2. /\ chunks_files' \in Seq(SUBSET Files) /\ chunks_sizes' \in Seq(Nat)
      /\ Len(chunks_files') = n + 1 /\ Len(chunks_sizes') = n + 1
      /\ \A i \in 1 .. n : /\ chunks_files'[i] = chunks_files[i]
                           /\ chunks_sizes'[i] = chunks_sizes[i]
      /\ chunks_files'[n + 1] = {f} /\ chunks_sizes'[n + 1] = size[f]
      /\ placed_count' = placed_count + 1 /\ skipped' = skipped
  BY <1>1, OpenEffect
<1>3. /\ n \in Nat /\ Chunks = 1 .. n /\ Chunks' = 1 .. (n + 1)
      /\ f \in Files /\ size[f] \in Nat /\ placed_count \in Nat
      /\ Files' = Files /\ MaxChunkChars \in Nat
      /\ MaxFiles \in Nat /\ MaxChunks \in Nat
      /\ \A i \in Chunks : chunks_sizes[i] \in Nat
  BY <1>1, <1>2, PackLimitsAssumption DEF PackTypeOK, Chunks, Files
<1>4. /\ n < MaxChunks /\ placed_count < MaxFiles /\ size[f] <= MaxChunkChars
      /\ \A i \in Chunks : chunks_sizes[i] + size[f] > MaxChunkChars
  <2>1. n < MaxChunks /\ placed_count < MaxFiles /\ size[f] <= MaxChunkChars
    BY <1>3 DEF OpenChunk, AtFileLimit, TooLarge
  <2>2. ASSUME NEW i \in Chunks
        PROVE  chunks_sizes[i] + size[f] > MaxChunkChars
    <3>1. ~(chunks_sizes[i] + size[f] <= MaxChunkChars)
      BY DEF OpenChunk, Room, Chunks
    <3> QED
      BY <1>3, <3>1
  <2> QED
    BY <2>1, <2>2
<1>5. PackTypeOK'
  BY <1>1, <1>2, <1>3 DEF PackTypeOK
<1>6. WithinLimits'
  <2>1. n + 1 <= MaxChunks /\ placed_count + 1 <= MaxFiles
    BY <1>3, <1>4
  <2>2. ASSUME NEW i \in Chunks' PROVE chunks_sizes'[i] <= MaxChunkChars
    <3>1. CASE i \in Chunks
      BY <1>1, <1>2, <1>3, <3>1 DEF WithinLimits
    <3>2. CASE i = n + 1
      BY <1>2, <1>4, <3>2
    <3> QED
      BY <1>3, <3>1, <3>2
  <2> QED
    BY <1>2, <2>1, <2>2 DEF WithinLimits
<1>7. EveryFileAccountedFor'
  <2>1. ASSUME NEW g \in Files
        PROVE  PlacedIn(g)' = IF g = f THEN PlacedIn(g) \cup {n + 1} ELSE PlacedIn(g)
    BY <1>2, <1>3 DEF PlacedIn
  <2>2. f \notin skipped /\ PlacedIn(f) = {}
    BY <1>1, <1>3 DEF EveryFileAccountedFor
  <2>3. PlacedIn(f)' = {n + 1} /\ n + 1 \in Chunks'
    BY <1>3, <2>1, <2>2
  <2>4. \A g \in Files \ {f} : PlacedIn(g)' = PlacedIn(g)
    BY <2>1
  <2>5. \A i \in Chunks : i \in Chunks'
    BY <1>3
  <2>6. ASSUME NEW g \in Files
        PROVE  \/ g \in waiting' /\ g \notin skipped' /\ PlacedIn(g)' = {}
               \/ g \notin waiting' /\ g \in skipped' /\ PlacedIn(g)' = {}
               \/ /\ g \notin waiting' /\ g \notin skipped'
                  /\ \E i \in Chunks' : PlacedIn(g)' = {i}
    <3>1. CASE g = f
      BY <1>2, <2>2, <2>3, <3>1
    <3>2. CASE g # f
      BY <1>1, <1>2, <2>4, <2>5, <3>2 DEF EveryFileAccountedFor
    <3> QED
      BY <3>1, <3>2
  <2> QED
    BY <1>3, <2>6 DEF EveryFileAccountedFor
<1>8. SkippedForAReason'
  BY <1>1, <1>2, <1>3, <1>4 DEF SkippedForAReason
<1>9. NoTwoChunksFitInOne'
  <2>1. ASSUME NEW i \in Chunks', NEW k \in Chunks', i # k
        PROVE  chunks_sizes'[i] + chunks_sizes'[k] > MaxChunkChars
    <3>1. CASE i \in Chunks /\ k \in Chunks
      BY <1>1, <1>2, <1>3, <2>1, <3>1 DEF NoTwoChunksFitInOne
    <3>2. CASE i \in Chunks /\ k = n + 1
      BY <1>2, <1>3, <1>4, <3>2
    <3>3. CASE i = n + 1 /\ k \in Chunks
      <4>1. /\ chunks_sizes'[i] = size[f]
            /\ chunks_sizes'[k] = chunks_sizes[k] /\ chunks_sizes[k] \in Nat
            /\ chunks_sizes[k] + size[f] > MaxChunkChars
        BY <1>2, <1>3, <1>4, <3>3
      <4> QED
        BY <1>3, <4>1
    <3> QED
      BY <1>3, <2>1, <3>1, <3>2, <3>3
  <2> QED
    BY <2>1 DEF NoTwoChunksFitInOne
<1>10. chunks_files' # <<>>
  BY <1>2, <1>3
<1> QED
  BY <1>5, <1>6, <1>7, <1>8, <1>9, <1>10 DEF PackInv

\* A turn that adds to a chunk.
LEMMA AddInv ==
  ASSUME PackInv, NEW f \in waiting, waiting' = waiting \ {f}, size' = size,
         AddToChunk(f)
  PROVE  PackInv'
<1>1. /\ PackTypeOK /\ WithinLimits /\ EveryFileAccountedFor
      /\ SkippedForAReason /\ NoTwoChunksFitInOne
  BY DEF PackInv
<1>2. PICK k \in Chunks :
        /\ chunks_sizes[k] + size[f] <= MaxChunkChars
        /\ chunks_files' \in Seq(SUBSET Files) /\ chunks_sizes' \in Seq(Nat)
        /\ Len(chunks_files') = Len(chunks_files)
        /\ Len(chunks_sizes') = Len(chunks_files)
        /\ chunks_files'[k] = chunks_files[k] \cup {f}
        /\ chunks_sizes'[k] = chunks_sizes[k] + size[f]
        /\ \A i \in Chunks \ {k} : /\ chunks_files'[i] = chunks_files[i]
                                   /\ chunks_sizes'[i] = chunks_sizes[i]
        /\ placed_count' = placed_count + 1
        /\ skipped' = skipped
  BY <1>1, AddEffect
<1>3. /\ Chunks' = Chunks /\ Files' = Files
      /\ f \in Files /\ size[f] \in Nat /\ placed_count \in Nat
      /\ MaxChunkChars \in Nat /\ MaxFiles \in Nat /\ MaxChunks \in Nat
      /\ \A i \in Chunks : chunks_sizes[i] \in Nat
  BY <1>1, <1>2, PackLimitsAssumption DEF PackTypeOK, Chunks, Files
<1>4. placed_count < MaxFiles
  BY <1>3 DEF AddToChunk, AtFileLimit
\* Chunks only grow.
<1>5. \A i \in Chunks : /\ chunks_sizes'[i] \in Nat
                        /\ chunks_sizes[i] <= chunks_sizes'[i]
                        /\ chunks_sizes'[i] <= MaxChunkChars
  BY <1>1, <1>2, <1>3 DEF WithinLimits
<1>6. PackTypeOK'
  BY <1>1, <1>2, <1>3 DEF PackTypeOK
<1>7. WithinLimits'
  BY <1>1, <1>2, <1>3, <1>4, <1>5 DEF WithinLimits
<1>8. EveryFileAccountedFor'
  <2>1. f \notin skipped /\ PlacedIn(f) = {}
    BY <1>1, <1>3 DEF EveryFileAccountedFor
  <2>2. PlacedIn(f)' = {k}
    BY <1>2, <1>3, <2>1 DEF PlacedIn
  <2>3. \A g \in Files \ {f} : PlacedIn(g)' = PlacedIn(g)
    BY <1>2, <1>3 DEF PlacedIn
  <2>4. ASSUME NEW g \in Files
        PROVE  \/ g \in waiting' /\ g \notin skipped' /\ PlacedIn(g)' = {}
               \/ g \notin waiting' /\ g \in skipped' /\ PlacedIn(g)' = {}
               \/ /\ g \notin waiting' /\ g \notin skipped'
                  /\ \E i \in Chunks' : PlacedIn(g)' = {i}
    <3>1. CASE g = f
      BY <1>2, <1>3, <2>1, <2>2, <3>1
    <3>2. CASE g # f
      BY <1>1, <1>2, <1>3, <2>3, <3>2 DEF EveryFileAccountedFor
    <3> QED
      BY <3>1, <3>2
  <2> QED
    BY <1>3, <2>4 DEF EveryFileAccountedFor
<1>9. SkippedForAReason'
  <2>1. \A g \in skipped : size[g] \in Nat
    BY <1>1 DEF PackTypeOK, Files
  <2>2. ASSUME NEW g \in skipped
        PROVE  \/ size[g] > MaxChunkChars
               \/ /\ Len(chunks_files') = MaxChunks
                  /\ \A i \in Chunks : chunks_sizes'[i] + size[g] > MaxChunkChars
    <3>1. CASE size[g] > MaxChunkChars
      BY <3>1
    <3>2. CASE /\ Len(chunks_files) = MaxChunks
               /\ \A i \in Chunks : chunks_sizes[i] + size[g] > MaxChunkChars
      <4>1. ASSUME NEW i \in Chunks
            PROVE  chunks_sizes'[i] + size[g] > MaxChunkChars
        <5>1. /\ chunks_sizes[i] + size[g] > MaxChunkChars
              /\ chunks_sizes[i] <= chunks_sizes'[i]
              /\ chunks_sizes[i] \in Nat /\ chunks_sizes'[i] \in Nat
              /\ size[g] \in Nat
          BY <1>3, <1>5, <2>1, <3>2
        <5> QED
          BY <1>3, <5>1
      <4> QED
        BY <1>2, <3>2, <4>1
    <3> QED
      BY <1>1, <1>3, <1>4, <3>1, <3>2 DEF SkippedForAReason
  <2> QED
    BY <1>2, <1>3, <2>2 DEF SkippedForAReason
<1>10. NoTwoChunksFitInOne'
  BY <1>1, <1>3, <1>5 DEF NoTwoChunksFitInOne
<1>11. chunks_files' # <<>>
  BY <1>1, <1>2 DEF PackTypeOK, Chunks
<1> QED
  BY <1>6, <1>7, <1>8, <1>9, <1>10, <1>11 DEF PackInv

-----------------------------------------------------------------------------
\* PackInv holds at every turn of the loop, for every list of files.
THEOREM PackInvariant == PackSpec => []PackInv
<1>1. PackInv /\ [PackNext]_packVars => PackInv'
  <2> SUFFICES ASSUME PackInv, [PackNext]_packVars PROVE PackInv'
    OBVIOUS
  <2>1. ASSUME NEW f \in waiting, Turn(f) PROVE PackInv'
    BY <2>1, SkipInv, OpenInv, AddInv DEF Turn
  <2>2. CASE UNCHANGED packVars
    BY <2>2 DEF packVars, PackInv, PackTypeOK, WithinLimits,
       EveryFileAccountedFor, SkippedForAReason, NoTwoChunksFitInOne, Files,
       Chunks, PlacedIn
  <2> QED
    BY <2>1, <2>2 DEF PackNext, Packed
<1> QED
  BY <1>1, PackInitInv, PTL DEF PackSpec

\* pack_chunks never exceeds max_files, max_chunks or max_chunk_chars.
THEOREM LimitsRespected == PackSpec => []WithinLimits
<1>1. PackInv => WithinLimits
  BY DEF PackInv
<1> QED
  BY <1>1, PackInvariant, PTL

\* pack_chunks neither loses a file nor puts it into two chunks.
THEOREM NoFileLost == PackSpec => []EveryFileAccountedFor
<1>1. PackInv => EveryFileAccountedFor
  BY DEF PackInv
<1> QED
  BY <1>1, PackInvariant, PTL

\* pack_chunks leaves a file out only for want of room.
THEOREM SkipsAreJustified == PackSpec => []SkippedForAReason
<1>1. PackInv => SkippedForAReason
  BY DEF PackInv
<1> QED
  BY <1>1, PackInvariant, PTL

\* pack_chunks never uses two chunks where one would do.
THEOREM ChunksAreNeeded == PackSpec => []NoTwoChunksFitInOne
<1>1. PackInv => NoTwoChunksFitInOne
  BY DEF PackInv
<1> QED
  BY <1>1, PackInvariant, PTL

\* prepare's early exit for want of chunks is taken only if no file of the
\* pull request fits into a chunk.
THEOREM EmptyPackingJustified == PackSpec => []NothingPackedNothingFits
<1>1. PackInv => NothingPackedNothingFits
  <2> SUFFICES ASSUME PackInv, waiting = {}, chunks_files = <<>>,
                      NEW f \in Files
               PROVE  size[f] > MaxChunkChars
    BY DEF NothingPackedNothingFits
  <2>1. Chunks = {} /\ Len(chunks_files) = 0
    BY DEF PackInv, PackTypeOK, Chunks
  <2>2. f \in skipped
    BY <2>1 DEF PackInv, EveryFileAccountedFor
  <2>3. placed_count = 0
    BY DEF PackInv, PackTypeOK
  <2> QED
    BY <2>1, <2>2, <2>3, PackLimitsAssumption DEF PackInv, SkippedForAReason
<1> QED
  BY <1>1, PackInvariant, PTL

-----------------------------------------------------------------------------
\* The files in all chunks.
LEMMA PlacedFiles ==
  ASSUME PackTypeOK
  PROVE  LET Placed == UNION {chunks_files[i] : i \in Chunks}
         IN IsFiniteSet(Placed) /\ \A f : f \in Placed <=> PlacedIn(f) # {}
<1> DEFINE Placed == UNION {chunks_files[i] : i \in Chunks}
<1>1. Files = 1 .. Len(size) /\ Len(size) \in Nat
  BY DEF PackTypeOK, Files
<1>2. IsFiniteSet(Files)
  BY <1>1, FS_Interval
<1>3. Placed \subseteq Files
  BY DEF PackTypeOK, Chunks
<1>4. IsFiniteSet(Placed)
  BY <1>2, <1>3, FS_Subset
<1> QED
  BY <1>4 DEF PlacedIn

\* The running totals after a turn that puts file f into chunk k, be it new.
LEMMA TotalsAfterTurn ==
  ASSUME PackInv, TotalsAreTrue, NEW f \in waiting, size' = size,
         NEW k \in Chunks', Chunks \subseteq Chunks',
         Chunks' \subseteq Chunks \cup {k},
         \A i \in Chunks' \ {k} : /\ chunks_files'[i] = chunks_files[i]
                                  /\ chunks_sizes'[i] = chunks_sizes[i],
         \/ /\ k \notin Chunks
            /\ chunks_files'[k] = {f} /\ chunks_sizes'[k] = size[f]
         \/ /\ k \in Chunks
            /\ chunks_files'[k] = chunks_files[k] \cup {f}
            /\ chunks_sizes'[k] = chunks_sizes[k] + size[f],
         placed_count' = placed_count + 1
  PROVE  TotalsAreTrue'
<1> DEFINE Placed == UNION {chunks_files[i] : i \in Chunks}
           PlacedNext == UNION {chunks_files'[i] : i \in Chunks'}
<1>1. /\ PackTypeOK /\ f \in Files /\ PlacedIn(f) = {}
      /\ size \in Seq(Nat) /\ size[f] \in Nat
  BY DEF PackInv, PackTypeOK, EveryFileAccountedFor, Files
<1>2. \A S : TotalOf(S)' = TotalOf(S)
  BY DEF TotalOf
<1>3. \A S : f \notin S => TotalOf(S \cup {f}) = TotalOf(S) + size[f]
  BY <1>1, TotalOfOneMore DEF TotalOf, Files
<1>4. TotalOf({}) = 0
  BY <1>1, TotalOfNone DEF TotalOf
<1>5. ASSUME NEW i \in Chunks'
      PROVE  chunks_sizes'[i] = TotalOf(chunks_files'[i])
  <2>1. CASE i # k
    BY <2>1 DEF TotalsAreTrue
  <2>2. CASE i = k /\ k \notin Chunks
    <3>1. {} \cup {f} = {f}
      OBVIOUS
    <3>2. TotalOf({f}) = TotalOf({}) + size[f]
      BY <1>3, <3>1
    <3>3. TotalOf({f}) = size[f]
      BY <1>1, <1>4, <3>2
    <3>4. chunks_files'[i] = {f} /\ chunks_sizes'[i] = size[f]
      BY <2>2
    <3> QED
      BY <3>3, <3>4
  <2>3. CASE i = k /\ k \in Chunks
    <3>1. f \notin chunks_files[k]
      BY <1>1, <2>3 DEF PlacedIn
    <3> QED
      BY <1>3, <2>3, <3>1 DEF TotalsAreTrue
  <2> QED
    BY <2>1, <2>2, <2>3
<1>6. IsFiniteSet(Placed) /\ f \notin Placed
  BY <1>1, PlacedFiles
<1>7. PlacedNext = Placed \cup {f}
  <2>1. \A g : (\E i \in Chunks' : g \in chunks_files'[i])
                 <=> (\E i \in Chunks : g \in chunks_files[i]) \/ g = f
    OBVIOUS
  <2> QED
    BY <2>1
<1>8. placed_count' = Cardinality(PlacedNext)
  BY <1>6, <1>7, FS_AddElement DEF TotalsAreTrue
<1> QED
  BY <1>2, <1>5, <1>8 DEF TotalsAreTrue

\* The running totals of pack_chunks, which its limits are checked against,
\* are true at every turn of the loop: the size of a chunk is the sum of its
\* patches, and placed_count counts the files in all chunks.
THEOREM TotalsStayTrue == PackSpec => []TotalsAreTrue
<1>1. PackInit => TotalsAreTrue
  <2> SUFFICES ASSUME PackInit PROVE TotalsAreTrue
    OBVIOUS
  <2>1. Chunks = {} /\ UNION {chunks_files[i] : i \in Chunks} = {}
    BY DEF PackInit, Chunks
  <2> QED
    BY <2>1, FS_EmptySet DEF PackInit, TotalsAreTrue
<1>2. PackInv /\ TotalsAreTrue /\ [PackNext]_packVars => TotalsAreTrue'
  <2> SUFFICES ASSUME PackInv, TotalsAreTrue, [PackNext]_packVars
               PROVE  TotalsAreTrue'
    OBVIOUS
  <2>0. /\ PackTypeOK /\ Chunks = 1 .. Len(chunks_files)
        /\ Len(chunks_files) \in Nat
    BY DEF PackInv, PackTypeOK, Chunks
  <2>1. ASSUME chunks_files' = chunks_files, chunks_sizes' = chunks_sizes,
               size' = size, placed_count' = placed_count
        PROVE  TotalsAreTrue'
    BY <2>1 DEF TotalsAreTrue, Chunks, TotalOf
  <2>2. ASSUME NEW f \in waiting, Turn(f), OpenChunk(f)
        PROVE  TotalsAreTrue'
    <3> DEFINE k == Len(chunks_files) + 1
    <3>1. /\ Len(chunks_sizes') = k /\ chunks_sizes' \in Seq(Nat)
          /\ \A i \in 1 .. Len(chunks_files) :
               /\ chunks_files'[i] = chunks_files[i]
               /\ chunks_sizes'[i] = chunks_sizes[i]
          /\ chunks_files'[k] = {f} /\ chunks_sizes'[k] = size[f]
          /\ placed_count' = placed_count + 1
      BY <2>0, <2>2, OpenEffect
    <3>2. Chunks' = Chunks \cup {k} /\ k \notin Chunks /\ k \in Chunks'
      BY <2>0, <3>1 DEF Chunks
    <3>3. size' = size
      BY <2>2 DEF Turn
    <3> HIDE DEF k
    <3> QED
      BY <2>0, <3>1, <3>2, <3>3, TotalsAfterTurn
  <2>3. ASSUME NEW f \in waiting, Turn(f), AddToChunk(f)
        PROVE  TotalsAreTrue'
    <3>1. PICK k \in Chunks :
            /\ chunks_sizes[k] + size[f] <= MaxChunkChars
            /\ chunks_files' \in Seq(SUBSET Files) /\ chunks_sizes' \in Seq(Nat)
            /\ Len(chunks_files') = Len(chunks_files)
            /\ Len(chunks_sizes') = Len(chunks_files)
            /\ chunks_files'[k] = chunks_files[k] \cup {f}
            /\ chunks_sizes'[k] = chunks_sizes[k] + size[f]
            /\ \A i \in Chunks \ {k} : /\ chunks_files'[i] = chunks_files[i]
                                       /\ chunks_sizes'[i] = chunks_sizes[i]
            /\ placed_count' = placed_count + 1
            /\ skipped' = skipped
      BY <2>0, <2>3, AddEffect
    <3>2. Chunks' = Chunks
      BY <2>0, <3>1 DEF Chunks
    <3>3. size' = size
      BY <2>3 DEF Turn
    <3> QED
      BY <3>1, <3>2, <3>3, TotalsAfterTurn
  <2>4. ASSUME NEW f \in waiting, Turn(f), SkipFile(f)
        PROVE  TotalsAreTrue'
    BY <2>0, <2>1, <2>4, SkipEffect DEF Turn
  <2>5. CASE UNCHANGED packVars
    BY <2>1, <2>5 DEF packVars
  <2> QED
    BY <2>2, <2>3, <2>4, <2>5 DEF PackNext, Packed, Turn
<1> QED
  BY <1>1, <1>2, PackInvariant, PTL DEF PackSpec

-----------------------------------------------------------------------------
(* The body of the review.                                                 *)

\* What prepare makes of the chunks does not touch them: it packs as Chunking
\* says, and whatever holds of the packing holds while the body is made.
THEOREM BodyRefinesPacking == BodySpec => PackSpec
<1>1. BodyInit => PackInit
  BY DEF BodyInit
<1>2. [BodyNext]_bodyVars => [PackNext]_packVars
  <2> SUFFICES ASSUME [BodyNext]_bodyVars PROVE [PackNext]_packVars
    OBVIOUS
  <2>1. CASE PackFile
    BY <2>1 DEF PackFile, PackNext
  <2>2. CASE EndPacking \/ Render \/ Prepared \/ UNCHANGED bodyVars
    BY <2>2 DEF EndPacking, Render, Prepared, bodyVars
  <2>3. ASSUME NEW r \in Replies, AnswerChunk(r) \/ Synthesize(r)
        PROVE  [PackNext]_packVars
    BY <2>3 DEF AnswerChunk, Synthesize
  <2> QED
    BY <2>1, <2>2, <2>3 DEF BodyNext
<1> QED
  BY <1>1, <1>2, PTL DEF BodySpec, PackSpec

\* BodyInv holds at every step of prepare.
THEOREM BodyInvariant == BodySpec => []BodyInv
<1>1. BodyInit => BodyInv
  BY FileListsAssumption DEF BodyInit, BodyInv, FilesAreListed, PackInit
<1>2. PackInv /\ BodyInv /\ [BodyNext]_bodyVars => BodyInv'
  <2> SUFFICES ASSUME PackInv, BodyInv, [BodyNext]_bodyVars PROVE BodyInv'
    OBVIOUS
  <2>0. Len(chunks_files) \in Nat /\ (Len(chunks_files) = 0 => chunks_files = <<>>)
    BY DEF PackInv, PackTypeOK
  <2> DEFINE Whole == Truncate(ReviewText(review) \o SkippedText(review)
                                 \o <<Footer>>)
  <2>a. ASSUME review' = review, UNCHANGED packVars PROVE Whole' = Whole
    BY <2>a DEF packVars, Truncate, ReviewText, SkippedText, FileNames,
                Place, TriedBefore
  <2>b. FilesAreListed'
    <3>1. listing' = listing /\ size' = size
      BY DEF BodyNext, PackFile, Turn, EndPacking, AnswerChunk, Synthesize,
             Render, Prepared, bodyVars, packVars
    <3> QED
      BY <3>1 DEF BodyInv, FilesAreListed, EligibleSizes, Eligible, Listed, Rank
  <2>1. CASE PackFile
    BY <2>b, <2>1 DEF PackFile, BodyInv
  <2>2. CASE EndPacking
    BY <2>0, <2>b, <2>2 DEF EndPacking, BodyInv, packVars
  <2>3. ASSUME NEW r \in Replies, AnswerChunk(r)
        PROVE  BodyInv'
    <3>1. /\ pc = "chunk" /\ answered' = answered + 1 /\ answered \in Nat
          /\ answered' <= Len(chunks_files) /\ answered' \in Nat
          /\ UNCHANGED packVars
      BY <2>0, <2>3 DEF AnswerChunk, BodyInv
    <3>2. CASE answered' < Len(chunks_files)
      <4> DEFINE n == Len(chunks_files)
      <4>a. n \in Nat /\ answered \in Nat /\ answered + 1 < n
        BY <2>0, <3>1, <3>2
      <4> HIDE DEF n
      <4>b. n # 1
        BY <4>a
      <4>1. Len(chunks_files) # 1
        BY <4>b DEF n
      <4>2. pc' = "chunk"
        BY <2>3, <3>2, <4>1 DEF AnswerChunk
      <4> QED
        BY <2>b, <3>1, <3>2, <4>2 DEF BodyInv, packVars
    <3>3. CASE answered' = Len(chunks_files) /\ Len(chunks_files) = 1
      <4>1. pc' = "render" /\ review' = Parse(r)
        BY <2>0, <2>3, <3>3 DEF AnswerChunk
      <4> QED
        BY <2>b, <3>1, <3>3, <4>1 DEF BodyInv, packVars
    <3>4. CASE answered' = Len(chunks_files) /\ Len(chunks_files) # 1
      <4>1. pc' = "synthesize"
        BY <2>0, <2>3, <3>4 DEF AnswerChunk
      <4> QED
        BY <2>b, <3>1, <3>4, <4>1 DEF BodyInv, packVars
    <3>5. answered' < Len(chunks_files) \/ answered' = Len(chunks_files)
      BY <2>0, <3>1
    <3> QED
      BY <3>2, <3>3, <3>4, <3>5
  <2>4. ASSUME NEW r \in Replies, Synthesize(r)
        PROVE  BodyInv'
    BY <2>b, <2>4 DEF Synthesize, BodyInv, packVars
  <2>5. CASE Render
    <3>1. /\ pc = "render" /\ pc' = "done" /\ review' = review
          /\ answered' = answered /\ UNCHANGED packVars
          /\ body' = Whole
      BY <2>5 DEF Render
    <3> QED
      BY <2>b, <2>a, <3>1 DEF BodyInv, packVars
  <2>6. CASE Prepared \/ UNCHANGED bodyVars
    <3>1. UNCHANGED <<packVars, pc, answered, review, body>>
      BY <2>6 DEF Prepared, bodyVars
    <3>2. Whole' = Whole
      BY <2>a, <3>1
    <3> HIDE DEF Whole
    <3> QED
      BY <2>b, <3>1, <3>2 DEF BodyInv, packVars, Whole
  <2> QED
    BY <2>1, <2>2, <2>3, <2>4, <2>5, <2>6 DEF BodyNext
<1> QED
  BY <1>1, <1>2, PackInvariant, BodyRefinesPacking, PTL DEF BodySpec

-----------------------------------------------------------------------------
\* The parts a body is made of.  (That a literal is a string is beyond the
\* provers: the literals are listed.)
Words ==
  STRING \cup Headings
    \cup {"banner", "heading", "quote", "text", "note", "footer",
          "Could not parse model output", "Not reviewed due to size",
          "Reviewed by vidi-pr", "review truncated"}
Parts == [part : Words, text : Words] \cup [part : {"file"}, file : Nat]

\* Parts, and what they say.
LEMMA PartFacts ==
  /\ \A k, t : Part(k, t).part = k /\ Part(k, t).text = t
  /\ \A k, t \in Words : Part(k, t) \in Parts
  /\ \A f : FileName(f).part = "file"
  /\ \A f \in Nat : FileName(f) \in Parts
<1>1. \A k, t : Part(k, t).part = k /\ Part(k, t).text = t
  BY DEF Part
<1>2. \A k, t \in Words : Part(k, t) \in Parts
  BY DEF Part, Parts
<1>3. \A f : FileName(f).part = "file"
  BY DEF FileName
<1>4. \A f \in Nat : FileName(f) \in Parts
  BY DEF FileName, Parts
<1> QED
  BY <1>1, <1>2, <1>3, <1>4

\* The fixed parts of a body.
LEMMA FixedParts ==
  /\ {Banner, NotReviewed, Footer, Note} \subseteq Parts
  /\ \A h \in Headings : Part("heading", h) \in Parts
  /\ Banner.part = "banner" /\ NotReviewed.part = "heading"
  /\ Footer.part = "footer" /\ Note.part = "note"
<1>1. /\ Banner \in Parts /\ NotReviewed \in Parts
      /\ Footer \in Parts /\ Note \in Parts
  <2>1. {"banner", "heading", "footer", "note",
         "Could not parse model output", "Not reviewed due to size",
         "Reviewed by vidi-pr", "review truncated"} \subseteq Words
    BY DEF Words
  <2> QED
    BY <2>1, PartFacts DEF Banner, NotReviewed, Footer, Note
<1>2. \A h \in Headings : Part("heading", h) \in Parts
  BY PartFacts DEF Words
<1>3. /\ Banner.part = "banner" /\ NotReviewed.part = "heading"
      /\ Footer.part = "footer" /\ Note.part = "note"
  BY PartFacts DEF Banner, NotReviewed, Footer, Note
<1> QED
  BY <1>1, <1>2, <1>3

\* A function from 1 to n is a sequence of length n.
LEMMA FunctionIsSeq ==
  ASSUME NEW S, NEW n \in Nat, NEW f \in [1 .. n -> S]
  PROVE  f \in Seq(S) /\ Len(f) = n
<1>1. f \in Seq(S)
  OBVIOUS
<1> QED
  BY <1>1

\* Lines of text become as many parts.
LEMMA LinesAreParts ==
  ASSUME NEW ls \in Seq(STRING), NEW kind \in Words
  PROVE  /\ Lines(kind, ls) \in Seq(Parts) /\ Len(Lines(kind, ls)) = Len(ls)
         /\ \A i \in 1 .. Len(ls) : Lines(kind, ls)[i] = Part(kind, ls[i])
<1>1. \A i \in 1 .. Len(ls) : Part(kind, ls[i]) \in Parts
  <2>1. \A i \in 1 .. Len(ls) : ls[i] \in STRING
    OBVIOUS
  <2>2. STRING \subseteq Words
    BY DEF Words
  <2> QED
    BY <2>1, <2>2, PartFacts
<1>2. DOMAIN ls = 1 .. Len(ls) /\ Len(ls) \in Nat
  OBVIOUS
<1>3. Lines(kind, ls) = [i \in 1 .. Len(ls) |-> Part(kind, ls[i])]
  BY <1>2 DEF Lines
<1>4. Lines(kind, ls) \in [1 .. Len(ls) -> Parts]
  BY <1>1, <1>3
<1>5. Lines(kind, ls) \in Seq(Parts) /\ Len(Lines(kind, ls)) = Len(ls)
  BY <1>2, <1>4, FunctionIsSeq
<1> QED
  BY <1>3, <1>5

\* The section that starts at a heading ends before the next heading.
LEMMA SectionEnds ==
  ASSUME NEW r \in Seq(STRING), NEW i \in Matches(r)
  PROVE  \E e \in i .. Len(r) :
           /\ SectionAt(r, i) = SubSeq(r, i + 1, e)
           /\ \A k \in Matches(r) : i < k => e < k
           /\ e = Len(r) \/ e + 1 \in Matches(r)
<1> DEFINE later == {k \in Matches(r) : i < k}
<1>1. /\ i \in 1 .. Len(r) /\ Len(r) \in Nat
      /\ \A k \in Matches(r) : k \in 1 .. Len(r)
  BY DEF Matches
<1>2. CASE later = {}
  <2>1. SectionAt(r, i) = SubSeq(r, i + 1, Len(r))
    BY <1>2 DEF SectionAt
  <2> QED
    BY <1>1, <1>2, <2>1
<1>3. CASE later # {}
  <2> DEFINE m == Min(later)
  <2>1. SectionAt(r, i) = SubSeq(r, i + 1, m - 1)
    BY <1>3 DEF SectionAt
  <2>2. m \in later /\ \A k \in later : m <= k
    <3>1. \A k \in Matches(r) : k \in Nat
      BY <1>1
    <3>2. later \subseteq Nat
      BY <3>1
    <3> HIDE DEF later
    <3> QED
      BY <1>3, <3>2, MinFacts
  <2> HIDE DEF m
  <2>3. m \in Matches(r) /\ i < m /\ m \in 1 .. Len(r)
    BY <1>1, <2>2
  <2>4. m - 1 \in i .. Len(r) /\ (m - 1) + 1 = m
    BY <1>1, <2>3
  <2>5. ASSUME NEW k \in Matches(r), i < k PROVE m - 1 < k
    <3>1. k \in later
      BY <2>5
    <3>2. m <= k /\ k \in 1 .. Len(r)
      BY <1>1, <2>2, <3>1
    <3> QED
      BY <2>3, <3>2
  <2> QED
    BY <2>1, <2>3, <2>4, <2>5
<1> QED
  BY <1>2, <1>3

\* The last of some positions of a reply.
LEMMA LatestFacts ==
  ASSUME NEW n \in Nat, NEW is, is \subseteq 1 .. n, is # {}
  PROVE  Max(is) \in is /\ \A k \in is : k <= Max(is)
<1>1. is \subseteq Nat /\ \A k \in is : k <= n
  OBVIOUS
<1> QED
  BY <1>1, MaxFacts

\* What is under a heading: nothing, if the reply does not have it, or the
\* lines behind its last occurrence.
LEMMA SectionFacts ==
  ASSUME NEW r \in Seq(STRING), NEW h \in Headings
  PROVE  LET is == {i \in Matches(r) : r[i] = h}
         IN /\ Section(r, h) \in Seq(STRING)
            /\ is = {} => Section(r, h) = <<>>
            /\ is # {} => 
                 /\ Latest(is) \in is /\ \A i \in is : i <= Latest(is)
                 /\ \A k \in Matches(r) :
                      Latest(is) < k => Latest(is) + Len(Section(r, h)) < k
                 /\ Latest(is) + Len(Section(r, h)) <= Len(r)
                 /\ \/ Latest(is) + Len(Section(r, h)) = Len(r)
                    \/ Latest(is) + Len(Section(r, h)) + 1 \in Matches(r)
                 /\ \A d \in 1 .. Len(Section(r, h)) :
                      Section(r, h)[d] = r[Latest(is) + d]
<1> DEFINE is == {i \in Matches(r) : r[i] = h}
<1>1. Len(r) \in Nat /\ is \subseteq 1 .. Len(r) /\ is \subseteq Matches(r)
  BY DEF Matches
<1>2. CASE is = {}
  <2>1. Section(r, h) = <<>>
    BY <1>2 DEF Section
  <2> QED
    BY <1>2, <2>1
<1>3. CASE is # {}
  <2> DEFINE m == Latest(is)
  <2>1. m \in is /\ \A i \in is : i <= m
    <3> HIDE DEF is
    <3> QED
      BY <1>1, <1>3, LatestFacts DEF Latest
  <2>2. Section(r, h) = SectionAt(r, m)
    BY <1>3 DEF Section
  <2> HIDE DEF m
  <2>3. m \in Matches(r) /\ m \in 1 .. Len(r)
    BY <1>1, <2>1
  <2>4. PICK e \in m .. Len(r) :
          /\ SectionAt(r, m) = SubSeq(r, m + 1, e)
          /\ \A k \in Matches(r) : m < k => e < k
          /\ e = Len(r) \/ e + 1 \in Matches(r)
    BY <2>3, SectionEnds
  <2>5. /\ SubSeq(r, m + 1, e) \in Seq(STRING)
        /\ Len(SubSeq(r, m + 1, e)) = e - m
        /\ \A d \in 1 .. (e - m) : SubSeq(r, m + 1, e)[d] = r[m + d]
    BY <1>1, <2>3
  <2>6. m + (e - m) = e /\ e <= Len(r)
    BY <1>1, <2>3
  <2> QED
    BY <1>3, <2>1, <2>2, <2>4, <2>5, <2>6 DEF m
<1> QED
  BY <1>2, <1>3

-----------------------------------------------------------------------------
\* The skipped files have the places 1, 2, ... in the order they were tried,
\* no two of them the same.
LEMMA PlaceFacts ==
  ASSUME PackTypeOK
  PROVE  /\ Cardinality(skipped) \in Nat
         /\ \A f \in skipped : Place(f) \in 1 .. Cardinality(skipped)
         /\ \A f, g \in skipped : Place(f) = Place(g) => f = g
<1> DEFINE Before(f) == {g \in skipped : TriedBefore(g, f)}
<1>1. /\ IsFiniteSet(skipped) /\ Cardinality(skipped) \in Nat
      /\ \A f \in skipped : f \in Nat /\ size[f] \in Nat
  <2>1. Files = 1 .. Len(size) /\ Len(size) \in Nat /\ skipped \subseteq Files
    BY DEF PackTypeOK, Files
  <2>2. IsFiniteSet(Files)
    BY <2>1, FS_Interval
  <2>3. \A f \in skipped : f \in Nat /\ size[f] \in Nat
    BY <2>1 DEF PackTypeOK
  <2> QED
    BY <2>1, <2>2, <2>3, FS_Subset, FS_CardinalityType
<1>2. \A f \in skipped : ~TriedBefore(f, f)
  BY <1>1 DEF TriedBefore
<1>3. \A f, g \in skipped : f # g => TriedBefore(f, g) \/ TriedBefore(g, f)
  BY <1>1 DEF TriedBefore
<1>4. \A e, f, g \in skipped :
        TriedBefore(e, f) /\ TriedBefore(f, g) => TriedBefore(e, g)
  BY <1>1 DEF TriedBefore
<1>5. \A f : IsFiniteSet(Before(f)) /\ Cardinality(Before(f)) \in Nat
  <2> TAKE f
  <2>1. Before(f) \subseteq skipped
    OBVIOUS
  <2> QED
    BY <1>1, <2>1, FS_Subset, FS_CardinalityType
<1>6. ASSUME NEW f \in skipped
      PROVE  Place(f) \in 1 .. Cardinality(skipped)
  <2>1. Before(f) \subseteq skipped /\ Before(f) # skipped
    BY <1>2
  <2>2. /\ Cardinality(Before(f)) <= Cardinality(skipped)
        /\ Cardinality(Before(f)) # Cardinality(skipped)
    BY <1>1, <2>1, FS_Subset
  <2>3. Place(f) = 1 + Cardinality(Before(f))
    BY DEF Place
  <2> QED
    BY <1>1, <1>5, <2>2, <2>3
<1>7. ASSUME NEW f \in skipped, NEW g \in skipped, TriedBefore(f, g)
      PROVE  Place(f) # Place(g)
  <2>1. Before(f) \subseteq Before(g)
    BY <1>4, <1>7
  <2>2. f \in Before(g) /\ f \notin Before(f)
    BY <1>2, <1>7
  <2>3. Cardinality(Before(f)) # Cardinality(Before(g))
    BY <1>5, <2>1, <2>2, FS_Subset
  <2>4. /\ Place(f) = 1 + Cardinality(Before(f))
        /\ Place(g) = 1 + Cardinality(Before(g))
    BY DEF Place
  <2> QED
    BY <1>5, <2>3, <2>4
<1> QED
  BY <1>1, <1>3, <1>6, <1>7

\* What is said of the files left out: nothing if there are none, else each
\* of them is named.
LEMMA SkippedTextFacts ==
  ASSUME PackTypeOK, NEW p
  PROVE  /\ SkippedText(p) \in Seq(Parts)
         /\ \A f \in skipped : \E i \in 1 .. Len(SkippedText(p)) :
              SkippedText(p)[i] = FileName(f)
         /\ \A i \in 1 .. Len(SkippedText(p)) :
              SkippedText(p)[i].part \in {"heading", "file"}
<1>1. CASE skipped = {}
  BY <1>1 DEF SkippedText
<1>2. CASE skipped # {}
  <2> DEFINE c == Cardinality(skipped)
             At(i) == CHOOSE f \in skipped : Place(f) = i
             ns == [i \in 1 .. c |-> FileName(At(i))]
  <2>1. c \in Nat
    BY PlaceFacts
  <2>2. \A f \in skipped : Place(f) \in 1 .. c /\ At(Place(f)) = f
    BY PlaceFacts
  \* No place is empty.
  <2>3. \A i \in 1 .. c : At(i) \in skipped
    <3> DEFINE P == [f \in skipped |-> Place(f)]
    <3>1. IsFiniteSet(skipped) /\ IsFiniteSet(1 .. c) /\ Cardinality(1 .. c) = c
      <4>1. Files = 1 .. Len(size) /\ Len(size) \in Nat /\ skipped \subseteq Files
        BY DEF PackTypeOK, Files
      <4>2. IsFiniteSet(Files)
        BY <4>1, FS_Interval
      <4>3. IsFiniteSet(skipped)
        BY <4>1, <4>2, FS_Subset
      <4>4. IsFiniteSet(1 .. c) /\ Cardinality(1 .. c) = c
        <5>1. Cardinality(1 .. c) = IF 1 > c THEN 0 ELSE c - 1 + 1
          BY <2>1, FS_Interval
        <5>2. IsFiniteSet(1 .. c)
          BY <2>1, FS_Interval
        <5> QED
          BY <2>1, <5>1, <5>2
      <4> QED
        BY <4>3, <4>4
    <3>2. P \in Injection(skipped, 1 .. c)
      BY PlaceFacts DEF Injection, IsInjective
    <3>3. P \in Surjection(skipped, 1 .. c)
      BY <3>1, <3>2, FS_Injection
    <3>4. ASSUME NEW i \in 1 .. c PROVE \E f \in skipped : Place(f) = i
      BY <3>3 DEF Surjection
    <3> QED
      BY <3>4
  <2>4. \A f \in skipped : FileName(f) \in Parts /\ FileName(f).part = "file"
    <3> TAKE f \in skipped
    <3>1. f \in Nat
      BY DEF PackTypeOK, Files
    <3> QED
      BY <3>1, PartFacts
  <2>5. ns \in [1 .. c -> Parts] /\ \A i \in 1 .. c : ns[i].part = "file"
    BY <2>3, <2>4
  <2>6. ns \in Seq(Parts) /\ Len(ns) = c
    BY <2>1, <2>5, FunctionIsSeq
  <2>7. /\ <<NotReviewed>> \in Seq(Parts) /\ Len(<<NotReviewed>>) = 1
        /\ <<NotReviewed>>[1].part = "heading"
    <3>1. NotReviewed \in Parts /\ NotReviewed.part = "heading"
      BY FixedParts
    <3> QED
      BY <3>1
  <2>8. SkippedText(p) = <<NotReviewed>> \o ns
    BY <1>2 DEF SkippedText, FileNames
  <2>9. \A f \in skipped : Place(f) \in 1 .. c /\ ns[Place(f)] = FileName(f)
    BY <2>2
  <2> HIDE DEF ns, c
  <2>10. /\ SkippedText(p) \in Seq(Parts)
         /\ Len(SkippedText(p)) = 1 + c
         /\ \A i \in 1 .. c : SkippedText(p)[1 + i] = ns[i]
         /\ SkippedText(p)[1] = <<NotReviewed>>[1]
    BY <2>1, <2>6, <2>7, <2>8
  <2>11. \A f \in skipped : \E i \in 1 .. Len(SkippedText(p)) :
              SkippedText(p)[i] = FileName(f)
    <3> TAKE f \in skipped
    <3>1. 1 + Place(f) \in 1 .. (1 + c)
      BY <2>1, <2>9
    <3> QED
      BY <2>9, <2>10, <3>1
  <2>12. ASSUME NEW i \in 1 .. (1 + c)
         PROVE  SkippedText(p)[i].part \in {"heading", "file"}
    <3>1. CASE i = 1
      BY <2>7, <2>10, <3>1
    <3>2. CASE i # 1
      <4>1. i - 1 \in 1 .. c /\ 1 + (i - 1) = i
        BY <2>1, <3>2
      <4> QED
        BY <2>5, <2>10, <4>1
    <3> QED
      BY <3>1, <3>2
  <2> QED
    BY <2>10, <2>11, <2>12
<1> QED
  BY <1>1, <1>2

-----------------------------------------------------------------------------
\* The sections s under the headings H are laid out in the body b, that of h
\* behind the first o[h] parts of b: their lines are there, under their
\* heading, no two of them in the same place, and b has no other text.
Laid(b, H, o, s) ==
  /\ b \in Seq(Parts)
  /\ \A h \in H : o[h] \in Nat
  /\ \A h \in H : \A d \in 1 .. Len(s[h]) :
       /\ o[h] + 1 + d \in 1 .. Len(b)
       /\ b[o[h] + 1 + d] = Part("text", s[h][d])
  /\ \A h \in H : s[h] # <<>> => b[o[h] + 1] = Part("heading", h)
  /\ \A k \in 1 .. Len(b) : b[k].part = "text" =>
       \E h \in H : \E d \in 1 .. Len(s[h]) : k = o[h] + 1 + d
  /\ \A g, h \in H : \A c \in 1 .. Len(s[g]), d \in 1 .. Len(s[h]) :
       o[g] + 1 + c = o[h] + 1 + d => g = h

\* One section more.
LEMMA LaidMore ==
  ASSUME NEW s \in [Headings -> Seq(STRING)], NEW b, NEW H \in SUBSET Headings,
         NEW o, Laid(b, H, o, s), NEW h \in Headings \ H
  PROVE  \E q : Laid(b \o SectionText(h, s[h]), H \cup {h}, q, s)
<1> DEFINE m == Len(b)
           n == Len(s[h])
           q == [g \in H \cup {h} |-> IF g = h THEN m ELSE o[g]]
<1>1. /\ b \in Seq(Parts) /\ m \in Nat
      /\ s[h] \in Seq(STRING) /\ n \in Nat /\ (s[h] = <<>> <=> n = 0)
      /\ q[h] = m /\ \A g \in H : q[g] = o[g] /\ g # h /\ o[g] \in Nat
      /\ \A g \in Headings : Len(s[g]) \in Nat
  BY DEF Laid
<1>2. CASE s[h] = <<>>
  <2>1. b \o SectionText(h, s[h]) = b
    BY <1>1, <1>2 DEF SectionText
  <2>2. 1 .. Len(s[h]) = {}
    BY <1>1, <1>2
  <2> HIDE DEF m, n, q
  <2>3. Laid(b, H \cup {h}, q, s)
    <3>1. \A g \in H \cup {h} : q[g] \in Nat
      BY <1>1
    <3>2. ASSUME NEW g \in H \cup {h}, NEW d \in 1 .. Len(s[g])
          PROVE  g \in H /\ q[g] = o[g]
      BY <1>1, <2>2
    <3>3. \A g \in H \cup {h} : s[g] # <<>> => g \in H /\ q[g] = o[g]
      BY <1>1, <1>2
    <3>4. ASSUME NEW k \in 1 .. Len(b), b[k].part = "text"
          PROVE  \E g \in H \cup {h} : \E d \in 1 .. Len(s[g]) : k = q[g] + 1 + d
      <4>1. PICK g \in H : \E d \in 1 .. Len(s[g]) : k = o[g] + 1 + d
        BY <3>4 DEF Laid
      <4>2. q[g] = o[g]
        BY <1>1
      <4> QED
        BY <4>1, <4>2
    <3>5. \A g \in H \cup {h} : \A d \in 1 .. Len(s[g]) :
            /\ q[g] + 1 + d \in 1 .. Len(b)
            /\ b[q[g] + 1 + d] = Part("text", s[g][d])
      BY <3>2 DEF Laid
    <3>6. \A g \in H \cup {h} : s[g] # <<>> =>
            b[q[g] + 1] = Part("heading", g)
      BY <3>3 DEF Laid
    <3>7. \A f, g \in H \cup {h} : \A c \in 1 .. Len(s[f]), d \in 1 .. Len(s[g]) :
            q[f] + 1 + c = q[g] + 1 + d => f = g
      BY <3>2 DEF Laid
    <3> QED
      BY <1>1, <3>1, <3>4, <3>5, <3>6, <3>7 DEF Laid
  <2> QED
    BY <2>1, <2>3
<1>3. CASE s[h] # <<>>
  <2> DEFINE t == SectionText(h, s[h])
             ls == Lines("text", s[h])
             b2 == b \o t
  <2>1. /\ ls \in Seq(Parts) /\ Len(ls) = n
        /\ \A d \in 1 .. n : ls[d] = Part("text", s[h][d])
    <3>1. "text" \in Words
      BY DEF Words
    <3> QED
      BY <1>1, <3>1, LinesAreParts
  <2>2. t = <<Part("heading", h)>> \o ls
    BY <1>3 DEF SectionText
  <2>3. Part("heading", h) \in Parts
    BY FixedParts
  <2> HIDE DEF t, ls, n, m, q
  <2>4. /\ t \in Seq(Parts) /\ Len(t) = n + 1
        /\ t[1] = Part("heading", h)
        /\ \A d \in 1 .. n : t[1 + d] = ls[d]
    BY <1>1, <2>1, <2>2, <2>3
  <2>5. /\ b2 \in Seq(Parts) /\ Len(b2) = m + (n + 1)
        /\ \A k \in 1 .. m + (n + 1) :
             b2[k] = IF k <= m THEN b[k] ELSE t[k - m]
    <3>1. /\ b2 \in Seq(Parts) /\ Len(b2) = Len(b) + Len(t)
          /\ \A k \in 1 .. Len(b) + Len(t) :
               b2[k] = IF k <= Len(b) THEN b[k] ELSE t[k - Len(b)]
      BY <1>1, <2>4, ConcatProperties
    <3> QED
      BY <2>4, <3>1 DEF m
  <2> HIDE DEF b2
  <2>6. \A k \in 1 .. m : k \in 1 .. Len(b2) /\ b2[k] = b[k]
    BY <1>1, <2>5
  <2>7. m + 1 \in 1 .. Len(b2) /\ b2[m + 1] = Part("heading", h)
    <3>1. m + 1 \in 1 .. m + (n + 1) /\ ~(m + 1 <= m) /\ (m + 1) - m = 1
      BY <1>1
    <3> QED
      BY <2>4, <2>5, <3>1
  <2>8. ASSUME NEW d \in 1 .. n
        PROVE  /\ m + 1 + d \in 1 .. Len(b2)
               /\ b2[m + 1 + d] = Part("text", s[h][d])
    <3>1. /\ m + 1 + d \in 1 .. m + (n + 1) /\ ~(m + 1 + d <= m)
          /\ (m + 1 + d) - m = 1 + d
      BY <1>1
    <3> QED
      BY <2>1, <2>4, <2>5, <3>1
  <2>9. ASSUME NEW k \in 1 .. Len(b2)
        PROVE  \/ k \in 1 .. m
               \/ k = m + 1
               \/ \E d \in 1 .. n : k = m + 1 + d
    <3>1. CASE k > m + 1
      <4>1. k - m - 1 \in 1 .. n /\ k = m + 1 + (k - m - 1)
        BY <1>1, <2>5, <3>1
      <4> QED
        BY <4>1
    <3>2. CASE ~(k > m + 1)
      BY <1>1, <2>5, <3>2
    <3> QED
      BY <3>1, <3>2
  <2>10. Laid(b2, H \cup {h}, q, s)
    <3>1. \A g \in H \cup {h} : q[g] \in Nat
      BY <1>1
    <3>2. ASSUME NEW g \in H \cup {h}, NEW d \in 1 .. Len(s[g])
          PROVE  /\ q[g] + 1 + d \in 1 .. Len(b2)
                 /\ b2[q[g] + 1 + d] = Part("text", s[g][d])
      <4>1. CASE g = h
        BY <1>1, <2>8, <4>1 DEF n
      <4>2. CASE g \in H
        <5>1. /\ o[g] + 1 + d \in 1 .. m
              /\ b[o[g] + 1 + d] = Part("text", s[g][d])
          BY <4>2 DEF Laid, m
        <5> QED
          BY <1>1, <2>6, <4>2, <5>1
      <4> QED
        BY <4>1, <4>2
    <3>3. ASSUME NEW g \in H \cup {h}, s[g] # <<>>
          PROVE  b2[q[g] + 1] = Part("heading", g)
      <4>1. CASE g = h
        BY <1>1, <2>7, <4>1
      <4>2. CASE g \in H
        <5>1. s[g] \in Seq(STRING) /\ 1 \in 1 .. Len(s[g])
          BY <3>3
        <5>2. o[g] + 1 + 1 \in 1 .. m /\ b[o[g] + 1] = Part("heading", g)
          BY <3>3, <4>2, <5>1 DEF Laid, m
        <5>3. o[g] + 1 \in 1 .. m
          BY <1>1, <4>2, <5>2
        <5> QED
          BY <1>1, <2>6, <4>2, <5>2, <5>3
      <4> QED
        BY <4>1, <4>2
    <3>4. ASSUME NEW k \in 1 .. Len(b2), b2[k].part = "text"
          PROVE  \E g \in H \cup {h} : \E d \in 1 .. Len(s[g]) : k = q[g] + 1 + d
      <4>1. CASE k \in 1 .. m
        <5>1. PICK g \in H : \E d \in 1 .. Len(s[g]) : k = o[g] + 1 + d
          BY <2>6, <3>4, <4>1 DEF Laid, m
        <5>2. q[g] = o[g]
          BY <1>1, <5>1
        <5> QED
          BY <5>1, <5>2
      <4>2. CASE k = m + 1
        BY <2>7, <3>4, <4>2, PartFacts
      <4>3. CASE \E d \in 1 .. n : k = m + 1 + d
        BY <1>1, <4>3 DEF n
      <4> QED
        BY <2>9, <4>1, <4>2, <4>3
    <3>5. ASSUME NEW f \in H \cup {h}, NEW g \in H \cup {h},
                 NEW c \in 1 .. Len(s[f]), NEW d \in 1 .. Len(s[g]),
                 q[f] + 1 + c = q[g] + 1 + d
          PROVE  f = g
      <4>1. ASSUME NEW e \in H, NEW i \in 1 .. Len(s[e]), NEW j \in 1 .. n
            PROVE  o[e] + 1 + i # m + 1 + j
        <5>1. o[e] + 1 + i \in 1 .. m
          BY DEF Laid, m
        <5> QED
          BY <1>1, <5>1
      <4>2. CASE f \in H /\ g \in H
        BY <1>1, <3>5, <4>2 DEF Laid
      <4>3. CASE f = h /\ g \in H
        BY <1>1, <3>5, <4>1, <4>3 DEF n
      <4>4. CASE f \in H /\ g = h
        BY <1>1, <3>5, <4>1, <4>4 DEF n
      <4> QED
        BY <4>2, <4>3, <4>4
    <3> QED
      BY <2>5, <3>1, <3>2, <3>3, <3>4, <3>5 DEF Laid
  <2> QED
    BY <2>10 DEF b2, t
<1> QED
  BY <1>2, <1>3

\* The four sections of a review are laid out in its text.
LEMMA ReviewIsLaid ==
  ASSUME NEW p, ~p.parse_failed, p.sections \in [Headings -> Seq(STRING)]
  PROVE  \E o : Laid(ReviewText(p), Headings, o, p.sections)
<1> DEFINE s == p.sections
           b1 == SectionText("Summary", s["Summary"])
           b2 == b1 \o SectionText("Findings", s["Findings"])
           b3 == b2 \o SectionText("Suggestions", s["Suggestions"])
           b4 == b3 \o SectionText("Positives", s["Positives"])
           H1 == {"Summary"}
           H2 == H1 \cup {"Findings"}
           H3 == H2 \cup {"Suggestions"}
           H4 == H3 \cup {"Positives"}
<1>1. ReviewText(p) = b4
  BY DEF ReviewText
<1>2. /\ "Summary" \in Headings \ {} /\ "Findings" \in Headings \ H1
      /\ "Suggestions" \in Headings \ H2 /\ "Positives" \in Headings \ H3
      /\ H1 \in SUBSET Headings /\ H2 \in SUBSET Headings
      /\ H3 \in SUBSET Headings /\ H4 = Headings /\ {} \in SUBSET Headings
  BY DEF Headings
<1>3. s \in [Headings -> Seq(STRING)]
  OBVIOUS
<1> HIDE DEF s
<1>4. Laid(<<>>, {}, <<>>, s)
  BY DEF Laid
<1>5. \E q : Laid(b1, H1, q, s)
  <2>1. \E q : Laid(<<>> \o b1, {} \cup H1, q, s)
    BY <1>2, <1>3, <1>4, LaidMore
  <2>2. PICK q : Laid(<<>> \o b1, H1, q, s)
    BY <2>1
  <2>3. <<>> \o b1 = b1
    <3>1. s["Summary"] \in Seq(STRING)
      BY <1>2, <1>3
    <3>2. Lines("text", s["Summary"]) \in Seq(Parts)
      BY <3>1, LinesAreParts DEF Words
    <3>3. b1 \in Seq(Parts)
      BY <1>2, <3>2, FixedParts DEF SectionText
    <3> QED
      BY <3>3, ConcatEmptySeq
  <2> QED
    BY <2>2, <2>3
<1>6. \E q : Laid(b2, H2, q, s)
  <2> HIDE DEF b1, H1
  <2> QED
    BY <1>2, <1>3, <1>5, LaidMore
<1>7. \E q : Laid(b3, H3, q, s)
  <2> HIDE DEF b2, H2
  <2> QED
    BY <1>2, <1>3, <1>6, LaidMore
<1>8. \E q : Laid(b4, H4, q, s)
  <2> HIDE DEF b3, H3
  <2> QED
    BY <1>2, <1>3, <1>7, LaidMore
<1> QED
  BY <1>1, <1>2, <1>8 DEF s

-----------------------------------------------------------------------------
\* What parse_review_output makes of a reply.
LEMMA ParseFacts ==
  ASSUME NEW r \in Seq(STRING)
  PROVE  /\ Parse(r).raw = r
         /\ Parse(r).parse_failed <=> Matches(r) = {}
         /\ Parse(r).sections \in [Headings -> Seq(STRING)]
         /\ \A h \in Headings : Parse(r).sections[h] = Section(r, h)
<1>1. \A h \in Headings : Section(r, h) \in Seq(STRING)
  BY SectionFacts
<1> QED
  BY <1>1 DEF Parse

\* A reply without a heading is quoted below the banner.
LEMMA QuoteFacts ==
  ASSUME NEW r \in Seq(STRING), Parse(r).parse_failed
  PROVE  LET t == ReviewText(Parse(r))
         IN /\ t \in Seq(Parts) /\ Len(t) = 1 + Len(r)
            /\ \A i \in 1 .. Len(r) : t[1 + i] = Part("quote", r[i])
<1> DEFINE q == Lines("quote", r)
<1>1. /\ q \in Seq(Parts) /\ Len(q) = Len(r) /\ Len(r) \in Nat
      /\ \A i \in 1 .. Len(r) : q[i] = Part("quote", r[i])
  <2>1. "quote" \in Words
    BY DEF Words
  <2> QED
    BY <2>1, LinesAreParts
<1>2. Banner \in Parts
  BY FixedParts
<1>3. ReviewText(Parse(r)) = <<Banner>> \o q
  BY ParseFacts DEF ReviewText
<1> HIDE DEF q
<1> QED
  BY <1>1, <1>2, <1>3

\* The body before it is cut: the text of the review, and behind it neither
\* text nor quotes, but every file left out.
LEMMA WholeBody ==
  ASSUME PackTypeOK, NEW r \in Seq(STRING)
  PROVE  LET p == Parse(r)
             t == ReviewText(p)
             b == ReviewText(p) \o SkippedText(p) \o <<Footer>>
         IN /\ t \in Seq(Parts) /\ b \in Seq(Parts) /\ Len(t) <= Len(b)
            /\ \A k \in 1 .. Len(t) : b[k] = t[k]
            /\ \A k \in 1 .. Len(b) : k > Len(t) => b[k].part # "text"
            /\ \A f \in skipped : \E k \in 1 .. Len(b) : b[k] = FileName(f)
<1> DEFINE p == Parse(r)
           t == ReviewText(p)
           u == SkippedText(p)
           b == t \o u \o <<Footer>>
<1>1. t \in Seq(Parts)
  <2>1. CASE p.parse_failed
    BY <2>1, QuoteFacts
  <2>2. CASE ~p.parse_failed
    BY <2>2, ParseFacts, ReviewIsLaid DEF Laid
  <2> QED
    BY <2>1, <2>2
<1>2. /\ u \in Seq(Parts)
      /\ \A f \in skipped : \E i \in 1 .. Len(u) : u[i] = FileName(f)
      /\ \A i \in 1 .. Len(u) : u[i].part \in {"heading", "file"}
  BY SkippedTextFacts
<1>3. Footer \in Parts /\ Footer.part = "footer"
  BY FixedParts
<1> HIDE DEF p, t, u
<1>4. Len(t) \in Nat /\ Len(u) \in Nat
  BY <1>1, <1>2
<1>5. /\ t \o u \in Seq(Parts) /\ Len(t \o u) = Len(t) + Len(u)
      /\ \A k \in 1 .. Len(t) + Len(u) :
           (t \o u)[k] = IF k <= Len(t) THEN t[k] ELSE u[k - Len(t)]
  BY <1>1, <1>2, ConcatProperties
<1>6. /\ b \in Seq(Parts) /\ Len(b) = Len(t) + Len(u) + 1
      /\ \A k \in 1 .. Len(t) + Len(u) : b[k] = (t \o u)[k]
      /\ b[Len(t) + Len(u) + 1] = Footer
  BY <1>3, <1>4, <1>5
<1> HIDE DEF b
<1>7. \A k \in 1 .. Len(t) : b[k] = t[k]
  <2> TAKE k \in 1 .. Len(t)
  <2>1. k \in 1 .. Len(t) + Len(u) /\ k <= Len(t)
    BY <1>4
  <2> QED
    BY <1>5, <1>6, <2>1
<1>8. \A i \in 1 .. Len(u) : Len(t) + i \in 1 .. Len(b) /\ b[Len(t) + i] = u[i]
  <2> TAKE i \in 1 .. Len(u)
  <2>1. /\ Len(t) + i \in 1 .. Len(t) + Len(u) /\ ~(Len(t) + i <= Len(t))
        /\ (Len(t) + i) - Len(t) = i /\ Len(t) + i \in 1 .. Len(t) + Len(u) + 1
    BY <1>4
  <2> QED
    BY <1>5, <1>6, <2>1
<1>9. ASSUME NEW k \in 1 .. Len(b), k > Len(t)
      PROVE  b[k].part # "text"
  <2>1. CASE k = Len(t) + Len(u) + 1
    BY <1>3, <1>6, <2>1
  <2>2. CASE k # Len(t) + Len(u) + 1
    <3>1. k - Len(t) \in 1 .. Len(u) /\ Len(t) + (k - Len(t)) = k
      BY <1>4, <1>6, <1>9, <2>2
    <3>2. b[k] = u[k - Len(t)]
      BY <1>8, <3>1
    <3> QED
      BY <1>2, <3>1, <3>2
  <2> QED
    BY <2>1, <2>2
<1>10. \A f \in skipped : \E k \in 1 .. Len(b) : b[k] = FileName(f)
  BY <1>2, <1>8
<1> QED
  BY <1>1, <1>4, <1>6, <1>7, <1>9, <1>10 DEF b, t, u, p

\* A body fits, and one that was cut says so.
LEMMA TruncateFacts ==
  ASSUME NEW b \in Seq(Parts)
  PROVE  /\ Truncate(b) \in Seq(Parts) /\ Len(Truncate(b)) <= MaxBody
         /\ Truncate(b) = b \/ Truncate(b)[Len(Truncate(b))] = Note
<1>1. MaxBody \in Nat /\ MaxBody >= 1 /\ Len(b) \in Nat
  BY MaxBodyAssumption
<1>2. CASE Len(b) <= MaxBody
  BY <1>2 DEF Truncate
<1>3. CASE ~(Len(b) <= MaxBody)
  <2> DEFINE c == SubSeq(b, 1, MaxBody - 1)
  <2>1. c \in Seq(Parts) /\ Len(c) = MaxBody - 1
    BY <1>1, <1>3
  <2>2. Note \in Parts
    BY FixedParts
  <2>3. Truncate(b) = Append(c, Note)
    BY <1>3 DEF Truncate
  <2> HIDE DEF c
  <2>4. /\ Append(c, Note) \in Seq(Parts) /\ Len(Append(c, Note)) = Len(c) + 1
        /\ Append(c, Note)[Len(c) + 1] = Note
    BY <2>1, <2>2
  <2> QED
    BY <1>1, <2>1, <2>3, <2>4
<1> QED
  BY <1>2, <1>3

\* The body of a review that is done, from the reply it was made of.
LEMMA BodyOfReply ==
  ASSUME PackInv, BodyInv, pc = "done"
  PROVE  /\ waiting = {} /\ answered = Len(chunks_files)
         /\ body \in Seq(Parts) /\ Len(body) <= MaxBody
         /\ \E r \in Seq(STRING) :
              /\ review = Parse(r)
              /\ ~Truncated => body = ReviewText(Parse(r))
                                        \o SkippedText(Parse(r)) \o <<Footer>>
<1>1. PICK r \in Replies : review = Parse(r)
  BY DEF BodyInv
<1>2. r \in Seq(STRING)
  BY <1>1, RepliesAssumption
<1> DEFINE b == ReviewText(Parse(r)) \o SkippedText(Parse(r)) \o <<Footer>>
<1>3. body = Truncate(b)
  BY <1>1 DEF BodyInv
<1>4. b \in Seq(Parts)
  BY <1>2, WholeBody DEF PackInv
<1> HIDE DEF b
<1>5. ~Truncated => body = b
  BY <1>3, <1>4, TruncateFacts DEF Truncated
<1>6. waiting = {} /\ answered = Len(chunks_files)
  BY DEF BodyInv
<1> QED
  BY <1>1, <1>2, <1>3, <1>4, <1>5, <1>6, TruncateFacts DEF b

\* _filter_files: the eligible files are numbered without a gap, and the
\* number of each leads back to it.
LEMMA RankFacts ==
  ASSUME FilesAreListed, NEW k \in DOMAIN listing, Reviewable(listing[k])
  PROVE  Rank(k) \in DOMAIN size /\ Listed(Rank(k)) = k
<1> DEFINE Before(m) == {i \in Eligible : i <= m}
<1>1. k \in Eligible
  BY DEF Eligible
<1>2. /\ IsFiniteSet(Eligible) /\ Cardinality(Eligible) \in Nat
      /\ Eligible \subseteq Nat
  <2>1. listing \in Seq([patch : Nat \cup {NoPatch}, ignored : BOOLEAN])
    BY ListingsAssumption DEF FilesAreListed
  <2>2. DOMAIN listing = 1 .. Len(listing) /\ Len(listing) \in Nat
    BY <2>1
  <2>3. IsFiniteSet(DOMAIN listing)
    BY <2>2, FS_Interval
  <2> QED
    BY <2>2, <2>3, FS_Subset, FS_CardinalityType DEF Eligible
<1>3. \A m : /\ IsFiniteSet(Before(m)) /\ Cardinality(Before(m)) \in Nat
             /\ Cardinality(Before(m)) <= Cardinality(Eligible)
  <2> TAKE m
  <2>1. Before(m) \subseteq Eligible
    OBVIOUS
  <2> QED
    BY <1>2, <2>1, FS_Subset, FS_CardinalityType
<1>4. \A m : Rank(m) = Cardinality(Before(m))
  BY DEF Rank
<1>5. Rank(k) \in 1 .. Cardinality(Eligible)
  <2>1. Before(k) # {}
    BY <1>1, <1>2
  <2>2. Cardinality(Before(k)) # 0
    BY <1>3, <2>1, FS_EmptySet
  <2> QED
    BY <1>2, <1>3, <1>4, <2>2
<1>6. ASSUME NEW l \in Eligible, NEW m \in Eligible, l < m
      PROVE  Rank(l) # Rank(m)
  <2>0. l \in Nat /\ m \in Nat /\ \A i \in Eligible : i \in Nat
    BY <1>2
  <2>1. Before(l) \subseteq Before(m)
    <3> SUFFICES ASSUME NEW i \in Eligible, i <= l PROVE i <= m
      OBVIOUS
    <3> QED
      BY <1>6, <2>0
  <2>2. m \in Before(m) /\ m \notin Before(l)
    BY <1>2, <1>6
  <2>3. Cardinality(Before(l)) # Cardinality(Before(m))
    BY <1>3, <2>1, <2>2, FS_Subset
  <2> QED
    BY <1>4, <2>3
<1>7. \A l \in Eligible : Rank(l) = Rank(k) => l = k
  BY <1>1, <1>2, <1>6
<1>8. Listed(Rank(k)) = k
  BY <1>1, <1>7 DEF Listed
<1>9. DOMAIN size = 1 .. Cardinality(Eligible)
  BY DEF FilesAreListed, EligibleSizes
<1> QED
  BY <1>5, <1>8, <1>9

\* A posted review fits GitHub's limit, and unless it says that it was cut,
\* each changed file that has a patch and is not ignored was shown to the
\* model or is named in it.
THEOREM NothingStaysHidden == BodySpec => []NothingIsHidden
<1>1. PackInv /\ BodyInv => NothingIsHidden
  <2> SUFFICES ASSUME PackInv, BodyInv, pc = "done"
               PROVE  /\ Len(body) <= MaxBody
                      /\ ~Truncated => \A k \in DOMAIN listing :
                           \/ ~Reviewable(listing[k])
                           \/ \E f \in Files :
                                /\ Listed(f) = k
                                /\ \/ \E i \in 1 .. answered :
                                        f \in chunks_files[i]
                                   \/ FileName(f) \in ToSet(body)
    <3>1. \A k \in DOMAIN listing :
            ~Reviewable(listing[k])
              => listing[k].patch = NoPatch \/ listing[k].ignored
      BY Zenon DEF Reviewable
    <3> QED
      BY <3>1 DEF NothingIsHidden
  <2>1. PICK r \in Seq(STRING) :
          /\ review = Parse(r)
          /\ ~Truncated => body = ReviewText(Parse(r))
                                    \o SkippedText(Parse(r)) \o <<Footer>>
    BY BodyOfReply
  <2>2. /\ waiting = {} /\ answered = Len(chunks_files)
        /\ body \in Seq(Parts) /\ Len(body) <= MaxBody
    BY BodyOfReply
  <2>3. PackTypeOK /\ EveryFileAccountedFor
    BY DEF PackInv
  <2>4. ASSUME ~Truncated, NEW f \in skipped
        PROVE  FileName(f) \in ToSet(body)
    <3>1. PICK k \in 1 .. Len(body) : body[k] = FileName(f)
      BY <2>1, <2>3, <2>4, WholeBody
    <3>2. DOMAIN body = 1 .. Len(body)
      BY <2>2
    <3> QED
      BY <3>1, <3>2 DEF ToSet
  <2>5. ASSUME NEW f \in Files, f \notin skipped
        PROVE  \E i \in 1 .. answered : f \in chunks_files[i]
    <3>1. PICK i \in Chunks : PlacedIn(f) = {i}
      BY <2>2, <2>3, <2>5 DEF EveryFileAccountedFor
    <3>2. Chunks = 1 .. answered
      BY <2>2, <2>3 DEF PackTypeOK, Chunks
    <3> QED
      BY <3>1, <3>2 DEF PlacedIn
  <2>6. ASSUME NEW k \in DOMAIN listing, Reviewable(listing[k])
        PROVE  Rank(k) \in Files /\ Listed(Rank(k)) = k
    BY <2>6, RankFacts DEF BodyInv, Files
  <2> QED
    BY <2>2, <2>4, <2>5, <2>6
<1> QED
  BY <1>1, PackInvariant, BodyRefinesPacking, BodyInvariant, PTL

-----------------------------------------------------------------------------
\* A line of the reply is kept if it stands in the section of the last
\* heading over it, and it is there that far behind the heading.
LEMMA KeptIsInSection ==
  ASSUME NEW r \in Seq(STRING), NEW j \in KeptLines(r)
  PROVE  LET o == Over(r, j)
         IN /\ r[o] \in Headings
            /\ o = Latest({i \in Matches(r) : r[i] = r[o]})
            /\ j - o \in 1 .. Len(Section(r, r[o]))
            /\ Section(r, r[o])[j - o] = r[j]
<1> DEFINE o == Over(r, j)
           above == {i \in Matches(r) : i <= j}
           h == r[o]
           is == {i \in Matches(r) : r[i] = h}
           L == Latest(is)
<1>1. /\ j \in 1 .. Len(r) /\ j \notin Matches(r) /\ o # 0 /\ Len(r) \in Nat
      /\ \A k \in DOMAIN r : j < k => r[k] # h
  BY DEF KeptLines
<1>2. \A i \in Matches(r) : i \in 1 .. Len(r) /\ r[i] \in Headings
  BY DEF Matches
<1>3. o \in above /\ \A i \in above : i <= o
  <2>1. above # {} /\ o = Max(above)
    BY <1>1 DEF Over, LastOf
  <2>2. above \subseteq 1 .. Len(r)
    BY <1>2
  <2> HIDE DEF above, o
  <2> QED
    BY <1>1, <2>1, <2>2, LatestFacts
<1>4. o \in Matches(r) /\ o \in 1 .. Len(r) /\ o < j /\ h \in Headings /\ o \in is
  <2>1. o \in Matches(r) /\ o <= j
    BY <1>3
  <2>2. o \in 1 .. Len(r) /\ h \in Headings
    BY <1>2, <2>1
  <2>3. o # j
    BY <1>1, <2>1
  <2> QED
    BY <1>1, <2>1, <2>2, <2>3
<1>5. /\ L \in is /\ \A i \in is : i <= L
      /\ L + Len(Section(r, h)) = Len(r)
           \/ L + Len(Section(r, h)) + 1 \in Matches(r)
      /\ \A d \in 1 .. Len(Section(r, h)) : Section(r, h)[d] = r[L + d]
      /\ Section(r, h) \in Seq(STRING)
  BY <1>4, SectionFacts
<1>6. L = o
  <2>1. L \in Matches(r) /\ L \in 1 .. Len(r) /\ r[L] = h /\ o <= L
    BY <1>2, <1>4, <1>5
  <2>2. ~(j < L)
    BY <1>1, <2>1
  <2>3. L \in above
    BY <1>1, <2>1, <2>2
  <2> QED
    BY <1>3, <1>4, <2>1, <2>3
<1>7. j <= o + Len(Section(r, h))
  <2> DEFINE n == Len(Section(r, h))
  <2>1. n \in Nat
    BY <1>5
  <2>2. CASE o + n = Len(r)
    BY <1>1, <2>2
  <2>3. CASE o + n + 1 \in Matches(r)
    <3>1. ~(o + n + 1 <= j)
      <4>1. ~(o + n + 1 <= o)
        BY <1>4, <2>1
      <4> QED
        BY <1>3, <2>3, <4>1
    <3> HIDE DEF n
    <3>2. j <= o + n
      BY <1>1, <1>4, <2>1, <3>1
    <3> QED
      BY <3>2 DEF n
  <2> QED
    BY <1>5, <1>6, <2>2, <2>3
<1>8. j - o \in 1 .. Len(Section(r, h)) /\ o + (j - o) = j
  <2>1. Len(Section(r, h)) \in Nat
    BY <1>5
  <2> QED
    BY <1>1, <1>4, <1>7, <2>1
<1>9. Section(r, h)[j - o] = r[j]
  BY <1>5, <1>6, <1>8
<1> HIDE DEF L
<1> QED
  BY <1>4, <1>6, <1>8, <1>9 DEF L

\* Each line of a section is a kept line of the reply.
LEMMA SectionIsKept ==
  ASSUME NEW r \in Seq(STRING), NEW h \in Headings,
         NEW d \in 1 .. Len(Section(r, h))
  PROVE  LET L == Latest({i \in Matches(r) : r[i] = h})
         IN /\ L \in 1 .. Len(r) /\ r[L] = h
            /\ L + d \in KeptLines(r)
            /\ Over(r, L + d) = L
<1> DEFINE is == {i \in Matches(r) : r[i] = h}
           L == Latest(is)
           n == Len(Section(r, h))
           above == {i \in Matches(r) : i <= L + d}
<1>1. n \in Nat /\ d \in 1 .. n /\ Len(r) \in Nat
  BY SectionFacts
<1>2. is # {}
  <2>1. SUFFICES ASSUME is = {} PROVE FALSE
    OBVIOUS
  <2>2. Section(r, h) = <<>>
    BY <2>1, SectionFacts
  <2> QED
    BY <2>2
<1>3. /\ L \in is /\ \A i \in is : i <= L
      /\ \A k \in Matches(r) : L < k => L + n < k
      /\ L + n <= Len(r)
  BY <1>2, SectionFacts
<1> HIDE DEF n, L
<1>4. \A i \in Matches(r) : i \in 1 .. Len(r)
  BY DEF Matches
<1>5. L \in Matches(r) /\ L \in 1 .. Len(r) /\ r[L] = h
  BY <1>3, <1>4
<1>6. L + d \in 1 .. Len(r) /\ L < L + d /\ L + d <= L + n
  BY <1>1, <1>3, <1>5
<1>7. \A i \in above : i <= L
  <2> TAKE i \in above
  <2>1. i \in Matches(r) /\ i \in 1 .. Len(r) /\ i <= L + d
    BY <1>4
  <2>2. ~(L + n < i)
    BY <1>1, <1>5, <1>6, <2>1
  <2>3. ~(L < i)
    BY <1>3, <2>1, <2>2
  <2> QED
    BY <1>5, <2>1, <2>3
<1>8. L \in above
  BY <1>5, <1>6
<1>9. L + d \notin Matches(r)
  <2>1. SUFFICES ASSUME L + d \in Matches(r) PROVE FALSE
    OBVIOUS
  <2>2. L + d \in above
    BY <1>6, <2>1
  <2> QED
    BY <1>5, <1>6, <1>7, <2>2
<1>10. Over(r, L + d) = L
  <2>1. above # {} /\ above \subseteq 1 .. Len(r)
    BY <1>4, <1>8
  <2>2. Over(r, L + d) = Max(above)
    BY <2>1 DEF Over, LastOf
  <2> DEFINE m == Max(above)
  <2> HIDE DEF above
  <2>3. m \in above /\ \A k \in above : k <= m
    BY <1>1, <2>1, LatestFacts
  <2> HIDE DEF m
  <2>4. m <= L /\ L <= m /\ m \in 1 .. Len(r)
    BY <1>7, <1>8, <2>1, <2>3
  <2>5. m = L
    BY <1>1, <1>5, <2>4
  <2> QED
    BY <2>2, <2>5 DEF m
<1>11. \A k \in DOMAIN r : L + d < k => r[k] # h
  <2> TAKE k \in DOMAIN r
  <2> HAVE L + d < k
  <2>1. k \in 1 .. Len(r) /\ ~(k <= L)
    BY <1>1, <1>5, <1>6
  <2>2. k \notin is
    BY <1>3, <2>1
  <2>3. r[k] = h => k \in Matches(r)
    BY DEF Matches
  <2> QED
    BY <2>2, <2>3
<1>12. L + d \in KeptLines(r)
  BY <1>5, <1>6, <1>9, <1>10, <1>11 DEF KeptLines
<1> QED
  BY <1>5, <1>10, <1>12 DEF L

\* The text parts of a body are those of its sections.
LEMMA KeptInBody ==
  ASSUME NEW r \in Seq(STRING), NEW t, NEW b \in Seq(Parts), NEW o,
         Laid(t, Headings, o, Parse(r).sections), Len(t) <= Len(b),
         \A k \in 1 .. Len(t) : b[k] = t[k],
         \A k \in 1 .. Len(b) : k > Len(t) => b[k].part # "text"
  PROVE  LET K == {k \in DOMAIN b : b[k].part = "text"}
         IN /\ Cardinality(K) = Cardinality(KeptLines(r))
            /\ \A j \in KeptLines(r) : \E k \in DOMAIN b :
                 /\ b[k] = Part("text", r[j])
                 /\ LET top == LastOf({i \in 1 .. k : b[i].part = "heading"})
                    IN b[top].text = r[Over(r, j)]
<1> DEFINE s == Parse(r).sections
           J == KeptLines(r)
           K == {k \in DOMAIN b : b[k].part = "text"}
           H(j) == r[Over(r, j)]
           D(j) == j - Over(r, j)
           At(j) == o[H(j)] + 1 + D(j)
           m == [j \in J |-> At(j)]
<1>1. /\ t \in Seq(Parts) /\ Len(t) \in Nat /\ Len(b) \in Nat
      /\ DOMAIN b = 1 .. Len(b) /\ Len(r) \in Nat /\ DOMAIN r = 1 .. Len(r)
  BY DEF Laid
<1>2. \A h \in Headings : /\ s[h] = Section(r, h) /\ s[h] \in Seq(STRING)
                          /\ o[h] \in Nat
  BY ParseFacts DEF Laid
<1>3. ASSUME NEW h \in Headings, NEW d \in 1 .. Len(s[h])
      PROVE  /\ d \in Nat /\ d >= 1
             /\ o[h] + 1 + d \in DOMAIN b /\ o[h] + 1 \in DOMAIN b
             /\ b[o[h] + 1 + d] = Part("text", s[h][d])
             /\ b[o[h] + 1] = Part("heading", h)
  <2>1. d \in Nat /\ d >= 1 /\ s[h] # <<>> /\ Len(s[h]) \in Nat
    BY <1>2, <1>3
  <2>2. /\ o[h] + 1 + d \in 1 .. Len(t)
        /\ t[o[h] + 1 + d] = Part("text", s[h][d])
        /\ t[o[h] + 1] = Part("heading", h)
    BY <2>1 DEF Laid
  <2>3. o[h] + 1 \in 1 .. Len(t)
    BY <1>1, <1>2, <2>1, <2>2
  <2>4. \A k \in 1 .. Len(t) : k \in DOMAIN b
    BY <1>1
  <2> QED
    BY <2>1, <2>2, <2>3, <2>4
<1>4. ASSUME NEW j \in J
      PROVE  /\ H(j) \in Headings /\ D(j) \in 1 .. Len(s[H(j)])
             /\ s[H(j)][D(j)] = r[j]
             /\ Over(r, j) = Latest({i \in Matches(r) : r[i] = H(j)})
  BY <1>2, KeptIsInSection
<1>5. J \subseteq 1 .. Len(r)
  BY <1>1 DEF KeptLines
<1>a. ASSUME NEW j \in J
      PROVE  j \in Nat /\ Over(r, j) \in Nat /\ D(j) + Over(r, j) = j
  <2>1. j \in 1 .. Len(r)
    BY <1>5
  <2>2. H(j) \in Headings /\ D(j) \in 1 .. Len(Section(r, H(j)))
    BY <1>2, <1>4
  <2>3. Latest({i \in Matches(r) : r[i] = H(j)}) \in 1 .. Len(r)
    BY <2>2, SectionIsKept
  <2>4. Over(r, j) \in 1 .. Len(r)
    BY <1>4, <2>3
  <2> QED
    BY <1>1, <2>1, <2>4
<1> HIDE DEF s, J
\* The kept lines and the text parts correspond one to one.
<1>6. m \in [J -> K]
  <2> SUFFICES ASSUME NEW j \in J PROVE At(j) \in K
    OBVIOUS
  <2>1. H(j) \in Headings /\ D(j) \in 1 .. Len(s[H(j)])
    BY <1>4
  <2>2. At(j) \in DOMAIN b /\ b[At(j)] = Part("text", s[H(j)][D(j)])
    BY <1>3, <2>1
  <2> QED
    BY <2>2, PartFacts
<1>7. ASSUME NEW i \in J, NEW j \in J, At(i) = At(j)
      PROVE  i = j
  <2>1. /\ H(i) \in Headings /\ D(i) \in 1 .. Len(s[H(i)])
        /\ H(j) \in Headings /\ D(j) \in 1 .. Len(s[H(j)])
    BY <1>4
  <2>2. H(i) = H(j)
    BY <1>7, <2>1 DEF Laid, s
  <2>3. Over(r, i) = Over(r, j)
    <3> DEFINE L(h) == Latest({k \in Matches(r) : r[k] = h})
    <3>1. Over(r, i) = L(H(i)) /\ Over(r, j) = L(H(j))
      BY <1>4
    <3> HIDE DEF L, H
    <3> QED
      BY <2>2, <3>1
  <2>4. D(i) = D(j)
    BY <1>2, <1>3, <1>7, <2>1, <2>2
  <2> HIDE DEF D
  <2> QED
    BY <1>a, <2>3, <2>4
<1>8. ASSUME NEW k \in K
      PROVE  \E j \in J : At(j) = k
  <2>1. k \in 1 .. Len(t) /\ t[k].part = "text"
    BY <1>1
  <2>2. PICK h \in Headings : \E d \in 1 .. Len(s[h]) : k = o[h] + 1 + d
    BY <2>1 DEF Laid, s
  <2>3. PICK d \in 1 .. Len(s[h]) : k = o[h] + 1 + d
    BY <2>2
  <2> DEFINE L == Latest({i \in Matches(r) : r[i] = h})
  <2>4. d \in 1 .. Len(Section(r, h)) /\ d \in Nat
    BY <1>2, <1>3
  <2>5. /\ L \in 1 .. Len(r) /\ r[L] = h
        /\ L + d \in KeptLines(r) /\ Over(r, L + d) = L
    BY <2>4, SectionIsKept
  <2> HIDE DEF L
  <2>6. H(L + d) = h /\ D(L + d) = d
    BY <1>1, <2>4, <2>5
  <2> QED
    BY <2>3, <2>5, <2>6 DEF J
<1>9. Cardinality(K) = Cardinality(J)
  <2>1. IsFiniteSet(J)
    <3>1. 1 \in Int /\ Len(r) \in Int
      BY <1>1
    <3>2. IsFiniteSet(1 .. Len(r))
      BY <3>1, FS_Interval
    <3> QED
      BY <1>5, <3>2, FS_Subset
  <2>2. \A j \in J : m[j] = At(j)
    OBVIOUS
  <2>3. \A i, j \in J : m[i] = m[j] => i = j
    BY <1>7, <2>2
  <2>4. \A k \in K : \E j \in J : m[j] = k
    BY <1>8, <2>2
  <2> HIDE DEF m, K
  <2>5. m \in Bijection(J, K)
    BY <1>6, <2>3, <2>4 DEF Bijection, Injection, IsInjective, Surjection
  <2> QED
    BY <2>1, <2>5, FS_Bijection DEF ExistsBijection
\* Nothing but text is between a line and its heading.
<1>10. ASSUME NEW j \in J
       PROVE  \E k \in DOMAIN b :
                /\ b[k] = Part("text", r[j])
                /\ LET top == LastOf({i \in 1 .. k : b[i].part = "heading"})
                   IN b[top].text = r[Over(r, j)]
  <2> DEFINE h == H(j)
             d == D(j)
             is == {i \in 1 .. At(j) : b[i].part = "heading"}
             top == o[h] + 1
  <2>1. h \in Headings /\ d \in 1 .. Len(s[h]) /\ s[h][d] = r[j]
    BY <1>4
  <2>2. /\ d \in Nat /\ d >= 1 /\ At(j) = top + d /\ top \in Nat /\ top >= 1
        /\ At(j) \in DOMAIN b /\ b[At(j)] = Part("text", r[j])
        /\ b[top] = Part("heading", h)
    <3>1. /\ d \in Nat /\ d >= 1 /\ At(j) \in DOMAIN b
          /\ b[At(j)] = Part("text", s[h][d]) /\ b[top] = Part("heading", h)
      BY <1>3, <2>1
    <3>2. o[h] \in Nat
      BY <1>2, <2>1
    <3> HIDE DEF h, d
    <3>3. top \in Nat /\ top >= 1
      BY <3>2
    <3> QED
      BY <2>1, <3>1, <3>3 DEF h, d
  <2>3. ASSUME NEW i \in is PROVE i <= top
    <3>1. SUFFICES ASSUME i > top PROVE FALSE
      BY <2>2
    <3>2. i - top \in 1 .. d /\ i = top + (i - top)
      BY <2>2, <3>1
    <3>3. d <= Len(s[h]) /\ Len(s[h]) \in Nat
      BY <1>2, <2>1
    <3>4. i - top \in 1 .. Len(s[h])
      BY <2>2, <3>2, <3>3
    <3>5. b[i] = Part("text", s[h][i - top])
      BY <1>3, <2>1, <3>2, <3>4
    <3>6. b[i].part = "heading" /\ b[i].part = "text"
      BY <3>5, PartFacts
    <3> QED
      BY <3>6
  <2>4. top \in is
    BY <2>2, PartFacts
  <2>5. is \subseteq 1 .. At(j) /\ At(j) \in Nat
    BY <2>2
  <2> DEFINE M == Max(is)
  <2> HIDE DEF is, top, M, h, d
  <2>6. M \in is /\ \A i \in is : i <= M
    BY <2>4, <2>5, LatestFacts DEF M
  <2>7. M \in Nat /\ M <= top /\ top <= M
    BY <2>3, <2>4, <2>5, <2>6
  <2>8. LastOf(is) = top
    <3>1. M = top
      BY <2>2, <2>7
    <3> QED
      BY <2>4, <3>1 DEF LastOf, M
  <2>9. b[top].text = h
    BY <2>2, PartFacts
  <2> QED
    BY <2>2, <2>8, <2>9 DEF is, h
<1> QED
  BY <1>9, <1>10 DEF J

\* What the model said is in the posted review, each line once and under its
\* heading, except what precedes the first heading or stands under a heading
\* that comes again; a reply without headings is quoted.
THEOREM RepliesAreKept == BodySpec => []ReplyIsKept
<1>1. PackInv /\ BodyInv => ReplyIsKept
  <2> SUFFICES ASSUME PackInv, BodyInv, pc = "done", ~Truncated
               PROVE  LET r == review.raw
                      IN IF Matches(r) = {}
                           THEN SubSeq(body, 2, Len(r) + 1) = Lines("quote", r)
                           ELSE /\ Cardinality({k \in DOMAIN body : TextAt(k)})
                                     = Cardinality(KeptLines(r))
                                /\ \A j \in KeptLines(r) : \E k \in DOMAIN body :
                                     /\ body[k] = Part("text", r[j])
                                     /\ body[HeadingAbove(k)].text
                                          = r[Over(r, j)]
    BY DEF ReplyIsKept
  <2>1. PICK r \in Seq(STRING) :
          /\ review = Parse(r)
          /\ body = ReviewText(Parse(r))
                      \o SkippedText(Parse(r)) \o <<Footer>>
    BY BodyOfReply
  <2>2. review.raw = r /\ (Parse(r).parse_failed <=> Matches(r) = {})
    BY <2>1, ParseFacts
  <2> DEFINE t == ReviewText(Parse(r))
  <2>3. /\ t \in Seq(Parts) /\ body \in Seq(Parts) /\ Len(t) <= Len(body)
        /\ \A k \in 1 .. Len(t) : body[k] = t[k]
        /\ \A k \in 1 .. Len(body) : k > Len(t) => body[k].part # "text"
    <3>1. PackTypeOK
      BY DEF PackInv
    <3> QED
      BY <2>1, <3>1, WholeBody
  <2> HIDE DEF t
  <2>4. CASE Matches(r) = {}
    <3> DEFINE q == Lines("quote", r)
               c == SubSeq(body, 2, Len(r) + 1)
    <3>1. /\ Len(t) = 1 + Len(r) /\ Len(r) \in Nat
          /\ \A i \in 1 .. Len(r) : t[1 + i] = Part("quote", r[i])
      BY <2>2, <2>4, QuoteFacts DEF t
    <3>2. /\ q \in Seq(Parts) /\ Len(q) = Len(r)
          /\ \A i \in 1 .. Len(r) : q[i] = Part("quote", r[i])
      <4>1. "quote" \in Words
        BY DEF Words
      <4> QED
        BY <4>1, LinesAreParts
    <3>3. /\ c \in Seq(Parts) /\ Len(c) = Len(r)
          /\ \A i \in 1 .. Len(r) : c[i] = body[1 + i]
      <4>1. Len(body) \in Nat /\ Len(r) + 1 <= Len(body)
        BY <2>3, <3>1
      <4> QED
        BY <2>3, <3>1, <4>1
    <3>4. \A i \in 1 .. Len(r) : 1 + i \in 1 .. Len(t)
      BY <3>1
    <3> HIDE DEF q, c
    <3>5. \A i \in 1 .. Len(c) : c[i] = q[i]
      BY <2>3, <3>1, <3>2, <3>3, <3>4
    <3>6. c = q
      BY <3>2, <3>3, <3>5, SeqEqual
    <3> QED
      BY <2>2, <2>4, <3>6 DEF c, q
  <2>5. CASE Matches(r) # {}
    <3>1. Parse(r).sections \in [Headings -> Seq(STRING)]
      BY ParseFacts
    <3>2. PICK o : Laid(t, Headings, o, Parse(r).sections)
      BY <2>2, <2>5, <3>1, ReviewIsLaid DEF t
    <3> DEFINE K == {k \in DOMAIN body : body[k].part = "text"}
    <3>3. /\ Cardinality(K) = Cardinality(KeptLines(r))
          /\ \A j \in KeptLines(r) : \E k \in DOMAIN body :
               /\ body[k] = Part("text", r[j])
               /\ LET top == LastOf({i \in 1 .. k : body[i].part = "heading"})
                  IN body[top].text = r[Over(r, j)]
      BY <2>3, <3>2, KeptInBody
    <3> QED
      BY <2>2, <2>5, <3>3 DEF TextAt, HeadingAbove
  <2> QED
    BY <2>4, <2>5
<1> QED
  BY <1>1, PackInvariant, BodyRefinesPacking, BodyInvariant, PTL

=============================================================================
