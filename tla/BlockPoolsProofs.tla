-------------------------- MODULE BlockPoolsProofs --------------------------
(***************************************************************************)
(* Proofs about the memory pool, for every number of threads, bins, lives  *)
(* and segments:                                                           *)
(*                                                                         *)
(*   TypeCorrect       fields are well formed, caches within their limit   *)
(*   Conserved         every block is in exactly one place, once           *)
(*   AccountsCorrect   the counters of Finalize are the blocks not back    *)
(*   UnmapCorrect      memory is unmapped with nobody on it                *)
(*   PoolIsBlockStore  the pool implements BlockStore                      *)
(*                                                                         *)
(* They rest on one inductive invariant, PoolInv.  Its parts are proved    *)
(* one after the other, each step by step of the pool: the types (Types,   *)
(* Sized), where threads and caches are in their lives (Controlled), where *)
(* blocks are (BlocksConserved), the counters (Counted), and the memory    *)
(* returned (UnmapIsSafe).  First come facts about the arithmetic of the   *)
(* bins, about the chunks a segment is cut into and about sums over sets.  *)
(***************************************************************************)
EXTENDS BlockPools, FiniteSetTheorems, SequenceTheorems, WellFoundedInduction, TLAPS

-----------------------------------------------------------------------------
(* The numbers of a bin.                                                   *)

LEMMA AligningUp ==
    ASSUME NEW n \in Nat
    PROVE  AlignUpSize(n) \in Nat /\ (n > 0 => AlignUpSize(n) > 0)
<1>1. Alignment \in Nat \ {0}
  BY BinsAssumption
<1> DEFINE q == (n + Alignment - 1) \div Alignment
<1>2. q \in Nat /\ (n > 0 => q > 0)
  BY <1>1
<1> HIDE DEF q
<1>3. q * Alignment \in Nat /\ (q > 0 => q * Alignment > 0)
  BY <1>1, <1>2
<1> QED BY <1>2, <1>3 DEF AlignUpSize, q

LEMMA BlockSizes == ASSUME NEW b \in Bins PROVE BlockSize(b) \in Nat \ {0}
<1>1. MinBinLog + b \in Nat
  BY BinsAssumption DEF Bins
<1>2. 2 ^ (MinBinLog + b) \in Int
  BY <1>1
<1> QED BY <1>2, BlockSizeAssumption DEF BlockSize

LEMMA Batches ==
    ASSUME NEW b \in Bins
    PROVE  /\ CacheCap(b) \in Nat /\ Batch(b) \in Nat \ {0}
           /\ Batch(b) - 1 <= CacheCap(b)
<1>1. /\ CacheBytesPerBin \in Nat /\ CacheCapBlockLimit \in Nat
      /\ BatchesPerCache \in Nat \ {0} /\ CacheCapMinBlocks \in Nat
      /\ CacheCapMinBlocks >= BatchesPerCache
  BY BinsAssumption
<1> DEFINE fits == CacheBytesPerBin \div BlockSize(b)
<1>2. fits \in Nat
  BY <1>1, BlockSizes
<1> HIDE DEF fits
<1>3. CacheCap(b) \in Nat
  BY <1>1, <1>2 DEF CacheCap, fits
<1> DEFINE cap == CacheCap(b)
<1> HIDE DEF cap
<1>4. ASSUME cap >= CacheCapMinBlocks
      PROVE  cap \div BatchesPerCache \in Nat \ {0} /\ cap \div BatchesPerCache <= cap
  BY <1>1, <1>3, <1>4 DEF cap
<1> QED BY <1>1, <1>3, <1>4 DEF Batch, cap

LEMMA Segments ==
    ASSUME NEW b \in Bins
    PROVE  /\ Stride(b) \in Nat
           /\ BlocksPerSegment(b) \in Nat /\ BlocksPerSegment(b) >= 2
           /\ Preallocated(b) \in Nat
<1>1. Stride(b) \in Nat \ {0}
  <2>1. AlignUpSize(HeaderBytes) \in Nat
    BY AligningUp, BinsAssumption
  <2>2. AlignUpSize(HeaderBytes) + BlockSize(b) \in Nat
        /\ AlignUpSize(HeaderBytes) + BlockSize(b) > 0
    BY <2>1, BlockSizes
  <2> QED BY <2>2, AligningUp DEF Stride
<1> DEFINE fits == SegmentTargetBytes \div Stride(b)
<1>2. fits \in Nat
  BY <1>1, BinsAssumption
<1> HIDE DEF fits
<1>3. BlocksPerSegment(b) \in Nat /\ BlocksPerSegment(b) >= 2
  BY <1>2, Batches DEF BlocksPerSegment, fits
<1>4. Initial[b] \in Nat
  BY PoolAssumption
<1> QED BY <1>1, <1>3, <1>4 DEF Preallocated

LEMMA Bytes ==
    ASSUME NEW b \in Bins, NEW n \in Nat
    PROVE  BytesOf(b, n) \in Nat
<1>1. Stride(b) \in Nat
  BY Segments
<1> QED BY <1>1 DEF BytesOf

-----------------------------------------------------------------------------
(* Chunks of blocks.                                                       *)

OneTime(chunk) == \A k, l \in DOMAIN chunk : chunk[k] = chunk[l] => k = l

LEMMA PushedChunk ==
    ASSUME NEW X, NEW chunks \in Seq(Seq(X)), NEW c \in Seq(X)
    PROVE  /\ <<c>> \o chunks \in Seq(Seq(X))
           /\ DOMAIN (<<c>> \o chunks) = 1 .. Len(chunks) + 1
           /\ (<<c>> \o chunks)[1] = c
           /\ \A i \in DOMAIN chunks : (<<c>> \o chunks)[i + 1] = chunks[i]
           /\ \A i \in DOMAIN (<<c>> \o chunks) :
                 i # 1 => i - 1 \in DOMAIN chunks /\ (<<c>> \o chunks)[i] = chunks[i - 1]
           /\ BlocksOf(<<c>> \o chunks) = Range(c) \cup BlocksOf(chunks)
           /\ NoneTwice(chunks) /\ OneTime(c) /\ Range(c) \cap BlocksOf(chunks) = {}
                 => NoneTwice(<<c>> \o chunks)
<1> DEFINE s == <<c>> \o chunks
<1>1. /\ s \in Seq(Seq(X)) /\ Len(s) = Len(chunks) + 1 /\ DOMAIN s = 1 .. Len(chunks) + 1
      /\ s[1] = c /\ \A i \in DOMAIN chunks : i + 1 \in DOMAIN s /\ s[i + 1] = chunks[i]
  OBVIOUS
<1>2. \A i \in DOMAIN s : i # 1 => i - 1 \in DOMAIN chunks /\ s[i] = chunks[i - 1]
  BY <1>1
<1> HIDE DEF s
<1>3. 1 \in DOMAIN s
  BY <1>1
<1>4. BlocksOf(s) = Range(c) \cup BlocksOf(chunks)
  <2>1. ASSUME NEW x \in BlocksOf(s) PROVE x \in Range(c) \cup BlocksOf(chunks)
    <3>1. PICK i \in DOMAIN s : x \in Range(s[i])
      BY <2>1 DEF BlocksOf
    <3>2. CASE i = 1
      BY <1>1, <3>1, <3>2
    <3>3. CASE i # 1
      BY <1>2, <3>1, <3>3 DEF BlocksOf
    <3> QED BY <3>2, <3>3
  <2>2. ASSUME NEW x \in Range(c) PROVE x \in BlocksOf(s)
    BY <1>1, <1>3 DEF BlocksOf
  <2>3. ASSUME NEW x \in BlocksOf(chunks) PROVE x \in BlocksOf(s)
    <3>1. PICK i \in DOMAIN chunks : x \in Range(chunks[i])
      BY DEF BlocksOf
    <3> QED BY <1>1, <3>1 DEF BlocksOf
  <2> QED BY <2>1, <2>2, <2>3
<1>5. ASSUME NoneTwice(chunks), OneTime(c), Range(c) \cap BlocksOf(chunks) = {}
      PROVE  NoneTwice(s)
  <2>1. ASSUME NEW i \in DOMAIN s, NEW j \in DOMAIN s,
               NEW k \in DOMAIN s[i], NEW l \in DOMAIN s[j], s[i][k] = s[j][l]
        PROVE  i = j /\ k = l
    <3>1. CASE i = 1 /\ j = 1
      BY <1>1, <1>5, <2>1, <3>1 DEF OneTime
    <3>2. CASE i = 1 /\ j # 1
      <4>1. s[i][k] \in Range(c)
        BY <1>1, <3>2 DEF Range
      <4>2. s[j][l] \in BlocksOf(chunks)
        BY <1>2, <3>2 DEF BlocksOf, Range
      <4> QED BY <1>5, <2>1, <4>1, <4>2
    <3>3. CASE i # 1 /\ j = 1
      <4>1. s[j][l] \in Range(c)
        BY <1>1, <3>3 DEF Range
      <4>2. s[i][k] \in BlocksOf(chunks)
        BY <1>2, <3>3 DEF BlocksOf, Range
      <4> QED BY <1>5, <2>1, <4>1, <4>2
    <3>4. CASE i # 1 /\ j # 1
      <4>1. /\ i - 1 \in DOMAIN chunks /\ j - 1 \in DOMAIN chunks
            /\ s[i] = chunks[i - 1] /\ s[j] = chunks[j - 1]
        BY <1>2, <3>4
      <4>2. i - 1 = j - 1 /\ k = l
        BY <1>5, <2>1, <4>1 DEF NoneTwice
      <4> QED BY <1>1, <4>2
    <3> QED BY <3>1, <3>2, <3>3, <3>4
  <2> QED BY <2>1 DEF NoneTwice
<1> QED BY <1>1, <1>2, <1>4, <1>5 DEF s

LEMMA PoppedChunk ==
    ASSUME NEW X, NEW chunks \in Seq(Seq(X)), chunks # <<>>
    PROVE  /\ Head(chunks) \in Seq(X) /\ Head(chunks) = chunks[1]
           /\ Tail(chunks) \in Seq(Seq(X)) /\ 1 \in DOMAIN chunks
           /\ \A i \in DOMAIN Tail(chunks) :
                 i + 1 \in DOMAIN chunks /\ Tail(chunks)[i] = chunks[i + 1]
           /\ BlocksOf(chunks) = Range(Head(chunks)) \cup BlocksOf(Tail(chunks))
           /\ NoneTwice(chunks) =>
                 /\ NoneTwice(Tail(chunks)) /\ OneTime(Head(chunks))
                 /\ Range(Head(chunks)) \cap BlocksOf(Tail(chunks)) = {}
<1> DEFINE s == Tail(chunks)
<1>1. /\ s \in Seq(Seq(X)) /\ Head(chunks) = chunks[1] /\ 1 \in DOMAIN chunks
      /\ Head(chunks) \in Seq(X) /\ DOMAIN s \subseteq Nat \ {0} /\ DOMAIN chunks \subseteq Nat \ {0}
      /\ \A i \in DOMAIN s : i + 1 \in DOMAIN chunks /\ s[i] = chunks[i + 1]
      /\ \A i \in DOMAIN chunks : i # 1 => i - 1 \in DOMAIN s /\ s[i - 1] = chunks[i]
  OBVIOUS
<1> HIDE DEF s
<1>2. BlocksOf(chunks) = Range(Head(chunks)) \cup BlocksOf(s)
  <2>1. ASSUME NEW x \in BlocksOf(chunks) PROVE x \in Range(Head(chunks)) \cup BlocksOf(s)
    <3>1. PICK i \in DOMAIN chunks : x \in Range(chunks[i])
      BY <2>1 DEF BlocksOf
    <3>2. CASE i = 1
      BY <1>1, <3>1, <3>2
    <3>3. CASE i # 1
      BY <1>1, <3>1, <3>3 DEF BlocksOf
    <3> QED BY <3>2, <3>3
  <2>2. ASSUME NEW x \in Range(Head(chunks)) PROVE x \in BlocksOf(chunks)
    BY <1>1 DEF BlocksOf
  <2>3. ASSUME NEW x \in BlocksOf(s) PROVE x \in BlocksOf(chunks)
    <3>1. PICK i \in DOMAIN s : x \in Range(s[i])
      BY DEF BlocksOf
    <3> QED BY <1>1, <3>1 DEF BlocksOf
  <2> QED BY <2>1, <2>2, <2>3
<1>3. ASSUME NoneTwice(chunks)
      PROVE  /\ NoneTwice(s) /\ OneTime(Head(chunks))
             /\ Range(Head(chunks)) \cap BlocksOf(s) = {}
  <2>1. ASSUME NEW i \in DOMAIN s, NEW j \in DOMAIN s,
               NEW k \in DOMAIN s[i], NEW l \in DOMAIN s[j], s[i][k] = s[j][l]
        PROVE  i = j /\ k = l
    <3>1. i + 1 = j + 1 /\ k = l
      BY SMTT(30), <1>1, <1>3, <2>1 DEF NoneTwice
    <3> QED BY <1>1, <3>1
  <2>2. OneTime(Head(chunks))
    BY <1>1, <1>3 DEF OneTime, NoneTwice
  <2>3. ASSUME NEW x, x \in Range(Head(chunks)), x \in BlocksOf(s) PROVE FALSE
    <3>1. PICK k \in DOMAIN chunks[1] : x = chunks[1][k]
      BY <1>1, <2>3 DEF Range
    <3>2. PICK i \in DOMAIN s : x \in Range(s[i])
      BY <2>3 DEF BlocksOf
    <3>3. PICK l \in DOMAIN s[i] : x = s[i][l]
      BY <3>2 DEF Range
    <3>4. /\ i + 1 \in DOMAIN chunks /\ 1 \in DOMAIN chunks
          /\ l \in DOMAIN chunks[i + 1] /\ chunks[1][k] = chunks[i + 1][l]
      BY <1>1, <3>1, <3>3
    <3>5. 1 = i + 1
      BY <1>3, <3>1, <3>4 DEF NoneTwice
    <3> QED BY <1>1, <3>5
  <2> QED BY <2>1, <2>2, <2>3 DEF NoneTwice
<1> QED BY <1>1, <1>2, <1>3 DEF s

(* A list is cut in two.                                                   *)
LEMMA CutList ==
    ASSUME NEW X, NEW s \in Seq(X), NEW n \in 0 .. Len(s)
    PROVE  /\ Take(s, n) \in Seq(X) /\ Len(Take(s, n)) = n
           /\ Drop(s, n) \in Seq(X) /\ Len(Drop(s, n)) = Len(s) - n
           /\ Range(s) = Range(Take(s, n)) \cup Range(Drop(s, n))
           /\ OneTime(s) =>
                 /\ OneTime(Take(s, n)) /\ OneTime(Drop(s, n))
                 /\ Range(Take(s, n)) \cap Range(Drop(s, n)) = {}
<1> DEFINE a == Take(s, n)
           d == Drop(s, n)
<1>1. /\ a \in Seq(X) /\ Len(a) = n /\ DOMAIN a = 1 .. n /\ DOMAIN s = 1 .. Len(s)
      /\ \A i \in 1 .. n : i \in DOMAIN s /\ a[i] = s[i]
  BY DEF Take
<1>2. /\ d \in Seq(X) /\ Len(d) = Len(s) - n /\ DOMAIN d = 1 .. Len(s) - n
      /\ \A i \in 1 .. Len(s) - n : i + n \in DOMAIN s /\ d[i] = s[i + n]
  BY DEF Drop
<1> HIDE DEF a, d
<1>3. Range(s) = Range(a) \cup Range(d)
  <2>1. ASSUME NEW i \in DOMAIN s PROVE s[i] \in Range(a) \cup Range(d)
    <3>1. CASE i <= n
      BY <1>1, <3>1 DEF Range
    <3>2. CASE i > n
      <4>1. i - n \in DOMAIN d /\ d[i - n] = s[i]
        BY <1>1, <1>2, <3>2
      <4> QED BY <4>1 DEF Range
    <3> QED BY <1>1, <3>1, <3>2
  <2>2. ASSUME NEW i \in DOMAIN a PROVE a[i] \in Range(s)
    BY <1>1 DEF Range
  <2>3. ASSUME NEW i \in DOMAIN d PROVE d[i] \in Range(s)
    BY <1>2 DEF Range
  <2>4. Range(s) \subseteq Range(a) \cup Range(d)
    BY <2>1 DEF Range
  <2>5. Range(a) \subseteq Range(s)
    BY <2>2 DEF Range
  <2>6. Range(d) \subseteq Range(s)
    BY <2>3 DEF Range
  <2> QED BY <2>4, <2>5, <2>6
<1>4. ASSUME OneTime(s)
      PROVE  OneTime(a) /\ OneTime(d) /\ Range(a) \cap Range(d) = {}
  <2>1. OneTime(a)
    BY <1>1, <1>4 DEF OneTime
  <2>2. OneTime(d)
    <3> SUFFICES ASSUME NEW k \in DOMAIN d, NEW l \in DOMAIN d, d[k] = d[l]
                 PROVE  k = l
      BY DEF OneTime
    <3>1. k \in Int /\ l \in Int /\ n \in Int /\ Len(s) \in Nat
      BY <1>2
    <3>2. k + n \in DOMAIN s /\ l + n \in DOMAIN s /\ s[k + n] = s[l + n]
      BY <1>2
    <3>3. k + n = l + n
      BY <1>4, <3>2 DEF OneTime
    <3> QED BY <3>1, <3>3
  <2>3. ASSUME NEW i \in DOMAIN a, NEW j \in DOMAIN d PROVE a[i] # d[j]
    <3>1. i \in DOMAIN s /\ j + n \in DOMAIN s /\ a[i] = s[i] /\ d[j] = s[j + n] /\ i # j + n
      BY <1>1, <1>2
    <3> QED BY <1>4, <3>1 DEF OneTime
  <2> QED BY <2>1, <2>2, <2>3 DEF Range
<1> QED BY <1>1, <1>2, <1>3, <1>4 DEF a, d

(* The head of a list and the rest.                                        *)
LEMMA HeadOfList ==
    ASSUME NEW X, NEW s \in Seq(X), s # <<>>
    PROVE  /\ Head(s) \in X /\ Tail(s) \in Seq(X) /\ Len(Tail(s)) = Len(s) - 1
           /\ Len(s) \in Nat
           /\ Range(s) = {Head(s)} \cup Range(Tail(s))
           /\ OneTime(s) => OneTime(Tail(s)) /\ Head(s) \notin Range(Tail(s))
<1> DEFINE d == Tail(s)
<1>1. /\ Len(s) \in Nat /\ 1 \in DOMAIN s /\ Head(s) = s[1] /\ Head(s) \in X
      /\ d \in Seq(X) /\ Len(d) = Len(s) - 1
      /\ DOMAIN s = 1 .. Len(s) /\ DOMAIN d = 1 .. Len(s) - 1
      /\ \A i \in DOMAIN d : i + 1 \in DOMAIN s /\ d[i] = s[i + 1]
  OBVIOUS
<1>2. \A i \in DOMAIN s : i # 1 => i - 1 \in DOMAIN d /\ d[i - 1] = s[i]
  BY <1>1
<1> HIDE DEF d
<1>3. Range(s) = {Head(s)} \cup Range(d)
  <2>1. ASSUME NEW i \in DOMAIN s PROVE s[i] \in {Head(s)} \cup Range(d)
    BY <1>1, <1>2 DEF Range
  <2>2. ASSUME NEW i \in DOMAIN d PROVE d[i] \in Range(s)
    BY <1>1 DEF Range
  <2>3. Head(s) \in Range(s)
    BY <1>1 DEF Range
  <2> QED BY <2>1, <2>2, <2>3 DEF Range
<1>4. ASSUME OneTime(s) PROVE OneTime(d) /\ Head(s) \notin Range(d)
  <2>1. OneTime(d)
    BY <1>1, <1>4 DEF OneTime
  <2>2. ASSUME NEW i \in DOMAIN d PROVE d[i] # Head(s)
    BY <1>1, <1>4 DEF OneTime
  <2> QED BY <2>1, <2>2 DEF Range
<1> QED BY <1>1, <1>3, <1>4 DEF d

LEMMA GrownList ==
    ASSUME NEW X, NEW s \in Seq(X), NEW x \in X
    PROVE  /\ <<x>> \o s \in Seq(X) /\ Len(<<x>> \o s) = Len(s) + 1
           /\ Len(s) \in Nat
           /\ Range(<<x>> \o s) = {x} \cup Range(s)
           /\ OneTime(s) /\ x \notin Range(s) => OneTime(<<x>> \o s)
<1> DEFINE d == <<x>> \o s
<1>1. /\ d \in Seq(X) /\ Len(d) = Len(s) + 1 /\ Len(s) \in Nat /\ d[1] = x
      /\ DOMAIN d = 1 .. Len(s) + 1 /\ DOMAIN s = 1 .. Len(s) /\ 1 \in DOMAIN d
      /\ \A i \in DOMAIN s : i + 1 \in DOMAIN d /\ d[i + 1] = s[i]
  OBVIOUS
<1>2. \A i \in DOMAIN d : i # 1 => i - 1 \in DOMAIN s /\ s[i - 1] = d[i]
  BY <1>1
<1> HIDE DEF d
<1>3. Range(d) = {x} \cup Range(s)
  <2>1. ASSUME NEW i \in DOMAIN d PROVE d[i] \in {x} \cup Range(s)
    BY <1>1, <1>2 DEF Range
  <2>2. ASSUME NEW i \in DOMAIN s PROVE s[i] \in Range(d)
    BY <1>1 DEF Range
  <2>3. x \in Range(d)
    BY <1>1 DEF Range
  <2> QED BY <2>1, <2>2, <2>3 DEF Range
<1>4. ASSUME OneTime(s), x \notin Range(s) PROVE OneTime(d)
  <2>1. ASSUME NEW k \in DOMAIN d, NEW l \in DOMAIN d, d[k] = d[l] PROVE k = l
    <3>1. CASE k = 1 \/ l = 1
      BY <1>1, <1>2, <1>4, <2>1, <3>1 DEF Range
    <3>2. CASE k # 1 /\ l # 1
      <4>1. k - 1 = l - 1
        BY <1>2, <1>4, <2>1, <3>2 DEF OneTime
      <4> QED BY <1>1, <4>1
    <3> QED BY <3>1, <3>2
  <2> QED BY <2>1 DEF OneTime
<1> QED BY <1>1, <1>3, <1>4 DEF d

(* One of several lists is replaced.                                       *)
Replaces(g, f, b, s) ==
    /\ DOMAIN f = Bins /\ DOMAIN g = Bins /\ b \in Bins
    /\ g[b] = s /\ \A c \in Bins : c # b => g[c] = f[c]

LEMMA ReplacedList ==
    ASSUME NEW f, NEW g, NEW b, NEW s, Replaces(g, f, b, s), NoneTwice(f)
    PROVE  /\ OneTime(f[b]) /\ Range(f[b]) \subseteq BlocksOf(f)
           /\ BlocksOf(g) = (BlocksOf(f) \ Range(f[b])) \cup Range(s)
           /\ OneTime(s) /\ Range(s) \cap (BlocksOf(f) \ Range(f[b])) = {}
                 => NoneTwice(g)
<1>1. g[b] = s /\ (\A c \in Bins : c # b => g[c] = f[c]) /\ DOMAIN g = Bins
      /\ DOMAIN f = Bins /\ b \in Bins
  BY DEF Replaces
<1>2. OneTime(f[b]) /\ Range(f[b]) \subseteq BlocksOf(f)
  BY <1>1 DEF OneTime, NoneTwice, BlocksOf
<1>3. ASSUME NEW c \in Bins, c # b, NEW x \in Range(f[c])
      PROVE  x \in BlocksOf(f) \ Range(f[b])
  BY <1>1, <1>3 DEF Range, NoneTwice, BlocksOf
<1>4. ASSUME NEW x \in BlocksOf(f) \ Range(f[b]) PROVE \E c \in Bins : c # b /\ x \in Range(f[c])
  BY <1>1 DEF BlocksOf
<1>5. BlocksOf(g) = (BlocksOf(f) \ Range(f[b])) \cup Range(s)
  <2>1. ASSUME NEW x \in BlocksOf(g) PROVE x \in (BlocksOf(f) \ Range(f[b])) \cup Range(s)
    <3>1. PICK c \in Bins : x \in Range(g[c])
      BY <1>1 DEF BlocksOf
    <3> QED BY <1>1, <1>3, <3>1
  <2>2. ASSUME NEW x \in Range(s) PROVE x \in BlocksOf(g)
    BY <1>1 DEF BlocksOf
  <2>3. ASSUME NEW x \in BlocksOf(f) \ Range(f[b]) PROVE x \in BlocksOf(g)
    BY <1>1, <1>4 DEF BlocksOf
  <2> QED BY <2>1, <2>2, <2>3
<1>6. ASSUME OneTime(s), Range(s) \cap (BlocksOf(f) \ Range(f[b])) = {}
      PROVE  NoneTwice(g)
  <2>1. ASSUME NEW i \in Bins, NEW j \in Bins,
               NEW k \in DOMAIN g[i], NEW l \in DOMAIN g[j], g[i][k] = g[j][l]
        PROVE  i = j /\ k = l
    <3>0. g[i][k] \in Range(g[i]) /\ g[j][l] \in Range(g[j])
      BY DEF Range
    <3>1. CASE i = b /\ j = b
      BY <1>1, <1>6, <2>1, <3>1 DEF OneTime
    <3>2. CASE i = b /\ j # b
      <4>1. g[j][l] \in BlocksOf(f) \ Range(f[b])
        BY <1>1, <1>3, <3>0, <3>2
      <4> QED BY <1>1, <1>6, <2>1, <3>0, <3>2, <4>1
    <3>3. CASE i # b /\ j = b
      <4>1. g[i][k] \in BlocksOf(f) \ Range(f[b])
        BY <1>1, <1>3, <3>0, <3>3
      <4> QED BY <1>1, <1>6, <2>1, <3>0, <3>3, <4>1
    <3>4. CASE i # b /\ j # b
      BY <1>1, <2>1, <3>4 DEF NoneTwice
    <3> QED BY <3>1, <3>2, <3>3, <3>4
  <2> QED BY <1>1, <2>1 DEF NoneTwice
<1> QED BY <1>2, <1>5, <1>6

-----------------------------------------------------------------------------
(* What a new segment is carved into.                                      *)

LEMMA Product ==
    ASSUME NEW a \in Nat, NEW b \in Nat, NEW k \in Nat, a <= b
    PROVE  a * k \in Nat /\ b * k \in Nat /\ a * k <= b * k
<1>1. PICK d \in Nat : b = a + d
  BY b - a \in Nat
<1>2. b * k = a * k + d * k /\ a * k \in Nat /\ d * k \in Nat
  BY <1>1
<1> QED BY <1>2

LEMMA Successor ==
    ASSUME NEW a \in Int, NEW k \in Nat
    PROVE  (a - 1) * k = a * k - k /\ (a + 1) * k = a * k + k /\ a * k \in Int
OBVIOUS

(* How many chunks there are.                                              *)
LEMMA ChunkCount ==
    ASSUME NEW count \in Nat, NEW size \in Nat \ {0}, NEW n,
           n = (count + size - 1) \div size
    PROVE  n \in Nat /\ n * size >= count /\ (n > 0 => n * size - size < count)
           /\ (count > 0 => n > 0)
OBVIOUS

LEMMA Carved ==
    ASSUME NEW first \in Nat, NEW count \in Nat, NEW b \in Bins
    PROVE  LET chunks == Chunks(first, b, count)
               ids    == first .. first + count - 1
           IN  /\ chunks \in Seq(Seq(ids) \ {<<>>})
               /\ \A i \in DOMAIN chunks : Len(chunks[i]) <= Batch(b)
               /\ BlocksOf(chunks) = ids
               /\ NoneTwice(chunks)
               /\ count > 0 => chunks # <<>>
<1> DEFINE size == Batch(b)
           n == (count + size - 1) \div size
           last(i) == IF i = n THEN count ELSE i * size
           ids == first .. first + count - 1
           chunks == Chunks(first, b, count)
<1>1. size \in Nat \ {0}
  BY Batches
<1> HIDE DEF size
<1>2. n \in Nat /\ n * size >= count /\ (n > 0 => n * size - size < count)
      /\ (count > 0 => n > 0)
  BY <1>1, ChunkCount
<1> HIDE DEF n
<1>3. chunks = [i \in 1 .. n |->
                  [j \in 1 .. last(i) - (i - 1) * size |-> first + last(i) - j]]
  BY DEF Chunks, size, n
(* The bounds of a chunk.                                                  *)
<1>4. ASSUME NEW i \in 1 .. n
      PROVE  /\ last(i) \in Nat /\ (i - 1) * size \in Nat
             /\ last(i) - (i - 1) * size \in 1 .. size /\ last(i) <= count
             /\ last(i) <= i * size
  <2>1. (i - 1) * size \in Nat /\ i * size \in Nat /\ (i - 1) * size = i * size - size
    BY <1>1, <1>2, Product, Successor
  <2>2. CASE i = n
    BY <1>1, <1>2, <2>1, <2>2
  <2>3. CASE i # n
    <3>1. i * size <= n * size - size
      <4>1. i <= n - 1 /\ n - 1 \in Nat
        BY <1>2, <2>3
      <4>2. i * size <= (n - 1) * size
        BY <1>1, <4>1, Product
      <4> QED BY <1>1, <1>2, <4>2, Successor
    <3>2. n > 0
      BY <1>2
    <3>3. n * size \in Int
      BY <1>1, <1>2
    <3> QED BY <1>1, <1>2, <2>1, <2>3, <3>1, <3>2, <3>3
  <2> QED BY <2>2, <2>3
<1>5. ASSUME NEW i \in 1 .. n, NEW k \in 1 .. n, i < k
      PROVE  last(i) <= (k - 1) * size
  <2>1. i * size <= (k - 1) * size
    BY <1>1, <1>2, <1>5, Product
  <2>2. i # n
    BY <1>2, <1>5
  <2> QED BY <2>1, <2>2
<1> HIDE DEF last
<1> DEFINE len(i) == last(i) - (i - 1) * size
<1>6. /\ DOMAIN chunks = 1 .. n
      /\ \A i \in 1 .. n : DOMAIN chunks[i] = 1 .. len(i)
             /\ \A j \in 1 .. len(i) : chunks[i][j] = first + last(i) - j
  BY <1>3
<1>7. ASSUME NEW i \in 1 .. n
      PROVE  /\ len(i) \in 1 .. size
             /\ chunks[i] \in Seq(ids) \ {<<>>} /\ Len(chunks[i]) = len(i)
             /\ \A j \in 1 .. len(i) :
                   /\ chunks[i][j] \in ids
                   /\ chunks[i][j] >= first + (i - 1) * size
                   /\ chunks[i][j] < first + last(i)
  <2>1. len(i) \in 1 .. size /\ len(i) \in Nat
    BY <1>1, <1>4
  <2>2. ASSUME NEW j \in 1 .. len(i)
        PROVE  /\ chunks[i][j] \in ids
               /\ chunks[i][j] >= first + (i - 1) * size
               /\ chunks[i][j] < first + last(i)
    <3>1. chunks[i][j] = first + last(i) - j
      BY <1>6
    <3>2. last(i) \in Nat /\ (i - 1) * size \in Nat /\ last(i) <= count
      BY <1>4
    <3>3. j \in Nat \ {0} /\ j <= last(i) - (i - 1) * size
      BY <2>1
    <3> HIDE DEF chunks
    <3> QED BY <3>1, <3>2, <3>3
  <2> HIDE DEF len, ids
  <2>3. chunks[i] = [j \in 1 .. len(i) |-> first + last(i) - j]
    BY <1>3 DEF len
  <2>4. \A j \in 1 .. len(i) : first + last(i) - j \in ids
    BY <1>6, <2>2
  <2>5. chunks[i] \in [1 .. len(i) -> ids]
    BY <2>3, <2>4
  <2>6. chunks[i] \in Seq(ids) /\ Len(chunks[i]) = len(i)
    BY <2>1, <2>5
  <2> QED BY <2>1, <2>2, <2>6
<1>8. chunks \in Seq(Seq(ids) \ {<<>>}) /\ Len(chunks) = n
  <2> HIDE DEF chunks, ids
  <2>1. chunks \in [1 .. n -> Seq(ids) \ {<<>>}]
    BY <1>3, <1>7
  <2> QED BY <1>2, <2>1
<1>9. BlocksOf(chunks) = ids
  <2>1. ASSUME NEW x \in ids PROVE x \in BlocksOf(chunks)
    <3> DEFINE m == x - first
               i == (m \div size) + 1
               j == last(i) - m
    <3>1. m \in Nat /\ m < count /\ x = first + m
      OBVIOUS
    <3> HIDE DEF m
    <3>2. i \in Nat \ {0} /\ (i - 1) * size <= m /\ m < (i - 1) * size + size
      BY <1>1, <3>1
    <3> HIDE DEF i
    <3>3. i <= n
      <4> SUFFICES ASSUME i > n PROVE FALSE
        BY <1>2, <3>2
      <4>1. n * size <= (i - 1) * size
        BY <1>1, <1>2, <3>2, Product
      <4>2. (i - 1) * size \in Int /\ n * size \in Int
        BY <1>1, <1>2, <3>2
      <4> QED BY <1>2, <3>1, <3>2, <4>1, <4>2
    <3>4. m < last(i)
      <4>1. CASE i = n
        BY <3>1, <4>1 DEF last
      <4>2. CASE i # n
        <5>1. (i - 1) * size = i * size - size
          BY <1>1, <3>2, Successor
        <5>2. i * size \in Int
          BY <1>1, <3>2
        <5> QED BY <1>1, <3>2, <4>2, <5>1, <5>2 DEF last
      <4> QED BY <4>1, <4>2
    <3>5. i \in 1 .. n
      BY <1>2, <3>2, <3>3
    <3>6. last(i) \in Nat /\ (i - 1) * size \in Nat
      BY <1>4, <3>5
    <3>7. j \in 1 .. len(i)
      BY <3>1, <3>2, <3>4, <3>6
    <3>8. chunks[i][j] = x
      <4>1. chunks[i][j] = first + last(i) - j
        BY <1>6, <3>5, <3>7
      <4> QED BY <3>1, <3>6, <4>1
    <3> HIDE DEF j, chunks
    <3>9. j \in DOMAIN chunks[i]
      BY <1>6, <3>5, <3>7
    <3> QED BY <1>6, <3>5, <3>8, <3>9 DEF BlocksOf, Range
  <2>2. ASSUME NEW x \in BlocksOf(chunks) PROVE x \in ids
    <3> HIDE DEF chunks, ids, len
    <3>1. PICK i \in DOMAIN chunks : x \in Range(chunks[i])
      BY DEF BlocksOf
    <3> QED BY <1>6, <1>7, <3>1 DEF Range
  <2> QED BY <2>1, <2>2
<1>10. NoneTwice(chunks)
  <2>1. ASSUME NEW i \in 1 .. n, NEW k \in 1 .. n, i < k,
               NEW j \in 1 .. len(i), NEW l \in 1 .. len(k)
        PROVE  chunks[i][j] # chunks[k][l]
    <3>1. /\ chunks[i][j] < first + last(i) /\ chunks[i][j] \in Int
          /\ chunks[k][l] >= first + (k - 1) * size /\ chunks[k][l] \in Int
      BY SMTT(30), <1>7
    <3>2. last(i) <= (k - 1) * size
      BY <1>5, <2>1
    <3>3. last(i) \in Nat /\ (k - 1) * size \in Nat
      BY <1>4
    <3> HIDE DEF chunks
    <3> QED BY <3>1, <3>2, <3>3
  <2>2. ASSUME NEW i \in 1 .. n, NEW j \in 1 .. len(i), NEW l \in 1 .. len(i),
               chunks[i][j] = chunks[i][l]
        PROVE  j = l
    <3>1. first + last(i) - j = first + last(i) - l
      BY <1>6, <2>2
    <3> QED BY <1>4, <3>1
  <2> HIDE DEF chunks, len
  <2>3. ASSUME NEW i \in DOMAIN chunks, NEW k \in DOMAIN chunks,
               NEW j \in DOMAIN chunks[i], NEW l \in DOMAIN chunks[k],
               chunks[i][j] = chunks[k][l]
        PROVE  i = k /\ j = l
    <3>1. i \in 1 .. n /\ k \in 1 .. n /\ j \in 1 .. len(i) /\ l \in 1 .. len(k)
      BY <1>6
    <3>2. ~(i < k) /\ ~(k < i)
      BY <2>1, <2>3, <3>1
    <3>3. i = k
      BY <1>2, <3>1, <3>2
    <3> QED BY <2>2, <2>3, <3>1, <3>3
  <2> QED BY <2>3 DEF NoneTwice
<1>11. \A i \in DOMAIN chunks : Len(chunks[i]) <= Batch(b)
  <2>1. ASSUME NEW i \in DOMAIN chunks PROVE Len(chunks[i]) <= Batch(b)
    <3>1. i \in 1 .. n
      BY <1>6
    <3>2. Len(chunks[i]) = len(i) /\ len(i) \in 1 .. size
      BY <1>7, <3>1
    <3> QED BY <1>1, <3>2 DEF size
  <2> QED BY <2>1
<1>12. count > 0 => chunks # <<>>
  BY <1>2, <1>8
<1> HIDE DEF chunks
<1> QED BY <1>8, <1>9, <1>10, <1>11, <1>12 DEF chunks

(* The order of the chunks does not matter.                                *)
LEMMA Reversed ==
    ASSUME NEW X, NEW chunks \in Seq(X)
    PROVE  /\ Reverse(chunks) \in Seq(X)
           /\ \A i \in DOMAIN Reverse(chunks) :
                 \E j \in DOMAIN chunks : Reverse(chunks)[i] = chunks[j]
           /\ BlocksOf(Reverse(chunks)) = BlocksOf(chunks)
           /\ NoneTwice(chunks) => NoneTwice(Reverse(chunks))
<1> DEFINE r == Reverse(chunks)
           to(i) == (Len(chunks) - i) + 1
<1>1. /\ r \in Seq(X) /\ DOMAIN r = 1 .. Len(chunks) /\ DOMAIN chunks = 1 .. Len(chunks)
      /\ \A i \in DOMAIN r : to(i) \in DOMAIN chunks /\ r[i] = chunks[to(i)]
      /\ \A i \in DOMAIN chunks : to(i) \in DOMAIN r /\ r[to(i)] = chunks[i]
      /\ Len(chunks) \in Nat
  BY DEF Reverse
<1>2. \A i, j \in 1 .. Len(chunks) : to(i) = to(j) => i = j
  BY <1>1
<1> HIDE DEF r, to
<1>3. BlocksOf(r) = BlocksOf(chunks)
  <2>1. ASSUME NEW x \in BlocksOf(r) PROVE x \in BlocksOf(chunks)
    BY <1>1 DEF BlocksOf
  <2>2. ASSUME NEW x \in BlocksOf(chunks) PROVE x \in BlocksOf(r)
    BY <1>1 DEF BlocksOf
  <2> QED BY <2>1, <2>2
<1>4. ASSUME NoneTwice(chunks) PROVE NoneTwice(r)
  <2>1. ASSUME NEW i \in DOMAIN r, NEW j \in DOMAIN r,
               NEW k \in DOMAIN r[i], NEW l \in DOMAIN r[j], r[i][k] = r[j][l]
        PROVE  i = j /\ k = l
    <3>1. to(i) = to(j) /\ k = l
      BY <1>1, <1>4, <2>1 DEF NoneTwice
    <3> QED BY <1>1, <1>2, <3>1
  <2> QED BY <2>1 DEF NoneTwice
<1> QED BY <1>1, <1>3, <1>4 DEF r

-----------------------------------------------------------------------------
(* Sums over finite sets.  The provers know no induction; what they know   *)
(* is that a set of naturals that is not empty has a least element.        *)

LessThan == {p \in Nat \X Nat : p[1] < p[2]}

LEMMA LeastNatural ==
    ASSUME NEW T \in SUBSET Nat, T # {}
    PROVE  \E n \in T : \A m \in T : ~(m < n)
<1>1. IsWellFoundedOn(LessThan, Nat)
  BY NatLessThanWellFounded DEF OpToRel, LessThan
<1>2. \E n \in T : \A m \in T : ~(<<m, n>> \in LessThan)
  BY <1>1, WFMin
<1>3. \A m, n \in Nat : <<m, n>> \in LessThan <=> m < n
  BY DEF LessThan
<1> QED BY <1>2, <1>3

Total(f, S) == FoldFunctionOnSet(+, 0, f, S)

Chosen(s) == CHOOSE x \in s : TRUE

IntegersOn(f, S) == \A x \in S : f[x] \in Int
SameOn(f, k, S)  == \A x \in S : f[x] = k[x]

(* g has the sum of f over every subset of S, or over those of a size.     *)
SumStep(g, f, s) == IF s = {} THEN 0 ELSE f[Chosen(s)] + g[s \ {Chosen(s)}]
Sums(g, f, S)    == g = [s \in SUBSET S |-> SumStep(g, f, s)]
SmallSets(S, n)  == {s \in SUBSET S : Cardinality(s) <= n}
SumsUpTo(g, f, S, n) == g = [s \in SmallSets(S, n) |-> SumStep(g, f, s)]

LEMMA ChosenIn == ASSUME NEW s, s # {} PROVE Chosen(s) \in s
BY DEF Chosen

LEMMA WithoutOne ==
    ASSUME NEW S, IsFiniteSet(S), NEW s \in SUBSET S, NEW x \in s
    PROVE  /\ s \ {x} \in SUBSET S /\ IsFiniteSet(s) /\ IsFiniteSet(s \ {x})
           /\ Cardinality(s) \in Nat /\ Cardinality(s) - 1 \in Nat
           /\ Cardinality(s \ {x}) = Cardinality(s) - 1
<1>1. s \ {x} \in SUBSET S
  OBVIOUS
<1>2. IsFiniteSet(s) /\ IsFiniteSet(s \ {x})
  BY <1>1, FS_Subset
<1>3. Cardinality(s) \in Nat /\ Cardinality(s \ {x}) \in Nat
  BY <1>2, FS_CardinalityType
<1>4. Cardinality(s \ {x}) = Cardinality(s) - 1
  BY <1>2, FS_RemoveElement
<1> QED BY <1>1, <1>2, <1>3, <1>4

LEMMA WithoutChosen ==
    ASSUME NEW S, IsFiniteSet(S), NEW s \in SUBSET S, s # {}
    PROVE  /\ s \ {Chosen(s)} \in SUBSET S
           /\ Cardinality(s) \in Nat /\ Cardinality(s) - 1 \in Nat
           /\ Cardinality(s \ {Chosen(s)}) = Cardinality(s) - 1
<1>1. Chosen(s) \in s
  BY ChosenIn
<1> QED BY <1>1, WithoutOne

(* Sums over larger sets from those over smaller ones.                     *)
LEMMA SumsGrow ==
    ASSUME NEW S, IsFiniteSet(S), NEW f, NEW n \in Nat, NEW g, SumsUpTo(g, f, S, n)
    PROVE  \E h : SumsUpTo(h, f, S, n + 1)
<1> DEFINE h == [s \in SmallSets(S, n + 1) |-> SumStep(g, f, s)]
<1>1. ASSUME NEW s \in SmallSets(S, n + 1)
      PROVE  SumStep(g, f, s) = SumStep(h, f, s)
  <2>1. CASE s = {}
    BY <2>1 DEF SumStep
  <2>2. CASE s # {}
    <3> DEFINE r == s \ {Chosen(s)}
    <3>1. r \in SmallSets(S, n) /\ r \in SmallSets(S, n + 1)
      BY <2>2, WithoutChosen DEF SmallSets
    <3>2. g[r] = SumStep(g, f, r)
      BY <3>1 DEF SumsUpTo
    <3>3. h[r] = SumStep(g, f, r)
      BY <3>1
    <3> QED BY <2>2, <3>2, <3>3 DEF SumStep
  <2> QED BY <2>1, <2>2
<1>2. h = [s \in SmallSets(S, n + 1) |-> SumStep(h, f, s)]
  BY <1>1, Zenon
<1> QED BY <1>2 DEF SumsUpTo

LEMMA SumsExist ==
    ASSUME NEW S, IsFiniteSet(S), NEW f
    PROVE  \E g : Sums(g, f, S)
<1> DEFINE Bad == {n \in Nat : ~\E g : SumsUpTo(g, f, S, n)}
<1>1. 0 \notin Bad
  <2> DEFINE g == [s \in SmallSets(S, 0) |-> 0]
  <2>1. \A s \in SmallSets(S, 0) : s = {}
    BY FS_Subset, FS_EmptySet, FS_CardinalityType DEF SmallSets
  <2>2. \A s \in SmallSets(S, 0) : SumStep(g, f, s) = 0
    BY <2>1 DEF SumStep
  <2>3. SumsUpTo(g, f, S, 0)
    BY <2>2 DEF SumsUpTo
  <2> QED BY <2>3
<1>2. Bad = {}
  <2> SUFFICES ASSUME Bad # {} PROVE FALSE
    OBVIOUS
  <2>1. PICK n \in Bad : \A m \in Bad : ~(m < n)
    BY LeastNatural
  <2>2. n - 1 \in Nat /\ n - 1 \notin Bad
    BY <1>1, <2>1
  <2>3. PICK g : SumsUpTo(g, f, S, n - 1)
    BY <2>2
  <2>4. \E h : SumsUpTo(h, f, S, (n - 1) + 1)
    BY <2>2, <2>3, SumsGrow
  <2>5. (n - 1) + 1 = n
    OBVIOUS
  <2> QED BY <2>4, <2>5
<1>3. Cardinality(S) \in Nat
  BY FS_CardinalityType
<1>4. PICK g : SumsUpTo(g, f, S, Cardinality(S))
  BY <1>2, <1>3
<1>5. SmallSets(S, Cardinality(S)) = SUBSET S
  BY FS_Subset DEF SmallSets
<1> QED BY <1>4, <1>5 DEF SumsUpTo, Sums

LEMMA TotalIs ==
    ASSUME NEW f, NEW S
    PROVE  Total(f, S) = (CHOOSE g : Sums(g, f, S))[S]
BY Zenon DEF Total, FoldFunctionOnSet, MapThenFoldSet, Sums, SumStep, Chosen

(* A sum does not depend on the functions that compute it.                 *)
LEMMA SumsAgree ==
    ASSUME NEW S, NEW T, NEW U, U \subseteq S, U \subseteq T, IsFiniteSet(U),
           NEW f, NEW k, SameOn(f, k, U),
           NEW g, NEW h, Sums(g, f, S), Sums(h, k, T)
    PROVE  g[U] = h[U]
<1> DEFINE Bad == {n \in Nat : \E s \in SUBSET U : Cardinality(s) = n /\ g[s] # h[s]}
<1>1. Bad = {}
  <2> SUFFICES ASSUME Bad # {} PROVE FALSE
    OBVIOUS
  <2>1. PICK n \in Bad : \A m \in Bad : ~(m < n)
    BY LeastNatural
  <2>2. PICK s \in SUBSET U : Cardinality(s) = n /\ g[s] # h[s]
    BY <2>1
  <2>3. g[s] = SumStep(g, f, s) /\ h[s] = SumStep(h, k, s)
    BY <2>2 DEF Sums
  <2>4. s # {}
    BY <2>2, <2>3 DEF SumStep
  <2> DEFINE r == s \ {Chosen(s)}
  <2>5. r \in SUBSET U /\ Cardinality(r) = n - 1 /\ n - 1 \in Nat
    BY <2>2, <2>4, WithoutChosen
  <2>6. n - 1 \notin Bad
    BY <2>1, <2>5
  <2>7. g[r] = h[r]
    BY <2>5, <2>6
  <2>8. f[Chosen(s)] = k[Chosen(s)]
    BY <2>2, <2>4, ChosenIn DEF SameOn
  <2> QED BY <2>2, <2>3, <2>4, <2>7, <2>8 DEF SumStep
<1>2. Cardinality(U) \in Nat
  BY FS_CardinalityType
<1> QED BY <1>1, <1>2

LEMMA TotalOf ==
    ASSUME NEW S, IsFiniteSet(S), NEW f, NEW g, Sums(g, f, S),
           NEW T \in SUBSET S
    PROVE  Total(f, T) = g[T]
<1> DEFINE h == CHOOSE h : Sums(h, f, T)
<1>1. IsFiniteSet(T)
  BY FS_Subset
<1>2. Sums(h, f, T)
  BY <1>1, SumsExist
<1> HIDE DEF h
<1>3. h[T] = g[T]
  BY <1>1, <1>2, SumsAgree DEF SameOn
<1> QED BY <1>3, TotalIs DEF h

(* An element leaves the sum, whichever it is.                             *)
LEMMA SumsRemove ==
    ASSUME NEW S, IsFiniteSet(S), NEW f, IntegersOn(f, S),
           NEW g, Sums(g, f, S)
    PROVE  \A s \in SUBSET S :
              g[s] \in Int /\ \A x \in s : g[s] = f[x] + g[s \ {x}]
<1> DEFINE Good(s) == g[s] \in Int /\ \A x \in s : g[s] = f[x] + g[s \ {x}]
           Bad == {n \in Nat : \E s \in SUBSET S : Cardinality(s) = n /\ ~Good(s)}
<1>1. Bad = {}
  <2> SUFFICES ASSUME Bad # {} PROVE FALSE
    OBVIOUS
  <2>1. PICK n \in Bad : \A m \in Bad : ~(m < n)
    BY LeastNatural
  <2>2. PICK s \in SUBSET S : Cardinality(s) = n /\ ~Good(s)
    BY <2>1
  <2>3. g[s] = SumStep(g, f, s)
    BY <2>2 DEF Sums
  <2>4. s # {}
    BY <2>2, <2>3 DEF SumStep
  <2> DEFINE y == Chosen(s)
  <2>5. y \in s
    BY <2>4, ChosenIn
  <2> HIDE DEF y, Good
  <2>6. ASSUME NEW x \in s PROVE Good(s \ {x})
    <3>1. Cardinality(s \ {x}) = n - 1 /\ n - 1 \in Nat
      BY <2>2, WithoutOne
    <3>2. n - 1 \notin Bad
      BY <2>1, <3>1
    <3> QED BY <3>1, <3>2
  <2>7. g[s] = f[y] + g[s \ {y}]
    BY <2>3, <2>4 DEF SumStep, y
  <2>8. g[s] \in Int
    <3>1. f[y] \in Int
      BY <2>2, <2>5 DEF IntegersOn
    <3>2. g[s \ {y}] \in Int
      BY <2>5, <2>6 DEF Good
    <3> QED BY <2>7, <3>1, <3>2
  <2>9. ASSUME NEW x \in s PROVE g[s] = f[x] + g[s \ {x}]
    <3>1. CASE x = y
      BY <2>7, <3>1
    <3>2. CASE x # y
      <4> DEFINE r == (s \ {x}) \ {y}
      <4>1. g[s \ {y}] = f[x] + g[(s \ {y}) \ {x}]
        BY <2>5, <2>6, <3>2 DEF Good
      <4>2. g[s \ {x}] = f[y] + g[r]
        BY <2>5, <2>6, <3>2 DEF Good
      <4>3. (s \ {y}) \ {x} = r
        OBVIOUS
      <4>6. g[s \ {y}] = f[x] + g[r]
        BY <4>1, <4>3
      <4>4. g[r] \in Int
        <5>1. r \in SUBSET S /\ IsFiniteSet(s) /\ IsFiniteSet(s \ {x})
          BY FS_Subset
        <5>2. Cardinality(r) = n - 2 /\ n - 2 \in Nat
          <6>1. Cardinality(s \ {x}) = n - 1
            BY <2>2, <2>9, <5>1, FS_RemoveElement
          <6>2. Cardinality(r) = (n - 1) - 1
            BY <2>5, <3>2, <5>1, <6>1, FS_RemoveElement
          <6>3. Cardinality(r) \in Nat
            BY <5>1, FS_Subset, FS_CardinalityType
          <6> QED BY <6>2, <6>3
        <5>3. n - 2 \notin Bad
          BY <2>1, <5>2
        <5> QED BY <5>1, <5>2, <5>3 DEF Good
      <4>5. f[x] \in Int /\ f[y] \in Int
        BY <2>2, <2>5 DEF IntegersOn
      <4> HIDE DEF r
      <4> QED BY <2>7, <4>2, <4>4, <4>5, <4>6
    <3> QED BY <3>1, <3>2
  <2> QED BY <2>2, <2>8, <2>9 DEF Good
<1>2. ASSUME NEW s \in SUBSET S PROVE Good(s)
  <2>1. Cardinality(s) \in Nat
    BY FS_Subset, FS_CardinalityType
  <2> HIDE DEF Good
  <2> QED BY <1>1, <2>1
<1> QED BY <1>2

LEMMA TotalEmpty == ASSUME NEW f PROVE Total(f, {}) = 0
<1>1. PICK g : Sums(g, f, {})
  BY SumsExist, FS_EmptySet
<1>2. g[{}] = 0
  BY <1>1 DEF Sums, SumStep
<1> QED BY <1>1, <1>2, TotalOf, FS_EmptySet

LEMMA TotalRemove ==
    ASSUME NEW S, IsFiniteSet(S), NEW f, IntegersOn(f, S)
    PROVE  /\ Total(f, S) \in Int
           /\ \A x \in S : Total(f, S \ {x}) \in Int
                           /\ Total(f, S) = f[x] + Total(f, S \ {x})
<1>1. PICK g : Sums(g, f, S)
  BY SumsExist
<1>2. \A s \in SUBSET S : Total(f, s) = g[s]
  BY <1>1, TotalOf
<1>3. \A s \in SUBSET S :
          g[s] \in Int /\ \A x \in s : g[s] = f[x] + g[s \ {x}]
  BY <1>1, SumsRemove
<1>4. S \in SUBSET S /\ \A x \in S : S \ {x} \in SUBSET S
  OBVIOUS
<1> QED BY <1>2, <1>3, <1>4

LEMMA TotalSame ==
    ASSUME NEW S, IsFiniteSet(S), NEW f, NEW k, SameOn(f, k, S)
    PROVE  Total(f, S) = Total(k, S)
<1>1. PICK g : Sums(g, f, S)
  BY SumsExist
<1>2. PICK h : Sums(h, k, S)
  BY SumsExist
<1>3. g[S] = h[S]
  BY <1>1, <1>2, SumsAgree
<1> QED BY <1>1, <1>2, <1>3, TotalOf

-----------------------------------------------------------------------------
(* The blocks that Initialize asks for.                                    *)

LEMMA TotalOfNaturals ==
    ASSUME NEW S, IsFiniteSet(S), NEW f, \A x \in S : f[x] \in Nat
    PROVE  Total(f, S) \in Nat
<1> DEFINE Bad == {n \in Nat : \E s \in SUBSET S : Cardinality(s) = n /\ Total(f, s) \notin Nat}
<1>1. Bad = {}
  <2> SUFFICES ASSUME Bad # {} PROVE FALSE
    OBVIOUS
  <2>1. PICK n \in Bad : \A m \in Bad : ~(m < n)
    BY LeastNatural
  <2>2. PICK s \in SUBSET S : Cardinality(s) = n /\ Total(f, s) \notin Nat
    BY <2>1
  <2>3. s # {}
    BY <2>2, TotalEmpty
  <2>4. PICK x \in s : TRUE
    BY <2>3
  <2>5. /\ s \ {x} \in SUBSET S /\ IsFiniteSet(s)
        /\ Cardinality(s \ {x}) = n - 1 /\ n - 1 \in Nat
    BY <2>2, <2>4, WithoutOne
  <2>6. n - 1 \notin Bad
    BY <2>1, <2>5
  <2>7. Total(f, s \ {x}) \in Nat
    BY <2>5, <2>6
  <2>8. IntegersOn(f, s)
    BY <2>2 DEF IntegersOn
  <2>9. Total(f, s) = f[x] + Total(f, s \ {x})
    BY <2>4, <2>5, <2>8, TotalRemove
  <2> QED BY <2>2, <2>7, <2>9
<1>2. Cardinality(S) \in Nat
  BY FS_CardinalityType
<1> QED BY <1>1, <1>2

BinCount == MaxBinLog - MinBinLog + 1

LEMMA BinsAre == BinCount \in Nat \ {0} /\ Bins = 0 .. BinCount - 1 /\ IsFiniteSet(Bins) /\ 0 \in Bins
<1>1. BinCount \in Nat \ {0} /\ Bins = 0 .. BinCount - 1
  BY BinsAssumption DEF BinCount, Bins
<1>2. IsFiniteSet(0 .. BinCount - 1)
  BY <1>1, FS_Interval
<1> QED BY <1>1, <1>2

LEMMA BelowSums ==
    /\ Below(0) = 0
    /\ \A b \in Bins : /\ Below(b) \in Nat /\ Below(b + 1) \in Nat
                       /\ Below(b + 1) = Below(b) + Preallocated(b)
<1> DEFINE pre == [c \in Bins |-> Preallocated(c)]
<1>1. \A b : Below(b) = Total(pre, 0 .. b - 1)
  BY Zenon DEF Below, Total
<1>2. Below(0) = 0
  <2>1. 0 .. 0 - 1 = {}
    OBVIOUS
  <2> QED BY <1>1, <2>1, TotalEmpty
<1>3. ASSUME NEW b \in Nat, b <= BinCount PROVE Below(b) \in Nat
  <2>1. 0 .. b - 1 \subseteq Bins
    BY <1>3, BinsAre
  <2>2. IsFiniteSet(0 .. b - 1)
    BY <2>1, BinsAre, FS_Subset
  <2>3. \A x \in 0 .. b - 1 : pre[x] \in Nat
    BY <2>1, Segments
  <2> HIDE DEF pre
  <2> QED BY <1>1, <2>2, <2>3, TotalOfNaturals
<1>4. ASSUME NEW b \in Bins PROVE Below(b + 1) = Below(b) + Preallocated(b)
  <2>1. /\ b \in 0 .. (b + 1) - 1 /\ 0 .. (b + 1) - 1 \subseteq Bins
        /\ (0 .. (b + 1) - 1) \ {b} = 0 .. b - 1
    BY BinsAre
  <2>2. IsFiniteSet(0 .. (b + 1) - 1)
    BY <2>1, BinsAre, FS_Subset
  <2>3. IntegersOn(pre, 0 .. (b + 1) - 1)
    BY <2>1, Segments DEF IntegersOn
  <2>4. pre[b] = Preallocated(b) /\ Preallocated(b) \in Nat
    BY Segments
  <2> HIDE DEF pre
  <2>5. Total(pre, 0 .. (b + 1) - 1) = pre[b] + Total(pre, 0 .. b - 1)
    BY <2>1, <2>2, <2>3, TotalRemove
  <2>6. Below(b) \in Nat
    BY <1>3, BinsAre
  <2> QED BY <1>1, <2>4, <2>5, <2>6
<1>5. \A b \in Bins : b \in Nat /\ b + 1 \in Nat /\ b <= BinCount /\ b + 1 <= BinCount
  BY BinsAre
<1> QED BY <1>2, <1>3, <1>4, <1>5

LEMMA BelowGrows ==
    ASSUME NEW b \in Nat, NEW c \in Nat, b <= c, c <= BinCount
    PROVE  Below(b) \in Nat /\ Below(c) \in Nat /\ Below(b) <= Below(c)
<1>1. \A d \in 0 .. BinCount : Below(d) \in Nat
  <2>1. ASSUME NEW d \in 0 .. BinCount PROVE Below(d) \in Nat
    <3>1. CASE d = 0
      BY <3>1, BelowSums
    <3>2. CASE d # 0
      <4>1. d - 1 \in Bins /\ (d - 1) + 1 = d
        BY <3>2, BinsAre
      <4> QED BY <4>1, BelowSums
    <3> QED BY <3>1, <3>2
  <2> QED BY <2>1
<1> DEFINE Bad == {d \in Nat : b <= d /\ d <= BinCount /\ ~(Below(b) <= Below(d))}
<1>2. Bad = {}
  <2> SUFFICES ASSUME Bad # {} PROVE FALSE
    OBVIOUS
  <2>1. PICK d \in Bad : \A m \in Bad : ~(m < d)
    BY LeastNatural
  <2>2. d # b
    BY <1>1, <2>1, BinsAre
  <2>3. d - 1 \in Bins /\ (d - 1) + 1 = d /\ d - 1 \in Nat /\ b <= d - 1
    BY <2>1, <2>2, BinsAre
  <2>4. d - 1 \notin Bad
    BY <2>1, <2>3
  <2>5. Below(b) <= Below(d - 1)
    BY <2>1, <2>3, <2>4, BinsAre
  <2>6. Below(d) = Below(d - 1) + Preallocated(d - 1) /\ Preallocated(d - 1) \in Nat
    BY <2>3, BelowSums, Segments
  <2>7. Below(b) \in Nat /\ Below(d - 1) \in Nat
    BY <1>1, <2>1, <2>3, BinsAre
  <2> QED BY <2>1, <2>5, <2>6, <2>7
<1> QED BY <1>1, <1>2, BinsAre

LEMMA EachHasItsBin ==
    ASSUME NEW i \in 1 .. Below(BinCount)
    PROVE  \E b \in Bins : Below(b) < i /\ i <= Below(b + 1)
<1>0. Below(BinCount) \in Nat
  BY BelowGrows, BinsAre
<1> DEFINE Past == {c \in Nat : c <= BinCount /\ i <= Below(c)}
<1>1. BinCount \in Past
  BY <1>0, BinsAre
<1>2. PICK c \in Past : \A d \in Past : ~(d < c)
  BY <1>1, LeastNatural
<1>3. c # 0
  BY <1>0, <1>2, BelowSums
<1>4. c - 1 \in Bins /\ (c - 1) + 1 = c /\ c - 1 \in Nat
  BY <1>2, <1>3, BinsAre
<1>5. c - 1 \notin Past
  BY <1>2, <1>4
<1>6. ~(i <= Below(c - 1)) /\ Below(c - 1) \in Nat
  BY <1>2, <1>4, <1>5, BinsAre, BelowSums
<1>7. Below(c - 1) < i /\ i <= Below((c - 1) + 1)
  BY <1>0, <1>2, <1>4, <1>6
<1> QED BY <1>4, <1>7

-----------------------------------------------------------------------------
(* The inductive invariant: what the variables hold,                       *)

Detaching == {"detach", "flush", "free"}
Working   == {"pop", "lock", "grow", "map", "carve", "last"}
UserPcs   == {"idle", "gone", "orphan"} \cup Working \cup Detaching
MainPcs   == {"closed", "open", "fls", "sweep", "close"} \cup Detaching

Types ==
    /\ blocks \in Seq([bin : Bins, life : 1 .. life])
    /\ stock \in [Bins -> Seq(Seq(Ids) \ {<<>>})]
    /\ growLock \in [Bins -> Users \cup {NoThread}]
    /\ committed \in Nat /\ segments \in 0 .. MaxSegments
    /\ life \in 0 .. MaxLives /\ generation \in {0, life}
    /\ tags \in Seq((UNION Range(SlotsOfLife)) \cup {NoSlot}) /\ Len(tags) = life
    /\ registered \in Seq(Users) /\ retired \in Int /\ flsOpen \in BOOLEAN
    /\ cache \in [Users -> {"none", "live", "marked", "freed"}]
    /\ list \in [Users -> [Bins -> Seq(Ids)]]
    /\ balance \in [Users -> Int] /\ slot \in [Users -> 0 .. life]
    /\ fls \in [Users -> BOOLEAN]
    /\ pc \in [Threads -> PCs] /\ ret \in [Threads -> PCs]
    /\ bin \in [Threads -> Bins]
    /\ todo \in [Threads -> Seq(Seq(Ids) \ {<<>>})]
    /\ victim \in [Threads -> Users \cup {NoThread}]
    /\ out \subseteq Ids /\ lost \subseteq Ids /\ buried \subseteq Ids
    /\ unmapped \subseteq 1 .. life

(* No chunk is longer than a batch, no list longer than the limit.         *)
Sized ==
    /\ \A b \in Bins : \A i \in DOMAIN stock[b] : Len(stock[b][i]) <= Batch(b)
    /\ \A t \in Users : \A i \in DOMAIN todo[t] : Len(todo[t][i]) <= Batch(bin[t])
    /\ \A t \in Users, b \in Bins : Len(list[t][b]) <= CacheCap(b)

UserControl(t) ==
    /\ pc[t] \in UserPcs
    /\ pc[t] \in Detaching => victim[t] = t /\ ret[t] = "gone"
    /\ pc[t] \in Working \cup {"orphan"} => InUse
    /\ (pc[t] = "carve" <=> todo[t] # <<>>)
    /\ pc[t] \in Working => cache[t] = "live" /\ list[t][bin[t]] = <<>>

NoFls == \A t \in Users : ~fls[t]

MainControl ==
    /\ pc[Main] \in MainPcs
    /\ pc[Main] \in Detaching => victim[Main] \in Users /\ ret[Main] \in {"fls", "sweep"}
    /\ pc[Main] # "closed" => generation = life /\ life > 0
    /\ pc[Main] = "closed" => generation = 0
    /\ pc[Main] = "closed" => stock = EmptyLists
    /\ pc[Main] \in {"close", "closed"} => registered = <<>>
    /\ pc[Main] \in {"sweep", "close", "closed"} => NoFls
    /\ pc[Main] \in Detaching /\ ret[Main] = "sweep" => NoFls

Dismantles(t, v) == pc[t] \in {"flush", "free"} /\ victim[t] = v

CacheControl(v) ==
    /\ v \in Range(registered) => cache[v] \in {"live", "marked"}
    /\ v \notin Range(registered) =>
          cache[v] # "live" /\ list[v] = EmptyLists /\ balance[v] = 0
    /\ (cache[v] = "marked" <=> Dismantles(v, v) \/ Dismantles(Main, v))
    /\ ~(Dismantles(v, v) /\ Dismantles(Main, v))
    /\ \A t \in {v, Main} : Dismantles(t, v) => (pc[t] = "flush" <=> v \in Range(registered))
    /\ InUse /\ pc[v] \in {"idle", "orphan"} \cup Working =>
          (Found(v) <=> cache[v] = "live")

RegisteredOnce == \A i, j \in DOMAIN registered : registered[i] = registered[j] => i = j

LifeInUse == life \in unmapped => pc[Main] = "closed"

-----------------------------------------------------------------------------
(* Types.                                                                  *)

LEMMA ThreadsAre ==
    /\ Users \subseteq Threads /\ Main \in Threads /\ Main \notin Users
    /\ NoThread \notin Threads /\ \A t \in Threads : t = Main \/ t \in Users
BY ThreadsAssumption DEF Threads

LEMMA TypesInit == Init => Types /\ Sized
<1> SUFFICES ASSUME Init PROVE Types /\ Sized
  OBVIOUS
<1>1. blocks \in Seq([bin : Bins, life : 1 .. life]) /\ Ids = {}
  BY DEF Init, Ids
<1>2. 0 \in Bins
  BY BinsAre
<1>3. EmptyLists \in [Bins -> Seq(Ids)] /\ EmptyLists \in [Bins -> Seq(Seq(Ids) \ {<<>>})]
  BY DEF EmptyLists
<1>4. Types
  <2>1. <<>> \in Seq(Seq(Ids) \ {<<>>}) /\ <<>> \in Seq(Users)
        /\ <<>> \in Seq((UNION Range(SlotsOfLife)) \cup {NoSlot}) /\ Len(<<>>) = 0
    OBVIOUS
  <2>2. /\ stock \in [Bins -> Seq(Seq(Ids) \ {<<>>})]
        /\ growLock \in [Bins -> Users \cup {NoThread}]
        /\ committed \in Nat /\ segments \in 0 .. MaxSegments
        /\ life \in 0 .. MaxLives /\ generation \in {0, life}
    BY <1>3, PoolAssumption DEF Init
  <2>3. /\ tags \in Seq((UNION Range(SlotsOfLife)) \cup {NoSlot}) /\ Len(tags) = life
        /\ registered \in Seq(Users) /\ retired \in Int /\ flsOpen \in BOOLEAN
    <3>1. tags = <<>> /\ registered = <<>> /\ life = 0 /\ retired = 0 /\ flsOpen = FALSE
      BY DEF Init
    <3>2. Len(tags) = life
      BY <3>1
    <3>3. tags \in Seq((UNION Range(SlotsOfLife)) \cup {NoSlot}) /\ registered \in Seq(Users)
      BY <2>1, <3>1, Zenon
    <3>4. retired \in Int
      BY <3>1
    <3>5. flsOpen \in BOOLEAN
      BY <3>1, Zenon
    <3> QED BY <3>2, <3>3, <3>4, <3>5
  <2>4. /\ cache \in [Users -> {"none", "live", "marked", "freed"}]
        /\ list \in [Users -> [Bins -> Seq(Ids)]]
        /\ balance \in [Users -> Int] /\ slot \in [Users -> 0 .. life]
        /\ fls \in [Users -> BOOLEAN]
    BY <1>3 DEF Init
  <2>5. /\ pc \in [Threads -> PCs] /\ ret \in [Threads -> PCs]
        /\ bin \in [Threads -> Bins]
        /\ victim \in [Threads -> Users \cup {NoThread}]
    BY <1>2 DEF Init, PCs
  <2>6. todo \in [Threads -> Seq(Seq(Ids) \ {<<>>})]
    BY <2>1 DEF Init
  <2>7. out \subseteq Ids /\ lost \subseteq Ids /\ buried \subseteq Ids /\ unmapped \subseteq 1 .. life
    BY DEF Init
  <2> QED BY <1>1, <2>2, <2>3, <2>4, <2>5, <2>6, <2>7 DEF Types
<1>5. Sized
  BY ThreadsAre, Batches DEF Init, Sized, EmptyLists
<1> QED BY <1>4, <1>5

(* A chunk goes to a caller and the cache.                                 *)
LEMMA TypesOfHandOut ==
    ASSUME Types, Sized, NEW t \in Users, NEW b \in Bins, NEW chunk \in Seq(Ids),
           chunk # <<>>, Len(chunk) <= CacheCap(b) + 1, HandOut(t, b, chunk)
    PROVE  /\ list' \in [Users -> [Bins -> Seq(Ids)]] /\ balance' \in [Users -> Int]
           /\ out' \subseteq Ids
           /\ \A u \in Users, c \in Bins : Len(list'[u][c]) <= CacheCap(c)
<1>1. Tail(chunk) \in Seq(Ids) /\ Head(chunk) \in Ids
      /\ Len(Tail(chunk)) <= CacheCap(b)
  <2>1. Tail(chunk) \in Seq(Ids) /\ Head(chunk) \in Ids
        /\ Len(Tail(chunk)) = Len(chunk) - 1 /\ Len(chunk) \in Nat
    BY HeadOfList
  <2> QED BY <2>1, Batches
<1>2. list' = [list EXCEPT ![t][b] = Tail(chunk)]
  BY DEF HandOut
<1>3. list \in [Users -> [Bins -> Seq(Ids)]] /\ balance \in [Users -> Int] /\ out \subseteq Ids
  BY DEF Types
<1>4. list' \in [Users -> [Bins -> Seq(Ids)]]
  BY <1>1, <1>2, <1>3
<1>5. \A u \in Users, c \in Bins : Len(list'[u][c]) <= CacheCap(c)
  BY <1>1, <1>2, <1>3 DEF Sized
<1> QED BY <1>1, <1>3, <1>4, <1>5 DEF HandOut

(* A chunk of the global pool.                                             *)
LEMMA ChunkOfStock ==
    ASSUME Types, Sized, NEW b \in Bins, stock[b] # <<>>
    PROVE  /\ Head(stock[b]) \in Seq(Ids) /\ Head(stock[b]) # <<>>
           /\ Len(Head(stock[b])) <= Batch(b)
           /\ Len(Head(stock[b])) <= CacheCap(b) + 1
           /\ [stock EXCEPT ![b] = Tail(@)] \in [Bins -> Seq(Seq(Ids) \ {<<>>})]
           /\ \A c \in Bins : \A i \in DOMAIN [stock EXCEPT ![b] = Tail(@)][c] :
                 Len([stock EXCEPT ![b] = Tail(@)][c][i]) <= Batch(c)
<1> DEFINE S == Seq(Ids) \ {<<>>}
           s == stock[b]
<1>1. stock \in [Bins -> Seq(S)] /\ s \in Seq(S)
  BY DEF Types
<1> HIDE DEF S
<1>2. /\ Head(s) \in S /\ 1 \in DOMAIN s /\ Head(s) = s[1] /\ Tail(s) \in Seq(S)
      /\ \A i \in DOMAIN Tail(s) : i + 1 \in DOMAIN s /\ Tail(s)[i] = s[i + 1]
  BY <1>1
<1>3. Len(Head(s)) <= Batch(b) /\ \A i \in DOMAIN Tail(s) : Len(Tail(s)[i]) <= Batch(b)
  BY <1>2 DEF Sized
<1>4. Len(Head(s)) <= CacheCap(b) + 1
  <2>1. Len(Head(s)) \in Nat
    BY <1>2 DEF S
  <2> QED BY <1>3, <2>1, Batches
<1> DEFINE n == [stock EXCEPT ![b] = Tail(@)]
<1>5. n \in [Bins -> Seq(S)] /\ n[b] = Tail(s) /\ \A c \in Bins : c # b => n[c] = stock[c]
  BY <1>1, <1>2
<1>6. \A c \in Bins : \A i \in DOMAIN n[c] : Len(n[c][i]) <= Batch(c)
  BY <1>3, <1>5 DEF Sized
<1> HIDE DEF n
<1> QED BY <1>2, <1>3, <1>4, <1>5, <1>6 DEF n, S

LEMMA TypesOfPush ==
    ASSUME Types, Sized, NEW b \in Bins, NEW chunk \in Seq(Ids) \ {<<>>},
           Len(chunk) <= Batch(b), PushChunk(b, chunk)
    PROVE  /\ stock' \in [Bins -> Seq(Seq(Ids) \ {<<>>})]
           /\ \A c \in Bins : \A i \in DOMAIN stock'[c] : Len(stock'[c][i]) <= Batch(c)
<1> DEFINE S == Seq(Ids) \ {<<>>}
           s == stock[b]
<1>1. stock \in [Bins -> Seq(S)] /\ s \in Seq(S) /\ chunk \in S
  BY DEF Types
<1> HIDE DEF S
<1>2. /\ <<chunk>> \o s \in Seq(S) /\ (<<chunk>> \o s)[1] = chunk
      /\ \A i \in DOMAIN (<<chunk>> \o s) :
            i # 1 => i - 1 \in DOMAIN s /\ (<<chunk>> \o s)[i] = s[i - 1]
  BY <1>1
<1>3. \A i \in DOMAIN (<<chunk>> \o s) : Len((<<chunk>> \o s)[i]) <= Batch(b)
  BY <1>2 DEF Sized
<1>4. stock' \in [Bins -> Seq(S)] /\ stock'[b] = <<chunk>> \o s
      /\ \A c \in Bins : c # b => stock'[c] = stock[c]
  BY <1>1, <1>2 DEF PushChunk
<1>5. \A c \in Bins : \A i \in DOMAIN stock'[c] : Len(stock'[c][i]) <= Batch(c)
  BY <1>3, <1>4 DEF Sized
<1> QED BY <1>4, <1>5 DEF S

LEMMA TypesOfAttach ==
    ASSUME Types, NEW t \in Users, GetOrCreate(t), generation \in 0 .. life
    PROVE  /\ registered' \in Seq(Users)
           /\ cache' \in [Users -> {"none", "live", "marked", "freed"}]
           /\ slot' \in [Users -> 0 .. life] /\ fls' \in [Users -> BOOLEAN]
<1>1. CASE ~Attach(t)
  BY <1>1 DEF Types, GetOrCreate
<1>2. CASE Attach(t)
  <2>1. <<t>> \o registered \in Seq(Users)
    BY DEF Types
  <2>2. cache' \in [Users -> {"none", "live", "marked", "freed"}]
    BY <1>2 DEF Types, Attach
  <2>3. slot' \in [Users -> 0 .. life] /\ fls' \in [Users -> BOOLEAN]
    BY <1>2 DEF Types, Attach
  <2> QED BY <1>2, <2>1, <2>2, <2>3 DEF Attach
<1> QED BY <1>1, <1>2

USE DEF global, registry, caches, locals, ghosts, Goto

(* What a step needs to know besides the types.                            *)
Control == MainControl /\ \A t \in Users : UserControl(t) /\ CacheControl(t)

LEMMA Goes ==
    ASSUME Types, NEW t \in Threads, NEW to \in PCs, pc' = [pc EXCEPT ![t] = to]
    PROVE  pc' \in [Threads -> PCs]
BY DEF Types

LEMMA TypesAcquire ==
    ASSUME Types, Sized, Control, NEW t \in Users, NEW size \in Sizes, Acquire(t, size)
    PROVE  Types' /\ Sized'
<1> DEFINE b == BinOf(size)
<1>1. b \in Bins
  BY PoolAssumption
<1> HIDE DEF b
<1>2. GetOrCreate(t) /\ generation \in 0 .. life /\ t \in Threads
  BY ThreadsAre DEF Acquire, Types
<1>3. /\ registered' \in Seq(Users)
      /\ cache' \in [Users -> {"none", "live", "marked", "freed"}]
      /\ slot' \in [Users -> 0 .. life] /\ fls' \in [Users -> BOOLEAN]
  BY <1>2, TypesOfAttach
<1>4. UNCHANGED <<global, life, generation, tags, retired, flsOpen, ret, todo,
                  victim, lost, buried, unmapped>>
  BY DEF Acquire
<1>5. CASE list[t][b] # <<>> /\ HandOut(t, b, list[t][b]) /\ UNCHANGED <<bin, pc>>
  <2>1. list[t][b] \in Seq(Ids) /\ Len(list[t][b]) <= CacheCap(b) + 1
    <3>1. list[t][b] \in Seq(Ids) /\ Len(list[t][b]) <= CacheCap(b)
      BY <1>1 DEF Types, Sized
    <3> QED BY <1>1, <3>1, Batches
  <2>2. /\ list' \in [Users -> [Bins -> Seq(Ids)]] /\ balance' \in [Users -> Int]
        /\ out' \subseteq Ids
        /\ \A u \in Users, c \in Bins : Len(list'[u][c]) <= CacheCap(c)
    BY <1>1, <1>5, <2>1, TypesOfHandOut
  <2>3. Types'
    BY <1>3, <1>4, <1>5, <2>2 DEF Types, Ids
  <2>4. Sized'
    BY <1>4, <1>5, <2>2 DEF Sized
  <2> QED BY <2>3, <2>4
<1>6. CASE bin' = [bin EXCEPT ![t] = b] /\ Goto(t, "pop") /\ UNCHANGED <<list, balance, out>>
           /\ pc[t] = "idle"
  <2>1. bin' \in [Threads -> Bins] /\ pc' \in [Threads -> PCs]
    BY <1>1, <1>2, <1>6 DEF Types, PCs
  <2>2. Types'
    BY <1>3, <1>4, <1>6, <2>1 DEF Types, Ids
  <2>3. todo[t] = <<>>
    BY <1>6 DEF Control, UserControl
  <2>4. ASSUME NEW u \in Users, NEW i \in DOMAIN todo[u] PROVE Len(todo[u][i]) <= Batch(bin'[u])
    <3>1. u # t
      BY <2>3, <2>4
    <3>2. bin'[u] = bin[u]
      BY <1>6, <3>1, ThreadsAre DEF Types
    <3> QED BY <3>2 DEF Sized
  <2>5. Sized'
    BY <1>4, <1>6, <2>4 DEF Sized
  <2> QED BY <2>2, <2>5
<1> QED BY <1>5, <1>6 DEF Acquire, b

(* t pops a chunk of its bin, in one of the three places where it tries.   *)
LEMMA TypesPop ==
    ASSUME Types, Sized, NEW t \in Users, NEW b, b = bin[t], stock[b] # <<>>,
           stock' = [stock EXCEPT ![b] = Tail(@)], HandOut(t, b, Head(stock[b]))
    PROVE  /\ stock' \in [Bins -> Seq(Seq(Ids) \ {<<>>})]
           /\ \A c \in Bins : \A i \in DOMAIN stock'[c] : Len(stock'[c][i]) <= Batch(c)
           /\ list' \in [Users -> [Bins -> Seq(Ids)]] /\ balance' \in [Users -> Int]
           /\ out' \subseteq Ids
           /\ \A u \in Users, c \in Bins : Len(list'[u][c]) <= CacheCap(c)
<1>1. b \in Bins
  BY ThreadsAre DEF Types
<1>2. /\ Head(stock[b]) \in Seq(Ids) /\ Head(stock[b]) # <<>>
      /\ Len(Head(stock[b])) <= CacheCap(b) + 1
      /\ stock' \in [Bins -> Seq(Seq(Ids) \ {<<>>})]
      /\ \A c \in Bins : \A i \in DOMAIN stock'[c] : Len(stock'[c][i]) <= Batch(c)
  BY <1>1, ChunkOfStock
<1>3. /\ list' \in [Users -> [Bins -> Seq(Ids)]] /\ balance' \in [Users -> Int]
      /\ out' \subseteq Ids
      /\ \A u \in Users, c \in Bins : Len(list'[u][c]) <= CacheCap(c)
  BY <1>1, <1>2, TypesOfHandOut
<1> QED BY <1>2, <1>3

LEMMA TypesPopChunk ==
    ASSUME Types, Sized, NEW t \in Users, PopChunk(t)
    PROVE  Types' /\ Sized'
<1> DEFINE b == bin[t]
<1>1. t \in Threads /\ pc' \in [Threads -> PCs]
  <2>1. pc' = [pc EXCEPT ![t] = "idle"] \/ pc' = [pc EXCEPT ![t] = "lock"]
    BY DEF PopChunk
  <2>2. "idle" \in PCs /\ "lock" \in PCs
    BY DEF PCs
  <2> QED BY <2>1, <2>2, ThreadsAre, Goes
<1>2. UNCHANGED <<blocks, growLock, committed, segments, registry, cache, slot,
                  fls, ret, bin, todo, victim, lost, buried, unmapped>>
  BY DEF PopChunk
<1> HIDE DEF b
<1>3. CASE stock[b] # <<>> /\ stock' = [stock EXCEPT ![b] = Tail(@)]
           /\ HandOut(t, b, Head(stock[b]))
  <2>1. /\ stock' \in [Bins -> Seq(Seq(Ids) \ {<<>>})]
        /\ \A c \in Bins : \A i \in DOMAIN stock'[c] : Len(stock'[c][i]) <= Batch(c)
        /\ list' \in [Users -> [Bins -> Seq(Ids)]] /\ balance' \in [Users -> Int]
        /\ out' \subseteq Ids
        /\ \A u \in Users, c \in Bins : Len(list'[u][c]) <= CacheCap(c)
    BY <1>3, TypesPop DEF b
  <2>2. Types'
    BY <1>1, <1>2, <2>1 DEF Types, Ids
  <2> QED BY <1>2, <2>1, <2>2 DEF Sized
<1>4. CASE UNCHANGED <<stock, list, balance, out>>
  <2>1. Types'
    BY <1>1, <1>2, <1>4 DEF Types, Ids
  <2> QED BY <1>2, <1>4, <2>1 DEF Sized
<1> QED BY <1>3, <1>4 DEF PopChunk, b

LEMMA TypesPopOrGrow ==
    ASSUME Types, Sized, NEW t \in Users, PopOrGrow(t)
    PROVE  Types' /\ Sized'
<1> DEFINE b == bin[t]
<1>1. t \in Threads /\ pc' \in [Threads -> PCs] /\ b \in Bins
  <2>1. pc \in [Threads -> PCs] /\ bin \in [Threads -> Bins] /\ t \in Threads
    BY ThreadsAre DEF Types
  <2>2. PICK to \in {"idle", "grow"} : pc' = [pc EXCEPT ![t] = to]
    BY DEF PopOrGrow
  <2> QED BY <2>1, <2>2 DEF PCs
<1>2. UNCHANGED <<blocks, committed, segments, registry, cache, slot, fls, ret,
                  bin, todo, victim, lost, buried, unmapped>>
  BY DEF PopOrGrow
<1> HIDE DEF b
<1>3. CASE stock[b] # <<>> /\ stock' = [stock EXCEPT ![b] = Tail(@)]
           /\ HandOut(t, b, Head(stock[b])) /\ UNCHANGED growLock
  <2>1. /\ stock' \in [Bins -> Seq(Seq(Ids) \ {<<>>})]
        /\ \A c \in Bins : \A i \in DOMAIN stock'[c] : Len(stock'[c][i]) <= Batch(c)
        /\ list' \in [Users -> [Bins -> Seq(Ids)]] /\ balance' \in [Users -> Int]
        /\ out' \subseteq Ids
        /\ \A u \in Users, c \in Bins : Len(list'[u][c]) <= CacheCap(c)
    BY <1>3, TypesPop DEF b
  <2>2. Types'
    BY <1>1, <1>2, <1>3, <2>1 DEF Types, Ids
  <2> QED BY <1>2, <2>1, <2>2 DEF Sized
<1>4. CASE growLock' = [growLock EXCEPT ![b] = t] /\ UNCHANGED <<stock, list, balance, out>>
  <2>1. growLock' \in [Bins -> Users \cup {NoThread}]
    BY <1>1, <1>4 DEF Types
  <2>2. Types'
    BY <1>1, <1>2, <1>4, <2>1 DEF Types, Ids
  <2> QED BY <1>2, <1>4, <2>2 DEF Sized
<1> QED BY <1>3, <1>4 DEF PopOrGrow, b

LEMMA TypesCheckLimit ==
    ASSUME Types, Sized, NEW t \in Users, CheckLimit(t)
    PROVE  Types' /\ Sized'
<1>1. t \in Threads /\ bin[t] \in Bins /\ pc' \in [Threads -> PCs]
  BY ThreadsAre DEF CheckLimit, Types, PCs
<1>2. growLock' \in [Bins -> Users \cup {NoThread}]
  BY <1>1 DEF CheckLimit, Types
<1>3. UNCHANGED <<blocks, stock, committed, segments, registry, caches, ret,
                  bin, todo, victim, ghosts>>
  BY DEF CheckLimit
<1>4. Types'
  BY <1>1, <1>2, <1>3 DEF Types, Ids
<1> QED BY <1>3, <1>4 DEF Sized

LEMMA TypesPopGrown ==
    ASSUME Types, Sized, NEW t \in Users, PopGrown(t)
    PROVE  Types' /\ Sized'
<1> DEFINE b == bin[t]
<1>1. t \in Threads /\ b \in Bins /\ pc' \in [Threads -> PCs]
      /\ growLock' \in [Bins -> Users \cup {NoThread}]
  BY ThreadsAre DEF PopGrown, Types, PCs
<1>2. UNCHANGED <<blocks, committed, segments, registry, cache, slot, fls, ret,
                  bin, todo, victim, lost, buried, unmapped>>
  BY DEF PopGrown
<1> HIDE DEF b
<1>3. CASE stock[b] # <<>> /\ stock' = [stock EXCEPT ![b] = Tail(@)]
           /\ HandOut(t, b, Head(stock[b]))
  <2>1. /\ stock' \in [Bins -> Seq(Seq(Ids) \ {<<>>})]
        /\ \A c \in Bins : \A i \in DOMAIN stock'[c] : Len(stock'[c][i]) <= Batch(c)
        /\ list' \in [Users -> [Bins -> Seq(Ids)]] /\ balance' \in [Users -> Int]
        /\ out' \subseteq Ids
        /\ \A u \in Users, c \in Bins : Len(list'[u][c]) <= CacheCap(c)
    BY <1>3, TypesPop DEF b
  <2>2. Types'
    BY <1>1, <1>2, <2>1 DEF Types, Ids
  <2> QED BY <1>2, <2>1, <2>2 DEF Sized
<1>4. CASE UNCHANGED <<stock, list, balance, out>>
  <2>1. Types'
    BY <1>1, <1>2, <1>4 DEF Types, Ids
  <2> QED BY <1>2, <1>4, <2>1 DEF Sized
<1> QED BY <1>3, <1>4 DEF PopGrown, b

(* The pool grows: new blocks, the old ones as they were.                  *)
LEMMA MoreBlocks ==
    ASSUME Types, NEW more \in Seq([bin : Bins, life : 1 .. life']), life' \in Nat, life <= life',
           blocks' = blocks \o more
    PROVE  LET fresh == Len(blocks) + 1 .. Len(blocks) + Len(more)
           IN  /\ blocks' \in Seq([bin : Bins, life : 1 .. life'])
               /\ Len(blocks) \in Nat /\ Len(more) \in Nat
               /\ Ids' = Ids \cup fresh /\ Ids \cap fresh = {} /\ Ids \subseteq Ids'
               /\ \A x \in Ids : blocks'[x] = blocks[x]
               /\ \A x \in fresh : x - Len(blocks) \in DOMAIN more
                                   /\ blocks'[x] = more[x - Len(blocks)]
               /\ Seq(Ids) \subseteq Seq(Ids')
<1> DEFINE B(l) == [bin : Bins, life : 1 .. l]
<1>1. blocks \in Seq(B(life)) /\ life \in Nat
  BY PoolAssumption DEF Types
<1>2. B(life) \subseteq B(life')
  BY <1>1
<1>3. blocks \in Seq(B(life'))
  <2> HIDE DEF B
  <2> QED BY <1>1, <1>2
<1> HIDE DEF B
<1>4. more \in Seq(B(life'))
  BY DEF B
<1>5. /\ blocks' \in Seq(B(life')) /\ Len(blocks') = Len(blocks) + Len(more)
      /\ Len(blocks) \in Nat /\ Len(more) \in Nat
      /\ \A x \in 1 .. Len(blocks) : blocks'[x] = blocks[x]
      /\ \A x \in Len(blocks) + 1 .. Len(blocks) + Len(more) :
            x - Len(blocks) \in DOMAIN more /\ blocks'[x] = more[x - Len(blocks)]
  BY <1>3, <1>4
<1>6. Ids = 1 .. Len(blocks) /\ Ids' = 1 .. Len(blocks')
  BY DEF Ids
<1>7. Ids \subseteq Ids'
  BY <1>5, <1>6
<1>8. Seq(Ids) \subseteq Seq(Ids')
  <2> HIDE <1>6
  <2> QED BY <1>7
<1> QED BY <1>5, <1>6, <1>7, <1>8 DEF B

LEMMA TypesMapSegment ==
    ASSUME Types, Sized, Control, NEW t \in Users, MapSegment(t)
    PROVE  Types' /\ Sized'
<1> DEFINE b == bin[t]
           count == BlocksPerSegment(b)
           new == Chunks(Len(blocks) + 1, b, count)
<1>1. t \in Threads /\ b \in Bins /\ count \in Nat /\ BytesOf(b, count) \in Nat
  <2>1. t \in Threads /\ b \in Bins
    BY ThreadsAre DEF Types
  <2> QED BY <2>1, Segments, Bytes
<1>2. UNCHANGED <<stock, registry, caches, ret, bin, victim, ghosts>>
  BY DEF MapSegment
<1>3. pc' \in [Threads -> PCs]
  <2>1. pc' = [pc EXCEPT ![t] = "carve"] \/ pc' = [pc EXCEPT ![t] = "idle"]
    BY DEF MapSegment
  <2>2. "carve" \in PCs /\ "idle" \in PCs
    BY DEF PCs
  <2> QED BY <1>1, <2>1, <2>2, Goes
<1> HIDE DEF count, b
<1>4. CASE /\ segments < MaxSegments /\ segments' = segments + 1
           /\ committed' = committed + BytesOf(b, count)
           /\ blocks' = blocks \o NewBlocks(b, count)
           /\ todo' = [todo EXCEPT ![t] = new]
           /\ UNCHANGED growLock
  <2>1. life > 0 /\ life \in Nat
    <3>1. pc[t] = "map"
      BY DEF MapSegment
    <3>2. InUse
      BY <3>1 DEF Control, UserControl, Working
    <3> QED BY <3>2, PoolAssumption DEF Control, MainControl, Types, InUse
  <2>2. NewBlocks(b, count) \in Seq([bin : Bins, life : 1 .. life']) /\ Len(NewBlocks(b, count)) = count
    BY <1>1, <1>2, <2>1 DEF NewBlocks
  <2> DEFINE fresh == Len(blocks) + 1 .. Len(blocks) + count
  <2>3. /\ blocks' \in Seq([bin : Bins, life : 1 .. life'])
        /\ Len(blocks) \in Nat /\ Ids \subseteq Ids' /\ Ids' = Ids \cup fresh
        /\ Seq(Ids) \subseteq Seq(Ids')
    <3> DEFINE more == NewBlocks(b, count)
    <3> HIDE DEF more
    <3>1. /\ more \in Seq([bin : Bins, life : 1 .. life']) /\ life' \in Nat /\ life <= life'
          /\ blocks' = blocks \o more /\ Len(more) = count
      BY <1>2, <1>4, <2>1, <2>2 DEF more
    <3> QED BY <3>1, MoreBlocks
  <2>4. /\ new \in Seq(Seq(fresh) \ {<<>>})
        /\ \A i \in DOMAIN new : Len(new[i]) <= Batch(b)
    <3>1. Len(blocks) + 1 \in Nat /\ fresh = Len(blocks) + 1 .. (Len(blocks) + 1) + count - 1
      BY <1>1, <2>3
    <3> HIDE DEF fresh
    <3> QED BY <1>1, <3>1, Carved
  <2> HIDE DEF new, fresh
  <2>5. new \in Seq(Seq(Ids') \ {<<>>})
    <3>1. Seq(fresh) \ {<<>>} \subseteq Seq(Ids') \ {<<>>}
      BY <2>3
    <3> QED BY <2>4, <3>1
  <2>6. Seq(Ids) \ {<<>>} \subseteq Seq(Ids') \ {<<>>}
    BY <2>3
  <2>7. Seq(Seq(Ids) \ {<<>>}) \subseteq Seq(Seq(Ids') \ {<<>>})
    BY <2>6
  <2>8. todo' \in [Threads -> Seq(Seq(Ids') \ {<<>>})]
    BY <1>1, <1>4, <2>5, <2>7 DEF Types
  <2>9. stock' \in [Bins -> Seq(Seq(Ids') \ {<<>>})] /\ list' \in [Users -> [Bins -> Seq(Ids')]]
    BY <1>2, <2>3, <2>7 DEF Types
  <2>10. committed' \in Nat /\ segments' \in 0 .. MaxSegments
    BY <1>1, <1>4, PoolAssumption DEF Types
  <2>11. out' \subseteq Ids' /\ lost' \subseteq Ids' /\ buried' \subseteq Ids'
    BY <1>2, <2>3 DEF Types
  <2>12. Types'
    BY <1>2, <1>3, <1>4, <2>3, <2>8, <2>9, <2>10, <2>11 DEF Types
  <2>13. ASSUME NEW u \in Users, NEW i \in DOMAIN todo'[u]
         PROVE  Len(todo'[u][i]) <= Batch(bin'[u])
    <3>1. CASE u = t
      <4>1. todo'[u] = new /\ bin'[u] = b
        BY <1>1, <1>2, <1>4, <3>1 DEF b, Types
      <4> QED BY <2>4, <2>13, <4>1
    <3>2. CASE u # t
      <4>1. todo'[u] = todo[u] /\ bin'[u] = bin[u]
        BY <1>2, <1>4, <3>2, ThreadsAre DEF Types
      <4> QED BY <2>13, <4>1 DEF Sized
    <3> QED BY <3>1, <3>2
  <2>14. Sized'
    BY <1>2, <2>13 DEF Sized
  <2> QED BY <2>12, <2>14
<1>5. CASE /\ growLock' = [growLock EXCEPT ![b] = NoThread]
           /\ UNCHANGED <<segments, committed, blocks, todo>>
  <2>1. growLock' \in [Bins -> Users \cup {NoThread}]
    BY <1>1, <1>5 DEF Types
  <2>2. Types'
    BY <1>2, <1>3, <1>5, <2>1 DEF Types, Ids
  <2> QED BY <1>2, <1>5, <2>2 DEF Sized
<1> QED BY <1>4, <1>5 DEF MapSegment, b, count

LEMMA TypesCarve ==
    ASSUME Types, Sized, Control, NEW t \in Users, CarveAndPush(t)
    PROVE  Types' /\ Sized'
<1> DEFINE b == bin[t]
           s == todo[t]
           S == Seq(Ids) \ {<<>>}
<1>1. t \in Threads /\ b \in Bins /\ s \in Seq(S) /\ s # <<>>
  BY ThreadsAre DEF Types, CarveAndPush, Control, UserControl
<1> HIDE DEF S
<1>2. /\ Head(s) \in S /\ 1 \in DOMAIN s /\ Head(s) = s[1] /\ Tail(s) \in Seq(S)
      /\ \A i \in DOMAIN Tail(s) : i + 1 \in DOMAIN s /\ Tail(s)[i] = s[i + 1]
  BY <1>1
<1>3. Len(Head(s)) <= Batch(b) /\ \A i \in DOMAIN Tail(s) : Len(Tail(s)[i]) <= Batch(b)
  BY <1>2 DEF Sized
<1>4. /\ stock' = [stock EXCEPT ![b] = <<Head(s)>> \o @]
      /\ todo' = [todo EXCEPT ![t] = Tail(s)]
      /\ UNCHANGED <<blocks, growLock, committed, segments, registry, caches, ret,
                     bin, victim, ghosts>>
  BY DEF CarveAndPush, Types
<1>5. /\ stock' \in [Bins -> Seq(Seq(Ids) \ {<<>>})]
      /\ \A c \in Bins : \A i \in DOMAIN stock'[c] : Len(stock'[c][i]) <= Batch(c)
  BY <1>1, <1>2, <1>3, <1>4, TypesOfPush DEF S, PushChunk
<1> HIDE DEF s, b
<1>6. todo' \in [Threads -> Seq(Seq(Ids) \ {<<>>})]
  BY <1>1, <1>2, <1>4 DEF Types, S
<1>7. pc' \in [Threads -> PCs]
  <2>1. pc' = [pc EXCEPT ![t] = "last"] \/ pc' = [pc EXCEPT ![t] = "carve"]
    BY DEF CarveAndPush
  <2>2. "carve" \in PCs /\ "last" \in PCs
    BY DEF PCs
  <2> QED BY <1>1, <2>1, <2>2, Goes
<1>8. Types'
  BY <1>4, <1>5, <1>6, <1>7 DEF Types, Ids
<1>9. ASSUME NEW u \in Users, NEW i \in DOMAIN todo'[u] PROVE Len(todo'[u][i]) <= Batch(bin'[u])
  <2>1. CASE u = t
    <3>1. todo'[u] = Tail(s) /\ bin'[u] = b
      BY <1>1, <1>4, <2>1 DEF Types, b
    <3> QED BY <1>3, <1>9, <3>1
  <2>2. CASE u # t
    <3>1. todo'[u] = todo[u] /\ bin'[u] = bin[u]
      BY <1>4, <2>2, ThreadsAre DEF Types
    <3> QED BY <1>9, <3>1 DEF Sized
  <2> QED BY <2>1, <2>2
<1>10. Sized'
  BY <1>4, <1>5, <1>9 DEF Sized
<1> QED BY <1>8, <1>10

LEMMA Returned ==
    ASSUME Types, NEW t \in Users, NEW block \in out, Release(t, block)
    PROVE  /\ block \in Ids /\ blocks[block].bin \in Bins
           /\ generation \in 0 .. life /\ t \in Threads
<1>1. block \in Ids /\ t \in Threads
  BY ThreadsAre DEF Types
<1>2. blocks[block] \in [bin : Bins, life : 1 .. life]
  <2> DEFINE B == [bin : Bins, life : 1 .. life]
  <2>1. blocks \in Seq(B) /\ block \in 1 .. Len(blocks)
    BY <1>1 DEF Types, Ids
  <2> HIDE DEF B
  <2>2. blocks[block] \in B
    BY <2>1
  <2> QED BY <2>2 DEF B
<1>3. generation \in 0 .. life
  BY PoolAssumption DEF Types
<1> QED BY <1>1, <1>2, <1>3

LEMMA TypesRelease ==
    ASSUME Types, Sized, NEW t \in Users, NEW block \in out, Release(t, block)
    PROVE  Types' /\ Sized'
<1> DEFINE b == blocks[block].bin
           grown == <<block>> \o list[t][b]
<1>1. block \in Ids /\ b \in Bins /\ generation \in 0 .. life /\ t \in Threads
  BY Returned
<1>2. UNCHANGED <<blocks, growLock, committed, segments, life, generation, tags,
                  retired, flsOpen, ret, bin, todo, victim, lost, buried, unmapped>>
  BY DEF Release
<1>3. out' \subseteq Ids
  BY DEF Release, Types
<1> HIDE DEF b
<1>4. CASE GetOrCreate(t) /\ Push(t, b, block) /\ UNCHANGED pc
  <2>1. /\ registered' \in Seq(Users)
        /\ cache' \in [Users -> {"none", "live", "marked", "freed"}]
        /\ slot' \in [Users -> 0 .. life] /\ fls' \in [Users -> BOOLEAN]
    BY <1>1, <1>4, TypesOfAttach
  <2>2. balance' \in [Users -> Int]
    BY <1>4 DEF Push, Types
  <2>3. list[t][b] \in Seq(Ids) /\ Len(list[t][b]) <= CacheCap(b)
    BY <1>1 DEF Types, Sized
  <2>4. grown \in Seq(Ids) /\ Len(grown) = Len(list[t][b]) + 1 /\ Len(list[t][b]) \in Nat
    BY <1>1, <2>3, GrownList
  <2>5. CacheCap(b) \in Nat /\ Batch(b) \in Nat \ {0} /\ Batch(b) - 1 <= CacheCap(b)
    BY <1>1, Batches
  <2> HIDE DEF grown
  <2>6. CASE Len(grown) <= CacheCap(b) /\ list' = [list EXCEPT ![t][b] = grown]
             /\ UNCHANGED stock
    <3>1. list' \in [Users -> [Bins -> Seq(Ids)]]
      BY <1>1, <2>4, <2>6 DEF Types
    <3>2. \A u \in Users, c \in Bins : Len(list'[u][c]) <= CacheCap(c)
      BY <1>1, <2>6 DEF Types, Sized
    <3>3. Types'
      BY <1>2, <1>3, <1>4, <2>1, <2>2, <2>6, <3>1 DEF Types, Ids
    <3> QED BY <1>2, <2>6, <3>2, <3>3 DEF Sized
  <2>7. CASE /\ Len(grown) > CacheCap(b)
             /\ list' = [list EXCEPT ![t][b] = Drop(grown, Batch(b))]
             /\ PushChunk(b, Take(grown, Batch(b)))
    <3>1. Batch(b) \in 0 .. Len(grown)
      BY <2>4, <2>5, <2>7
    <3>2. /\ Take(grown, Batch(b)) \in Seq(Ids) \ {<<>>}
          /\ Len(Take(grown, Batch(b))) <= Batch(b)
          /\ Drop(grown, Batch(b)) \in Seq(Ids)
          /\ Len(Drop(grown, Batch(b))) <= CacheCap(b)
      <4>1. /\ Take(grown, Batch(b)) \in Seq(Ids) /\ Len(Take(grown, Batch(b))) = Batch(b)
            /\ Drop(grown, Batch(b)) \in Seq(Ids)
            /\ Len(Drop(grown, Batch(b))) = Len(grown) - Batch(b)
        BY <2>4, <3>1, CutList
      <4>2. Take(grown, Batch(b)) # <<>>
        BY <2>5, <4>1
      <4>3. Len(grown) - Batch(b) <= CacheCap(b)
        BY <2>3, <2>4, <2>5
      <4>4. Batch(b) <= Batch(b)
        BY <2>5
      <4> QED BY <4>1, <4>2, <4>3, <4>4
    <3>3. /\ stock' \in [Bins -> Seq(Seq(Ids) \ {<<>>})]
          /\ \A c \in Bins : \A i \in DOMAIN stock'[c] : Len(stock'[c][i]) <= Batch(c)
      BY <1>1, <2>7, <3>2, TypesOfPush
    <3>4. list' \in [Users -> [Bins -> Seq(Ids)]]
      BY <1>1, <2>7, <3>2 DEF Types
    <3>5. \A u \in Users, c \in Bins : Len(list'[u][c]) <= CacheCap(c)
      BY <1>1, <2>7, <3>2 DEF Types, Sized
    <3>6. Types'
      BY <1>2, <1>3, <1>4, <2>1, <2>2, <3>3, <3>4 DEF Types, Ids
    <3> QED BY <1>2, <3>3, <3>5, <3>6 DEF Sized
  <2> QED BY <1>4, <2>6, <2>7 DEF Push, grown
<1>5. CASE /\ ~Found(t) /\ PushChunk(b, <<block>>)
           /\ Goto(t, "orphan") /\ UNCHANGED <<caches, registered>>
  <2>1. <<block>> \in Seq(Ids) \ {<<>>} /\ Len(<<block>>) = 1
    BY <1>1
  <2>2. Len(<<block>>) <= Batch(b)
    BY <1>1, <2>1, Batches
  <2>3. /\ stock' \in [Bins -> Seq(Seq(Ids) \ {<<>>})]
        /\ \A c \in Bins : \A i \in DOMAIN stock'[c] : Len(stock'[c][i]) <= Batch(c)
    BY <1>1, <1>5, <2>1, <2>2, TypesOfPush
  <2>4. pc' \in [Threads -> PCs]
    BY <1>1, <1>5 DEF Types, PCs
  <2>5. Types'
    BY <1>2, <1>3, <1>5, <2>3, <2>4 DEF Types, Ids
  <2> QED BY <1>2, <1>5, <2>3, <2>5 DEF Sized
<1> QED BY <1>4, <1>5 DEF Release, b

LEMMA TypesNoteOrphanRelease ==
    ASSUME Types, Sized, NEW t \in Users, NoteOrphanRelease(t)
    PROVE  Types' /\ Sized'
<1>1. retired' \in Int /\ pc' \in [Threads -> PCs]
  BY ThreadsAre DEF NoteOrphanRelease, Types, PCs
<1>2. UNCHANGED <<global, life, generation, tags, registered, flsOpen, caches,
                  ret, bin, todo, victim, ghosts>>
  BY DEF NoteOrphanRelease
<1>3. Types'
  BY <1>1, <1>2 DEF Types, Ids
<1> QED BY <1>2, <1>3 DEF Sized

LEMMA TypesReleaseRefused ==
    ASSUME Types, Sized, NEW t \in Users, NEW block \in out, ReleaseRefused(t, block)
    PROVE  Types' /\ Sized'
<1>1. out' \subseteq Ids /\ lost' \subseteq Ids
  BY DEF ReleaseRefused, Types
<1>2. UNCHANGED <<global, registry, caches, locals, buried, unmapped>>
  BY DEF ReleaseRefused
<1>3. Types'
  BY <1>1, <1>2 DEF Types, Ids
<1> QED BY <1>2, <1>3 DEF Sized

LEMMA TypesThreadExit ==
    ASSUME Types, Sized, NEW t \in Users, ThreadExit(t)
    PROVE  Types' /\ Sized'
<1>1. pc' \in [Threads -> PCs] /\ ret' \in [Threads -> PCs]
      /\ victim' \in [Threads -> Users \cup {NoThread}]
  <2>0. t \in Threads /\ {"detach", "gone"} \subseteq PCs
    BY ThreadsAre DEF PCs
  <2>1. CASE fls[t] /\ flsOpen
    <3>1. /\ victim' = [victim EXCEPT ![t] = t] /\ ret' = [ret EXCEPT ![t] = "gone"]
          /\ pc' = [pc EXCEPT ![t] = "detach"]
      BY <2>1 DEF ThreadExit
    <3> QED BY <2>0, <3>1 DEF Types
  <2>2. CASE ~(fls[t] /\ flsOpen)
    <3>1. UNCHANGED <<victim, ret>> /\ pc' = [pc EXCEPT ![t] = "gone"]
      BY <2>2 DEF ThreadExit
    <3> QED BY <2>0, <3>1 DEF Types
  <2> QED BY <2>1, <2>2
<1>2. fls' \in [Users -> BOOLEAN]
  BY DEF ThreadExit, Types
<1>3. UNCHANGED <<global, registry, cache, list, balance, slot, bin, todo, ghosts>>
  BY DEF ThreadExit
<1>4. Types'
  BY <1>1, <1>2, <1>3 DEF Types, Ids
<1> QED BY <1>3, <1>4 DEF Sized

(* A thread leaves Detach.                                                 *)
LEMMA TypesOfLeave ==
    ASSUME Types, NEW t \in Threads, Leave(t)
    PROVE  /\ pc' \in [Threads -> PCs] /\ ret' \in [Threads -> PCs]
           /\ victim' \in [Threads -> Users \cup {NoThread}]
BY DEF Leave, Types, PCs

(* Whoever is in Detach has a cache to take apart.                         *)
LEMMA HasVictim ==
    ASSUME Control, NEW t \in Threads, pc[t] \in Detaching
    PROVE  victim[t] \in Users
BY ThreadsAre DEF Control, MainControl, UserControl

LEMMA TypesDetach ==
    ASSUME Types, Sized, Control, NEW t \in Threads, Detach(t)
    PROVE  Types' /\ Sized'
<1> DEFINE v == victim[t]
<1>1. v \in Users
  BY HasVictim DEF Detach, Detaching
<1>2. UNCHANGED <<global, registry, list, balance, slot, fls, bin, todo, ghosts>>
  BY DEF Detach
<1>3. CASE /\ cache' = [cache EXCEPT ![v] = "marked"] /\ Goto(t, "flush")
           /\ UNCHANGED <<ret, victim>>
  <2>1. cache' \in [Users -> {"none", "live", "marked", "freed"}]
        /\ pc' \in [Threads -> PCs]
    BY <1>1, <1>3 DEF Types, PCs
  <2>2. Types'
    BY <1>2, <1>3, <2>1 DEF Types, Ids
  <2> QED BY <1>2, <2>2 DEF Sized
<1>4. CASE Leave(t) /\ UNCHANGED cache
  <2>1. /\ pc' \in [Threads -> PCs] /\ ret' \in [Threads -> PCs]
        /\ victim' \in [Threads -> Users \cup {NoThread}]
    BY <1>4, TypesOfLeave
  <2>2. Types'
    BY <1>2, <1>4, <2>1 DEF Types, Ids
  <2> QED BY <1>2, <2>2 DEF Sized
<1> QED BY <1>3, <1>4 DEF Detach

(* The list that FlushAll works on, and what it takes from it.             *)
FirstCached(v) == CHOOSE c \in Cached(v) : \A d \in Cached(v) : c <= d
ToFlush(v, b) == IF Batch(b) > Len(list[v][b]) THEN Len(list[v][b]) ELSE Batch(b)

LEMMA Flushed ==
    ASSUME Types, NEW v \in Users, Cached(v) # {}, NEW b, b = FirstCached(v)
    PROVE  /\ b \in Bins /\ list[v][b] \in Seq(Ids) /\ list[v][b] # <<>>
           /\ Len(list[v][b]) \in Nat
           /\ ToFlush(v, b) \in 1 .. Len(list[v][b]) /\ ToFlush(v, b) <= Batch(b)
<1>1. Cached(v) \in SUBSET Nat /\ Cached(v) \subseteq Bins
  BY BinsAre DEF Cached
<1>2. \E c \in Cached(v) : \A d \in Cached(v) : ~(d < c)
  BY <1>1, LeastNatural
<1>3. \E c \in Cached(v) : \A d \in Cached(v) : c <= d
  BY <1>1, <1>2
<1>4. b \in Cached(v)
  BY <1>3 DEF FirstCached
<1>5. b \in Bins /\ list[v][b] # <<>> /\ list[v][b] \in Seq(Ids)
  BY <1>1, <1>4 DEF Cached, Types
<1>6. Len(list[v][b]) \in Nat \ {0}
  BY <1>5
<1>7. Batch(b) \in Nat \ {0}
  BY <1>5, Batches
<1> QED BY <1>5, <1>6, <1>7 DEF ToFlush

LEMMA FlushAllIs ==
    ASSUME NEW t \in Threads, NEW v, v = victim[t], NEW b, b = FirstCached(v), FlushAll(t)
    PROVE  /\ pc[t] = "flush" /\ Cached(v) # {}
           /\ stock' = [stock EXCEPT ![b] = <<Take(list[v][b], ToFlush(v, b))>> \o @]
           /\ list' = [list EXCEPT ![v][b] = Drop(@, ToFlush(v, b))]
           /\ UNCHANGED <<blocks, growLock, committed, segments, registry, cache,
                          balance, slot, fls, locals, ghosts>>
BY DEF FlushAll, PushChunk, FirstCached, ToFlush

LEMMA TypesFlushAll ==
    ASSUME Types, Sized, Control, NEW t \in Threads, FlushAll(t)
    PROVE  Types' /\ Sized'
<1> DEFINE v == victim[t]
           b == FirstCached(v)
           n == ToFlush(v, b)
           l == list[v][b]
<1>1. v \in Users
  BY HasVictim DEF FlushAll, Detaching
<1>2. /\ pc[t] = "flush" /\ Cached(v) # {}
      /\ stock' = [stock EXCEPT ![b] = <<Take(l, n)>> \o @]
      /\ list' = [list EXCEPT ![v][b] = Drop(@, n)]
      /\ UNCHANGED <<blocks, growLock, committed, segments, registry, cache,
                     balance, slot, fls, locals, ghosts>>
  BY FlushAllIs, Zenon
<1> HIDE DEF v
<1>3. b \in Bins /\ l \in Seq(Ids) /\ Len(l) \in Nat /\ n \in 1 .. Len(l) /\ n <= Batch(b)
  BY <1>1, <1>2, Flushed, Zenon
<1> HIDE DEF b, n
<1>4. /\ Take(l, n) \in Seq(Ids) \ {<<>>} /\ Len(Take(l, n)) <= Batch(b)
      /\ Drop(l, n) \in Seq(Ids) /\ Len(Drop(l, n)) <= CacheCap(b)
  <2>1. n \in 0 .. Len(l)
    BY <1>3
  <2>2. /\ Take(l, n) \in Seq(Ids) /\ Len(Take(l, n)) = n
        /\ Drop(l, n) \in Seq(Ids) /\ Len(Drop(l, n)) = Len(l) - n
    <3>1. PICK X, s, m : X = Ids /\ s = l /\ m = n
      OBVIOUS
    <3>2. s \in Seq(X) /\ m \in 0 .. Len(s)
      BY <1>3, <2>1, <3>1
    <3>3. /\ Take(s, m) \in Seq(X) /\ Len(Take(s, m)) = m
          /\ Drop(s, m) \in Seq(X) /\ Len(Drop(s, m)) = Len(s) - m
      BY <3>2, CutList
    <3> QED BY <3>1, <3>3
  <2>3. Take(l, n) # <<>>
    BY <1>3, <2>2
  <2>4. Len(l) <= CacheCap(b) /\ CacheCap(b) \in Nat
    BY <1>1, <1>3, Batches DEF Sized
  <2> QED BY <1>3, <2>2, <2>3, <2>4
<1>5. /\ stock' \in [Bins -> Seq(Seq(Ids) \ {<<>>})]
      /\ \A c \in Bins : \A i \in DOMAIN stock'[c] : Len(stock'[c][i]) <= Batch(c)
  BY <1>2, <1>3, <1>4, TypesOfPush DEF PushChunk
<1>6. list' \in [Users -> [Bins -> Seq(Ids)]]
  BY <1>1, <1>2, <1>3, <1>4 DEF Types
<1>7. \A u \in Users, c \in Bins : Len(list'[u][c]) <= CacheCap(c)
  BY <1>1, <1>2, <1>3, <1>4 DEF Types, Sized
<1>8. Types'
  BY <1>2, <1>5, <1>6 DEF Types, Ids
<1> QED BY <1>2, <1>5, <1>7, <1>8 DEF Sized

LEMMA ZeroAt ==
    ASSUME NEW f \in [Users -> Int], NEW v \in Users, NEW g, g = [f EXCEPT ![v] = 0]
    PROVE  g \in [Users -> Int]
OBVIOUS

LEMMA TypesUnlink ==
    ASSUME Types, Sized, Control, NEW t \in Threads, Unlink(t)
    PROVE  Types' /\ Sized'
<1> DEFINE v == victim[t]
<1>1. v \in Users
  BY HasVictim DEF Unlink, Detaching
<1>2. PICK i \in DOMAIN registered : registered' = RemoveAt(registered, i)
  BY DEF Unlink
<1>3. registered' \in Seq(Users)
  <2>1. registered \in Seq(Users) /\ i \in 1 .. Len(registered)
    BY DEF Types
  <2>2. /\ SubSeq(registered, 1, i - 1) \in Seq(Users)
        /\ SubSeq(registered, i + 1, Len(registered)) \in Seq(Users)
    BY <2>1
  <2> HIDE DEF v
  <2> QED BY <1>2, <2>2 DEF RemoveAt
<1>4. retired' \in Int /\ balance' \in [Users -> Int] /\ pc' \in [Threads -> PCs]
  <2>1. /\ retired' = retired + balance[v] /\ balance' = [balance EXCEPT ![v] = 0]
        /\ pc' = [pc EXCEPT ![t] = "free"]
    BY DEF Unlink
  <2>2. retired \in Int /\ balance \in [Users -> Int]
    BY DEF Types
  <2>3. "free" \in PCs
    BY DEF PCs
  <2> HIDE DEF v
  <2>4. pc' \in [Threads -> PCs]
    BY <2>1, <2>3, Goes
  <2>5. balance' \in [Users -> Int]
    <3>1. balance' = [balance EXCEPT ![v] = 0] /\ balance \in [Users -> Int]
      BY <2>1, <2>2
    <3> QED BY <1>1, <3>1, ZeroAt
  <2>6. retired' \in Int
    BY <1>1, <2>1, <2>2
  <2> QED BY <2>4, <2>5, <2>6
<1>5. UNCHANGED <<global, life, generation, tags, flsOpen, cache, list, slot, fls,
                  ret, bin, todo, victim, ghosts>>
  BY DEF Unlink
<1>6. Types'
  BY <1>3, <1>4, <1>5 DEF Types, Ids
<1> QED BY <1>5, <1>6 DEF Sized

LEMMA TypesFreeCache ==
    ASSUME Types, Sized, Control, NEW t \in Threads, FreeCache(t)
    PROVE  Types' /\ Sized'
<1> DEFINE v == victim[t]
<1>1. v \in Users
  BY HasVictim DEF FreeCache, Detaching
<1>2. /\ pc' \in [Threads -> PCs] /\ ret' \in [Threads -> PCs]
      /\ victim' \in [Threads -> Users \cup {NoThread}]
  BY TypesOfLeave DEF FreeCache
<1>3. cache' \in [Users -> {"none", "live", "marked", "freed"}]
  BY <1>1 DEF FreeCache, Types
<1>4. slot' \in [Users -> 0 .. life]
  BY <1>1, PoolAssumption DEF FreeCache, Types
<1>5. UNCHANGED <<global, registry, list, balance, fls, bin, todo, ghosts>>
  BY DEF FreeCache
<1>6. Types'
  BY <1>2, <1>3, <1>4, <1>5 DEF Types, Ids
<1> QED BY <1>5, <1>6 DEF Sized

(* The blocks of Initialize, and where they go.                            *)
LEMMA InitialFacts ==
    ASSUME Types, life' = life + 1, blocks' = blocks \o InitialBlocks
    PROVE  /\ InitialBlocks \in Seq([bin : Bins, life : 1 .. life'])
           /\ Len(InitialBlocks) = Below(BinCount) /\ Below(BinCount) \in Nat
           /\ Len(blocks) \in Nat /\ life \in Nat
           /\ \A i \in DOMAIN InitialBlocks : InitialBlocks[i].life = life + 1
<1>1. life \in Nat /\ Len(blocks) \in Nat
  BY PoolAssumption DEF Types
<1>2. Below(BinCount) \in Nat
  BY BinsAre, BelowGrows
<1> DEFINE of(i) == CHOOSE b \in Bins : Below(b) < i /\ i <= Below(b + 1)
<1>3. \A i \in 1 .. Below(BinCount) : of(i) \in Bins
  BY EachHasItsBin
<1>4. InitialBlocks = [i \in 1 .. Below(BinCount) |-> [bin |-> of(i), life |-> life + 1]]
  BY DEF InitialBlocks, BinCount
<1> HIDE DEF of
<1>5. InitialBlocks \in [1 .. Below(BinCount) -> [bin : Bins, life : 1 .. life']]
  BY <1>1, <1>3, <1>4
<1>6. InitialBlocks \in Seq([bin : Bins, life : 1 .. life']) /\ Len(InitialBlocks) = Below(BinCount)
  <2> DEFINE B == [bin : Bins, life : 1 .. life']
  <2> HIDE DEF B
  <2>1. InitialBlocks \in [1 .. Below(BinCount) -> B]
    BY <1>5 DEF B
  <2>2. InitialBlocks \in Seq(B) /\ Len(InitialBlocks) = Below(BinCount)
    BY <1>2, <2>1
  <2> QED BY <2>2 DEF B
<1>7. \A i \in DOMAIN InitialBlocks : InitialBlocks[i].life = life + 1
  BY <1>4
<1> QED BY <1>1, <1>2, <1>6, <1>7

(* The new blocks of one bin.                                              *)
Preset(b) == FirstOf(b) .. FirstOf(b) + Preallocated(b) - 1

LEMMA PresetStock ==
    ASSUME Types, NEW b \in Bins
    PROVE  LET chunks == Reverse(Chunks(FirstOf(b), b, Preallocated(b)))
           IN  /\ chunks \in Seq(Seq(Preset(b)) \ {<<>>})
               /\ \A i \in DOMAIN chunks : Len(chunks[i]) <= Batch(b)
               /\ BlocksOf(chunks) = Preset(b) /\ NoneTwice(chunks)
<1>1. FirstOf(b) \in Nat /\ Preallocated(b) \in Nat
  <2>1. Len(blocks) \in Nat
    BY DEF Types
  <2> QED BY <2>1, BelowSums, Segments DEF FirstOf
<1> DEFINE c == Chunks(FirstOf(b), b, Preallocated(b))
<1>2. /\ c \in Seq(Seq(Preset(b)) \ {<<>>})
      /\ \A i \in DOMAIN c : Len(c[i]) <= Batch(b)
      /\ BlocksOf(c) = Preset(b) /\ NoneTwice(c)
  BY <1>1, Carved DEF Preset
<1> DEFINE X == Seq(Preset(b)) \ {<<>>}
<1> HIDE DEF c, X
<1>3. c \in Seq(X)
  BY <1>2 DEF X
<1>4. /\ Reverse(c) \in Seq(X) /\ BlocksOf(Reverse(c)) = BlocksOf(c)
      /\ NoneTwice(c) => NoneTwice(Reverse(c))
      /\ \A i \in DOMAIN Reverse(c) : \E j \in DOMAIN c : Reverse(c)[i] = c[j]
  BY <1>3, Reversed
<1>5. \A i \in DOMAIN Reverse(c) : Len(Reverse(c)[i]) <= Batch(b)
  BY <1>2, <1>4
<1> QED BY <1>2, <1>4, <1>5 DEF c, X

(* The presets of the bins are the new blocks, and are apart.              *)
LEMMA Presets ==
    ASSUME Types
    PROVE  LET fresh == Len(blocks) + 1 .. Len(blocks) + Below(BinCount)
           IN  /\ \A b \in Bins : Preset(b) \subseteq fresh
               /\ \A x \in fresh : \E b \in Bins : x \in Preset(b)
               /\ \A b, c \in Bins : b # c => Preset(b) \cap Preset(c) = {}
<1> DEFINE n == Len(blocks)
<1>1. n \in Nat
  BY DEF Types
<1> HIDE DEF n
<1>2. Below(BinCount) \in Nat
  BY BinsAre, BelowGrows
<1>3. ASSUME NEW b \in Bins
      PROVE  /\ Preset(b) = n + 1 + Below(b) .. n + Below(b + 1)
             /\ Below(b) \in Nat /\ Below(b + 1) \in Nat /\ Below(b + 1) <= Below(BinCount)
  <2>1. /\ Below(b) \in Nat /\ Below(b + 1) \in Nat
        /\ Below(b + 1) = Below(b) + Preallocated(b) /\ Preallocated(b) \in Nat
    BY BelowSums, Segments
  <2>2. Below(b + 1) <= Below(BinCount)
    BY BinsAre, BelowGrows
  <2>3. FirstOf(b) = n + 1 + Below(b)
    BY DEF FirstOf, n
  <2>4. FirstOf(b) + Preallocated(b) - 1 = n + Below(b + 1)
    BY <1>1, <2>1, <2>3
  <2> QED BY <2>1, <2>2, <2>3, <2>4 DEF Preset
<1>4. ASSUME NEW b \in Bins PROVE Preset(b) \subseteq n + 1 .. n + Below(BinCount)
  BY <1>1, <1>2, <1>3
<1>5. ASSUME NEW x \in n + 1 .. n + Below(BinCount) PROVE \E b \in Bins : x \in Preset(b)
  <2>1. x - n \in 1 .. Below(BinCount)
    BY <1>1, <1>2
  <2>2. PICK b \in Bins : Below(b) < x - n /\ x - n <= Below(b + 1)
    BY <2>1, EachHasItsBin
  <2>3. /\ Preset(b) = n + 1 + Below(b) .. n + Below(b + 1)
        /\ Below(b) \in Nat /\ Below(b + 1) \in Nat
    BY <1>3
  <2>4. x \in n + 1 + Below(b) .. n + Below(b + 1)
    BY <1>1, <1>2, <2>2, <2>3
  <2> QED BY <2>3, <2>4
<1>6. ASSUME NEW b \in Bins, NEW c \in Bins, b < c PROVE Preset(b) \cap Preset(c) = {}
  <2>1. b + 1 \in Nat /\ c \in Nat /\ b + 1 <= c /\ c <= BinCount
    BY <1>6, BinsAre
  <2>2. Below(b + 1) <= Below(c)
    BY <2>1, BelowGrows
  <2>3. /\ Preset(b) = n + 1 + Below(b) .. n + Below(b + 1)
        /\ Preset(c) = n + 1 + Below(c) .. n + Below(c + 1)
        /\ Below(b) \in Nat /\ Below(b + 1) \in Nat
        /\ Below(c) \in Nat /\ Below(c + 1) \in Nat
    BY <1>3
  <2> QED BY <1>1, <2>2, <2>3
<1>7. \A b, c \in Bins : b # c => b < c \/ c < b
  BY BinsAre
<1>8. \A b, c \in Bins : b # c => Preset(b) \cap Preset(c) = {}
  BY <1>6, <1>7
<1> QED BY <1>4, <1>5, <1>8 DEF n

LEMMA TypesInitialize ==
    ASSUME Types, Sized, Control, Initialize
    PROVE  Types' /\ Sized'
<1>1. /\ life < MaxLives /\ life' = life + 1 /\ retired' = retired
      /\ UNCHANGED <<growLock, segments, registered, caches, ret, bin, todo, victim, ghosts>>
  BY DEF Initialize, KeepCounters
<1>2. life \in Nat /\ life' \in Nat /\ life' \in 0 .. MaxLives /\ life <= life'
  BY <1>1, PoolAssumption DEF Types
<1>3. slot' \in [Users -> 0 .. life'] /\ unmapped' \subseteq 1 .. life'
  BY <1>1, <1>2 DEF Types
<1> DEFINE Tags == (UNION Range(SlotsOfLife)) \cup {NoSlot}
<1>4. tags \in Seq(Tags) /\ Len(tags) = life
  BY DEF Types
<1>5. CASE /\ generation' = life + 1
           /\ \E s \in SlotsOfLife[life + 1] : tags' = Append(tags, s)
           /\ flsOpen' = TRUE
           /\ blocks' = blocks \o InitialBlocks
           /\ stock' = [b \in Bins |-> Reverse(Chunks(FirstOf(b), b, Preallocated(b)))]
           /\ committed' = FoldFunction(+, 0, [b \in Bins |-> BytesOf(b, Preallocated(b))])
           /\ Goto(Main, "open")
  <2>1. tags' \in Seq(Tags) /\ Len(tags') = life'
    <3>1. PICK s \in SlotsOfLife[life + 1] : tags' = Append(tags, s)
      BY <1>5
    <3>2. life + 1 \in DOMAIN SlotsOfLife
      BY <1>1, <1>2, PoolAssumption
    <3>3. s \in Tags
      BY <3>2 DEF Range
    <3> HIDE DEF Tags
    <3> QED BY <1>1, <1>4, <3>1, <3>3
  <2>2. /\ InitialBlocks \in Seq([bin : Bins, life : 1 .. life'])
        /\ Len(InitialBlocks) = Below(BinCount) /\ Below(BinCount) \in Nat
    BY <1>1, <1>5, InitialFacts
  <2> DEFINE fresh == Len(blocks) + 1 .. Len(blocks) + Below(BinCount)
  <2>3. /\ blocks' \in Seq([bin : Bins, life : 1 .. life'])
        /\ Ids \subseteq Ids' /\ Ids' = Ids \cup fresh
        /\ Seq(Ids) \subseteq Seq(Ids')
    <3> DEFINE more == InitialBlocks
    <3> HIDE DEF more
    <3>1. /\ more \in Seq([bin : Bins, life : 1 .. life']) /\ life' \in Nat /\ life <= life'
          /\ blocks' = blocks \o more /\ Len(more) = Below(BinCount)
      BY <1>2, <1>5, <2>2 DEF more
    <3> QED BY <3>1, MoreBlocks
  <2>4. \A b \in Bins : Preset(b) \subseteq Ids'
    BY <2>3, Presets
  <2>5. ASSUME NEW b \in Bins
        PROVE  /\ stock'[b] \in Seq(Seq(Ids') \ {<<>>})
               /\ \A i \in DOMAIN stock'[b] : Len(stock'[b][i]) <= Batch(b)
    <3>1. stock'[b] = Reverse(Chunks(FirstOf(b), b, Preallocated(b)))
      BY <1>5
    <3>2. /\ stock'[b] \in Seq(Seq(Preset(b)) \ {<<>>})
          /\ \A i \in DOMAIN stock'[b] : Len(stock'[b][i]) <= Batch(b)
      BY <3>1, PresetStock
    <3>3. Seq(Preset(b)) \subseteq Seq(Ids')
      BY <2>4
    <3>4. Seq(Preset(b)) \ {<<>>} \subseteq Seq(Ids') \ {<<>>}
      BY <3>3
    <3>5. Seq(Seq(Preset(b)) \ {<<>>}) \subseteq Seq(Seq(Ids') \ {<<>>})
      BY <3>4
    <3> QED BY <3>2, <3>5
  <2> HIDE DEF fresh
  <2>6. stock' \in [Bins -> Seq(Seq(Ids') \ {<<>>})]
    BY <1>5, <2>5
  <2>7. list' \in [Users -> [Bins -> Seq(Ids')]]
    BY <1>1, <2>3 DEF Types
  <2>8. todo' \in [Threads -> Seq(Seq(Ids') \ {<<>>})]
    <3>1. Seq(Ids) \ {<<>>} \subseteq Seq(Ids') \ {<<>>}
      BY <2>3
    <3>2. Seq(Seq(Ids) \ {<<>>}) \subseteq Seq(Seq(Ids') \ {<<>>})
      BY <3>1
    <3> QED BY <1>1, <3>2 DEF Types
  <2>9. committed' \in Nat
    <3> DEFINE f == [b \in Bins |-> BytesOf(b, Preallocated(b))]
    <3>1. \A b \in Bins : f[b] \in Nat
      BY Segments, Bytes
    <3>2. DOMAIN f = Bins
      OBVIOUS
    <3> HIDE DEF f
    <3>3. committed' = Total(f, Bins)
      BY <1>5, <3>2, Zenon DEF f, Total, FoldFunction
    <3> QED BY <3>1, <3>3, TotalOfNaturals, BinsAre
  <2>10. pc' \in [Threads -> PCs]
    BY <1>5, ThreadsAre DEF Types, PCs
  <2>11. out' \subseteq Ids' /\ lost' \subseteq Ids' /\ buried' \subseteq Ids'
    BY <1>1, <2>3 DEF Types
  <2>12. generation' \in {0, life'} /\ flsOpen' \in BOOLEAN /\ retired' \in Int
    BY <1>1, <1>5 DEF Types
  <2>13. Types'
    BY <1>1, <1>2, <1>3, <2>1, <2>3, <2>6, <2>7, <2>8, <2>9, <2>10, <2>11, <2>12 DEF Types
  <2>14. Sized'
    BY <1>1, <2>5 DEF Sized
  <2> QED BY <2>13, <2>14
<1>6. CASE /\ tags' = Append(tags, NoSlot)
           /\ UNCHANGED <<generation, flsOpen, blocks, stock, committed, pc>>
  <2>1. tags' \in Seq(Tags) /\ Len(tags') = life'
    <3>1. NoSlot \in Tags
      OBVIOUS
    <3> HIDE DEF Tags
    <3> QED BY <1>1, <1>4, <1>6, <3>1
  <2>2. blocks' \in Seq([bin : Bins, life : 1 .. life'])
    <3> DEFINE B(l) == [bin : Bins, life : 1 .. l]
    <3>1. B(life) \subseteq B(life')
      BY <1>2
    <3> HIDE DEF B
    <3>2. blocks \in Seq(B(life))
      BY DEF Types, B
    <3>3. blocks' \in Seq(B(life'))
      BY <1>6, <3>1, <3>2
    <3> QED BY <3>3 DEF B
  <2>3. generation' \in {0, life'}
    BY <1>6 DEF Initialize, Control, MainControl
  <2>4. Types'
    BY <1>1, <1>2, <1>3, <1>6, <2>1, <2>2, <2>3 DEF Types, Ids
  <2> QED BY <1>1, <1>6, <2>4 DEF Sized
<1> QED BY <1>5, <1>6 DEF Initialize

LEMMA TypesThreadStart ==
    ASSUME Types, Sized, NEW t \in Users, ThreadStart(t)
    PROVE  Types' /\ Sized'
<1>1. /\ cache' \in [Users -> {"none", "live", "marked", "freed"}]
      /\ slot' \in [Users -> 0 .. life]
  BY PoolAssumption DEF ThreadStart, Types
<1>2. pc' \in [Threads -> PCs]
  BY ThreadsAre DEF ThreadStart, Types, PCs
<1>3. UNCHANGED <<global, registry, list, balance, fls, ret, bin, todo, victim, ghosts>>
  BY DEF ThreadStart
<1>4. Types'
  BY <1>1, <1>2, <1>3 DEF Types, Ids
<1> QED BY <1>3, <1>4 DEF Sized

LEMMA TypesFinalize ==
    ASSUME Types, Sized, Finalize
    PROVE  Types' /\ Sized'
<1>1. pc' \in [Threads -> PCs]
  BY ThreadsAre DEF Finalize, Types, PCs
<1>2. UNCHANGED <<global, registry, caches, ret, bin, todo, victim, ghosts>>
  BY DEF Finalize
<1>3. Types'
  BY <1>1, <1>2 DEF Types, Ids
<1> QED BY <1>2, <1>3 DEF Sized

LEMMA TypesFlsFree ==
    ASSUME Types, Sized, FlsFree
    PROVE  Types' /\ Sized'
<1>1. UNCHANGED <<global, life, generation, tags, registered, retired, cache,
                  list, balance, slot, bin, todo, ghosts>>
  BY DEF FlsFree
<1>2. /\ pc' \in [Threads -> PCs] /\ ret' \in [Threads -> PCs]
      /\ victim' \in [Threads -> Users \cup {NoThread}]
      /\ fls' \in [Users -> BOOLEAN] /\ flsOpen' \in BOOLEAN
  <2>0. Main \in Threads /\ {"fls", "detach", "sweep"} \subseteq PCs
    BY ThreadsAre DEF PCs
  <2>1. ASSUME NEW t \in Users, fls' = [fls EXCEPT ![t] = FALSE],
               victim' = [victim EXCEPT ![Main] = t],
               ret' = [ret EXCEPT ![Main] = "fls"],
               pc' = [pc EXCEPT ![Main] = "detach"], UNCHANGED flsOpen
        PROVE  /\ pc' \in [Threads -> PCs] /\ ret' \in [Threads -> PCs]
               /\ victim' \in [Threads -> Users \cup {NoThread}]
               /\ fls' \in [Users -> BOOLEAN] /\ flsOpen' \in BOOLEAN
    BY <2>0, <2>1 DEF Types
  <2>2. ASSUME flsOpen' = FALSE, fls' = [t \in Users |-> FALSE],
               pc' = [pc EXCEPT ![Main] = "sweep"], UNCHANGED <<victim, ret>>
        PROVE  /\ pc' \in [Threads -> PCs] /\ ret' \in [Threads -> PCs]
               /\ victim' \in [Threads -> Users \cup {NoThread}]
               /\ fls' \in [Users -> BOOLEAN] /\ flsOpen' \in BOOLEAN
    BY <2>0, <2>2 DEF Types
  <2> QED BY <2>1, <2>2 DEF FlsFree
<1>3. Types'
  BY <1>1, <1>2 DEF Types, Ids
<1> QED BY <1>1, <1>3 DEF Sized

LEMMA TypesSweep ==
    ASSUME Types, Sized, Sweep
    PROVE  Types' /\ Sized'
<1>0. Main \in Threads /\ {"sweep", "detach", "close"} \subseteq PCs
  BY ThreadsAre DEF PCs
<1>1. UNCHANGED <<global, registry, caches, bin, todo, ghosts>>
  BY DEF Sweep
<1>2. /\ pc' \in [Threads -> PCs] /\ ret' \in [Threads -> PCs]
      /\ victim' \in [Threads -> Users \cup {NoThread}]
  <2>1. CASE registered = <<>>
    BY <1>0, <2>1 DEF Sweep, Types
  <2>2. CASE registered # <<>>
    <3>1. Head(registered) \in Users
      BY <2>2 DEF Types
    <3>2. /\ victim' = [victim EXCEPT ![Main] = Head(registered)]
          /\ ret' = [ret EXCEPT ![Main] = "sweep"]
          /\ pc' = [pc EXCEPT ![Main] = "detach"]
      BY <2>2 DEF Sweep
    <3> DEFINE h == Head(registered)
    <3> HIDE DEF h
    <3>3. victim' \in [Threads -> Users \cup {NoThread}]
      BY <3>1, <3>2 DEF Types, h
    <3> QED BY <1>0, <3>2, <3>3 DEF Types
  <2> QED BY <2>1, <2>2
<1>3. Types'
  BY <1>1, <1>2 DEF Types, Ids
<1> QED BY <1>1, <1>3 DEF Sized

LEMMA PooledAre ==
    ASSUME Types
    PROVE  Pooled \subseteq Ids /\ Pooled = UNION {BlocksOf(stock[b]) : b \in Bins}
<1>1. ASSUME NEW b \in Bins
      PROVE  UNION {Range(c) : c \in Range(stock[b])} = BlocksOf(stock[b])
  BY DEF BlocksOf, Range
<1>2. ASSUME NEW b \in Bins, NEW i \in DOMAIN stock[b], NEW j \in DOMAIN stock[b][i]
      PROVE  stock[b][i][j] \in Ids
  <2>1. stock[b] \in Seq(Seq(Ids) \ {<<>>})
    BY DEF Types
  <2>2. stock[b][i] \in Seq(Ids)
    BY <2>1
  <2> QED BY <2>2
<1>3. \A b \in Bins : BlocksOf(stock[b]) \subseteq Ids
  BY <1>2 DEF BlocksOf, Range
<1>4. Pooled = UNION {BlocksOf(stock[b]) : b \in Bins}
  BY <1>1 DEF Pooled
<1> QED BY <1>3, <1>4

LEMMA TypesClose ==
    ASSUME Types, Sized, Control, Close
    PROVE  Types' /\ Sized'
<1>1. life \in 1 .. life
  BY PoolAssumption DEF Close, Control, MainControl, Types
<1>2. UNCHANGED <<blocks, growLock, life, tags, registered, retired, flsOpen,
                  caches, ret, bin, todo, victim, out, lost>>
  BY DEF Close
<1>3. stock' = EmptyLists /\ EmptyLists \in [Bins -> Seq(Seq(Ids) \ {<<>>})]
  BY DEF Close, EmptyLists
<1>4. buried' \subseteq Ids
  BY PooledAre DEF Close, Types
<1>5. unmapped' \subseteq 1 .. life
  BY <1>1 DEF Close, Types
<1>6. /\ generation' \in {0, life} /\ committed' \in Nat
      /\ segments' \in 0 .. MaxSegments /\ pc' \in [Threads -> PCs]
  BY ThreadsAre, PoolAssumption DEF Close, Types, PCs
<1>7. Types'
  BY <1>2, <1>3, <1>4, <1>5, <1>6 DEF Types, Ids
<1>8. \A b \in Bins : DOMAIN stock'[b] = {}
  BY <1>3 DEF EmptyLists
<1> QED BY <1>2, <1>7, <1>8 DEF Sized

LEMMA TypesDetachStep ==
    ASSUME Types, Sized, Control, NEW t \in Threads, DetachStep(t)
    PROVE  Types' /\ Sized'
BY TypesDetach, TypesFlushAll, TypesUnlink, TypesFreeCache DEF DetachStep

-----------------------------------------------------------------------------
(* Control.                                                                *)

Controlled == Control /\ RegisteredOnce /\ LifeInUse

Busy == {"idle", "orphan"} \cup Working

LEMMA PcsApart ==
    /\ Busy \cap Detaching = {} /\ "gone" \notin Busy \cup Detaching
    /\ Busy \subseteq UserPcs /\ Busy \subseteq PCs
BY DEF Busy, Working, Detaching, UserPcs, PCs

(* What a thread at work knows of its cache.                               *)
LEMMA CacheOf ==
    ASSUME Types, Controlled, NEW t \in Users, InUse, pc[t] \in Busy
    PROVE  /\ Found(t) <=> cache[t] = "live"
           /\ cache[t] = "live" <=> t \in Range(registered)
           /\ cache[t] # "marked"
<1>1. CacheControl(t) /\ MainControl
  BY DEF Controlled, Control
<1>2. Found(t) <=> cache[t] = "live"
  BY <1>1 DEF CacheControl, Busy
<1>3. pc[t] \notin {"flush", "free"} /\ pc[Main] \notin {"flush", "free"}
  BY PcsApart DEF InUse, Detaching
<1>4. cache[t] # "marked"
  BY <1>1, <1>3 DEF CacheControl, Dismantles
<1>5. cache[t] = "live" <=> t \in Range(registered)
  BY <1>1, <1>4 DEF CacheControl
<1> QED BY <1>2, <1>4, <1>5

(* GetOrCreate leaves t with a live cache on the list.                     *)
LEMMA HasCache ==
    ASSUME Types, Controlled, NEW t \in Users, InUse, pc[t] \in Busy, GetOrCreate(t)
    PROVE  /\ cache' = [cache EXCEPT ![t] = "live"] /\ cache'[t] = "live"
           /\ Range(registered') = Range(registered) \cup {t}
           /\ RegisteredOnce'
           /\ \A u \in Users \ {t} : slot'[u] = slot[u] /\ fls'[u] = fls[u]
           /\ IF tags[life] # NoSlot THEN slot'[t] = generation ELSE fls'[t]
<1>0. /\ cache \in [Users -> {"none", "live", "marked", "freed"}]
      /\ registered \in Seq(Users) /\ slot \in [Users -> 0 .. life]
      /\ fls \in [Users -> BOOLEAN]
  BY DEF Types
<1>1. RegisteredOnce
  BY DEF Controlled
<1>2. CASE Found(t) /\ UNCHANGED <<cache, registered, slot, fls>>
  <2>1. cache[t] = "live" /\ t \in Range(registered)
    BY <1>2, CacheOf
  <2>2. cache' = [cache EXCEPT ![t] = "live"]
    BY <1>0, <1>2, <2>1
  <2> QED BY <1>1, <1>2, <2>1, <2>2 DEF RegisteredOnce, Found
<1>3. CASE ~Found(t) /\ Attach(t)
  <2>1. t \notin Range(registered)
    BY <1>3, CacheOf
  <2>2. registered' = <<t>> \o registered
    BY <1>3 DEF Attach
  <2>3. /\ Len(registered') = Len(registered) + 1 /\ Len(registered) \in Nat
        /\ registered'[1] = t
        /\ \A i \in 1 .. Len(registered) : registered'[i + 1] = registered[i]
        /\ DOMAIN registered' = 1 .. Len(registered) + 1
    BY <1>0, <2>2
  <2>4. \A i \in DOMAIN registered' : i = 1 \/ i - 1 \in 1 .. Len(registered)
    BY <2>3
  <2>5. \A i \in DOMAIN registered' : i # 1 => registered'[i] = registered[i - 1]
    BY <2>3, <2>4
  <2>6. DOMAIN registered = 1 .. Len(registered)
    BY <1>0
  <2>7. Range(registered') = Range(registered) \cup {t}
    <3>1. Range(registered') \subseteq Range(registered) \cup {t}
      BY <2>3, <2>4, <2>5, <2>6 DEF Range
    <3>2. ASSUME NEW i \in DOMAIN registered PROVE registered[i] \in Range(registered')
      <4>1. i + 1 \in DOMAIN registered' /\ registered'[i + 1] = registered[i]
        BY <2>3, <2>6
      <4> QED BY <4>1 DEF Range
    <3>3. t \in Range(registered')
      <4>1. 1 \in DOMAIN registered'
        BY <2>3
      <4> QED BY <2>3, <4>1 DEF Range
    <3> QED BY <3>1, <3>2, <3>3 DEF Range
  <2>8. RegisteredOnce'
    <3> SUFFICES ASSUME NEW i \in DOMAIN registered', NEW j \in DOMAIN registered',
                        registered'[i] = registered'[j]
                 PROVE  i = j
      BY DEF RegisteredOnce
    <3>1. \A k \in DOMAIN registered' : k # 1 => registered'[k] # t
      BY <2>1, <2>4, <2>5, <2>6 DEF Range
    <3>2. CASE i # 1 /\ j # 1
      <4>1. registered[i - 1] = registered[j - 1] /\ i - 1 \in DOMAIN registered
            /\ j - 1 \in DOMAIN registered
        BY <2>4, <2>5, <2>6, <3>2
      <4>2. i - 1 = j - 1
        BY <1>1, <4>1 DEF RegisteredOnce
      <4> QED BY <2>3, <4>2
    <3> QED BY <2>3, <3>1, <3>2
  <2>9. /\ \A u \in Users \ {t} : slot'[u] = slot[u] /\ fls'[u] = fls[u]
        /\ IF tags[life] # NoSlot THEN slot'[t] = generation ELSE fls'[t]
    BY <1>0, <1>3 DEF Attach
  <2>10. cache' = [cache EXCEPT ![t] = "live"] /\ cache'[t] = "live"
    BY <1>0, <1>3 DEF Attach
  <2> QED BY <2>7, <2>8, <2>9, <2>10
<1> QED BY <1>2, <1>3 DEF GetOrCreate

(* A step of t at work on what is its own.                                 *)
OnlyMoves(t) ==
    /\ UNCHANGED <<life, generation, tags, ret, victim, unmapped>>
    /\ \A u \in Threads \ {t} : pc'[u] = pc[u]
    /\ \A u \in Users \ {t} : /\ list'[u] = list[u] /\ balance'[u] = balance[u]
                              /\ bin'[u] = bin[u] /\ todo'[u] = todo[u]

LEMMA WorkKeepsOthers ==
    ASSUME Types, Controlled, NEW t \in Users, InUse, pc[t] \in Busy, pc'[t] \in Busy,
           OnlyMoves(t),
           \/ GetOrCreate(t)
           \/ UNCHANGED <<cache, registered, slot, fls>>,
           t \in Range(registered') \/ UNCHANGED <<list, balance>>
    PROVE  /\ MainControl' /\ RegisteredOnce' /\ LifeInUse' /\ InUse'
           /\ \A u \in Users \ {t} : UserControl(u)' /\ CacheControl(u)'
           /\ CacheControl(t)'
<1>0. t \in Threads /\ t # Main /\ Main \in Threads /\ \A u \in Users : u \in Threads
  BY ThreadsAre
<1>1. pc'[Main] = "open" /\ pc[Main] = "open"
  BY <1>0 DEF OnlyMoves, InUse
<1>2. MainControl' /\ LifeInUse' /\ InUse'
  BY <1>1 DEF Controlled, Control, MainControl, LifeInUse, OnlyMoves, MainPcs, Detaching, InUse
<1>3. /\ \A u \in Users \ {t} : /\ cache'[u] = cache[u] /\ slot'[u] = slot[u]
                                /\ fls'[u] = fls[u]
                                /\ (u \in Range(registered') <=> u \in Range(registered))
      /\ RegisteredOnce'
  <2>1. CASE GetOrCreate(t)
    <3>0. cache' = [cache EXCEPT ![t] = "live"]
      BY <2>1, HasCache
    <3>1. \A u \in Users \ {t} : cache'[u] = cache[u]
      BY <3>0 DEF Types
    <3> QED BY <2>1, <3>1, HasCache
  <2>2. CASE UNCHANGED <<cache, registered, slot, fls>>
    BY <2>2 DEF Controlled, RegisteredOnce
  <2> QED BY <2>1, <2>2
<1>4. ASSUME NEW u \in Users \ {t} PROVE UserControl(u)' /\ CacheControl(u)'
  <2>1. UserControl(u) /\ CacheControl(u) /\ u \in Threads /\ u # Main
    BY <1>0, ThreadsAre DEF Controlled, Control
  <2>2. UNCHANGED <<life, generation, tags, ret, victim>> /\ pc'[u] = pc[u]
        /\ list'[u] = list[u] /\ balance'[u] = balance[u] /\ bin'[u] = bin[u]
        /\ todo'[u] = todo[u]
    BY <2>1 DEF OnlyMoves
  <2>3. UserControl(u)'
    BY <1>1, <1>3, <2>1, <2>2 DEF UserControl, InUse
  <2>4. Found(u)' = Found(u)
    BY <1>3, <2>2 DEF Found
  <2>5. Dismantles(u, u)' = Dismantles(u, u) /\ Dismantles(Main, u)' = Dismantles(Main, u)
    BY <1>1, <2>2 DEF Dismantles
  <2>6. CacheControl(u)'
    <3>1. cache'[u] = cache[u] /\ (u \in Range(registered') <=> u \in Range(registered))
      BY <1>3
    <3>2. /\ u \in Range(registered') => cache'[u] \in {"live", "marked"}
          /\ u \notin Range(registered') =>
                cache'[u] # "live" /\ list'[u] = EmptyLists /\ balance'[u] = 0
          /\ cache'[u] = "marked" <=> Dismantles(u, u)' \/ Dismantles(Main, u)'
          /\ ~(Dismantles(u, u)' /\ Dismantles(Main, u)')
      BY <2>1, <2>2, <2>5, <3>1 DEF CacheControl
    <3>3. ASSUME NEW w \in {u, Main}, Dismantles(w, u)'
          PROVE  pc'[w] = "flush" <=> u \in Range(registered')
      <4>1. Dismantles(w, u) /\ pc'[w] = pc[w]
        BY <1>1, <2>2, <2>5, <3>3
      <4> QED BY <2>1, <3>1, <4>1 DEF CacheControl
    <3>4. InUse' /\ pc'[u] \in {"idle", "orphan"} \cup Working => (Found(u)' <=> cache'[u] = "live")
      BY <1>1, <2>1, <2>2, <2>4, <3>1 DEF CacheControl, InUse
    <3> QED BY <3>2, <3>3, <3>4 DEF CacheControl, EmptyLists
  <2> QED BY <2>3, <2>6
<1>5. CacheControl(t)'
  <2>1. pc'[t] \notin {"flush", "free"} /\ pc'[Main] \notin {"flush", "free"}
    BY <1>1, PcsApart DEF Detaching
  <2>2. ~Dismantles(t, t)' /\ ~Dismantles(Main, t)'
    BY <2>1 DEF Dismantles
  <2>3. /\ Found(t)' <=> cache'[t] = "live"
        /\ cache'[t] = "live" <=> t \in Range(registered')
        /\ cache'[t] # "marked"
    <3>1. CASE GetOrCreate(t)
      <4>1. cache'[t] = "live" /\ t \in Range(registered')
        BY <3>1, HasCache
      <4>2. Found(t)'
        BY <3>1, HasCache DEF Found, OnlyMoves
      <4> QED BY <4>1, <4>2
    <3>2. CASE UNCHANGED <<cache, registered, slot, fls>>
      <4>1. Found(t)' = Found(t)
        BY <3>2 DEF Found, OnlyMoves
      <4> QED BY <3>2, <4>1, CacheOf
    <3> QED BY <3>1, <3>2
  <2>4. t \notin Range(registered') => list'[t] = EmptyLists /\ balance'[t] = 0
    <3> SUFFICES ASSUME t \notin Range(registered')
                 PROVE  list'[t] = EmptyLists /\ balance'[t] = 0
      OBVIOUS
    <3>1. UNCHANGED <<list, balance>>
      OBVIOUS
    <3>2. t \notin Range(registered)
      BY HasCache, CacheOf
    <3> QED BY <3>1, <3>2 DEF Controlled, Control, CacheControl
  <2> QED BY <2>2, <2>3, <2>4 DEF CacheControl, EmptyLists
<1> QED BY <1>2, <1>3, <1>4, <1>5

(* A step that leaves the threads and the registry alone.                  *)
LEMMA SameControl ==
    ASSUME Controlled, UNCHANGED <<registry, caches, locals, stock, unmapped>>
    PROVE  Controlled'
<1>1. MainControl' /\ RegisteredOnce' /\ LifeInUse'
  BY DEF Controlled, Control, MainControl, NoFls, RegisteredOnce, LifeInUse, InUse, EmptyLists
<1>2. ASSUME NEW u \in Users PROVE UserControl(u)' /\ CacheControl(u)'
  <2>1. UserControl(u) /\ CacheControl(u)
    BY DEF Controlled, Control
  <2>2. UserControl(u)'
    BY <2>1 DEF UserControl, InUse
  <2>3. CacheControl(u)'
    BY <2>1 DEF CacheControl, InUse, Dismantles, Found, EmptyLists
  <2> QED BY <2>2, <2>3
<1> QED BY <1>1, <1>2 DEF Controlled, Control

(* The work of a thread in Acquire and Release.                            *)
LEMMA WorkControl ==
    ASSUME Types, Controlled, NEW t \in Users, InUse, pc[t] \in Busy, pc'[t] \in Busy,
           OnlyMoves(t),
           \/ GetOrCreate(t)
           \/ UNCHANGED <<cache, registered, slot, fls>>,
           t \in Range(registered') \/ UNCHANGED <<list, balance>>,
           pc'[t] = "carve" <=> todo'[t] # <<>>,
           pc'[t] \in Working => cache'[t] = "live" /\ list'[t][bin'[t]] = <<>>
    PROVE  Controlled'
<1>1. /\ MainControl' /\ RegisteredOnce' /\ LifeInUse' /\ InUse'
      /\ \A u \in Users \ {t} : UserControl(u)' /\ CacheControl(u)'
      /\ CacheControl(t)'
  BY WorkKeepsOthers
<1>2. UserControl(t)'
  BY <1>1, PcsApart DEF UserControl
<1> QED BY <1>1, <1>2 DEF Controlled, Control

(* Facts of a thread that works on a bin.                                  *)
LEMMA AtWork ==
    ASSUME Types, Controlled, NEW t \in Users, pc[t] \in Working \cup {"orphan"}
    PROVE  /\ InUse /\ pc[t] \in Busy /\ t \in Threads /\ t # Main
           /\ pc[t] = "carve" <=> todo[t] # <<>>
           /\ pc[t] \in Working =>
                 /\ cache[t] = "live" /\ list[t][bin[t]] = <<>>
                 /\ t \in Range(registered) /\ bin[t] \in Bins
<1>1. UserControl(t) /\ t \in Threads /\ t # Main
  BY ThreadsAre DEF Controlled, Control
<1>2. InUse /\ pc[t] \in Busy
  BY <1>1 DEF UserControl, Busy
<1>3. bin[t] \in Bins
  BY <1>1 DEF Types
<1> QED BY <1>1, <1>2, <1>3, CacheOf DEF UserControl

LEMMA PcMoves ==
    ASSUME Types, NEW t \in Threads, NEW to, pc' = [pc EXCEPT ![t] = to]
    PROVE  pc'[t] = to /\ \A u \in Threads \ {t} : pc'[u] = pc[u]
BY DEF Types

LEMMA HandsOut ==
    ASSUME Types, NEW t \in Users, NEW b, NEW chunk, HandOut(t, b, chunk)
    PROVE  \A u \in Users \ {t} : list'[u] = list[u] /\ balance'[u] = balance[u]
BY DEF HandOut, Types

LEMMA ControlPop ==
    ASSUME Types, Controlled, NEW t \in Users,
           PopChunk(t) \/ PopOrGrow(t) \/ PopGrown(t)
    PROVE  Controlled'
<1>1. pc[t] \in {"pop", "lock", "last"}
  BY DEF PopChunk, PopOrGrow, PopGrown
<1>2. /\ InUse /\ pc[t] \in Busy /\ t \in Threads /\ todo[t] = <<>>
      /\ cache[t] = "live" /\ list[t][bin[t]] = <<>> /\ t \in Range(registered)
  BY <1>1, AtWork DEF Working
<1>3. UNCHANGED <<blocks, committed, segments, registry, cache, slot,
                  fls, ret, bin, todo, victim, lost, buried, unmapped>>
  BY DEF PopChunk, PopOrGrow, PopGrown
<1>4. \/ HandOut(t, bin[t], Head(stock[bin[t]])) /\ pc' = [pc EXCEPT ![t] = "idle"]
      \/ /\ UNCHANGED <<list, balance>>
         /\ \E to \in {"lock", "grow", "idle"} : pc' = [pc EXCEPT ![t] = to]
  BY DEF PopChunk, PopOrGrow, PopGrown
<1> DEFINE Hands == HandOut(t, bin[t], Head(stock[bin[t]]))
<1>5. PICK to \in {"lock", "grow", "idle"} :
         pc' = [pc EXCEPT ![t] = to] /\ (UNCHANGED <<list, balance>> \/ (Hands /\ to = "idle"))
  <2> DEFINE Same == UNCHANGED <<list, balance>>
             Moves(to) == pc' = [pc EXCEPT ![t] = to]
  <2> HIDE DEF Hands, Same, Moves
  <2>1. \/ Hands /\ Moves("idle")
        \/ Same /\ \E to \in {"lock", "grow", "idle"} : Moves(to)
    BY <1>4 DEF Hands, Same, Moves
  <2>2. \E to \in {"lock", "grow", "idle"} : Moves(to) /\ (Same \/ (Hands /\ to = "idle"))
    BY <2>1
  <2> QED BY <2>2 DEF Same, Moves
<1>6. pc'[t] = to /\ \A u \in Threads \ {t} : pc'[u] = pc[u]
  BY <1>2, <1>5, PcMoves
<1>7. \A u \in Users \ {t} : list'[u] = list[u] /\ balance'[u] = balance[u]
  BY <1>5, HandsOut
<1>8. OnlyMoves(t)
  BY <1>3, <1>6, <1>7 DEF OnlyMoves
<1>9. pc'[t] \in Busy /\ pc'[t] # "carve"
  BY <1>6 DEF Busy, Working
<1>10. pc'[t] \in Working => cache'[t] = "live" /\ list'[t][bin'[t]] = <<>>
  BY <1>2, <1>3, <1>5, <1>6 DEF Working
<1> QED BY <1>2, <1>3, <1>8, <1>9, <1>10, WorkControl

LEMMA ControlCheckLimit ==
    ASSUME Types, Controlled, NEW t \in Users, CheckLimit(t)
    PROVE  Controlled'
<1>1. /\ InUse /\ pc[t] \in Busy /\ t \in Threads /\ todo[t] = <<>>
      /\ cache[t] = "live" /\ list[t][bin[t]] = <<>>
  BY AtWork DEF CheckLimit, Working
<1>2. UNCHANGED <<blocks, stock, committed, segments, registry, caches, ret,
                  bin, todo, victim, ghosts>>
  BY DEF CheckLimit
<1>3. PICK to \in {"map", "idle"} : pc' = [pc EXCEPT ![t] = to]
  BY DEF CheckLimit
<1>4. pc'[t] = to /\ \A u \in Threads \ {t} : pc'[u] = pc[u]
  BY <1>1, <1>3, PcMoves
<1>5. OnlyMoves(t)
  BY <1>2, <1>4 DEF OnlyMoves
<1>6. pc'[t] \in Busy /\ pc'[t] # "carve"
  BY <1>4 DEF Busy, Working
<1> QED BY <1>1, <1>2, <1>5, <1>6, WorkControl

LEMMA SegmentNotEmpty ==
    ASSUME Types, NEW b \in Bins
    PROVE  Chunks(Len(blocks) + 1, b, BlocksPerSegment(b)) # <<>>
<1>1. Len(blocks) + 1 \in Nat
  BY DEF Types
<1>2. BlocksPerSegment(b) \in Nat /\ BlocksPerSegment(b) > 0
  BY Segments
<1> QED BY <1>1, <1>2, Carved

LEMMA ControlMapSegment ==
    ASSUME Types, Controlled, NEW t \in Users, MapSegment(t)
    PROVE  Controlled'
<1> DEFINE new == Chunks(Len(blocks) + 1, bin[t], BlocksPerSegment(bin[t]))
<1>1. /\ InUse /\ pc[t] \in Busy /\ t \in Threads /\ todo[t] = <<>> /\ bin[t] \in Bins
      /\ cache[t] = "live" /\ list[t][bin[t]] = <<>>
  BY AtWork DEF MapSegment, Working
<1>2. new # <<>>
  BY <1>1, SegmentNotEmpty
<1> HIDE DEF new
<1>3. UNCHANGED <<stock, registry, caches, ret, bin, victim, ghosts>>
  BY DEF MapSegment
<1>4. \/ pc' = [pc EXCEPT ![t] = "carve"] /\ todo' = [todo EXCEPT ![t] = new]
      \/ pc' = [pc EXCEPT ![t] = "idle"] /\ UNCHANGED todo
  BY DEF MapSegment, new
<1>5. pc'[t] \in {"carve", "idle"} /\ \A u \in Threads \ {t} : pc'[u] = pc[u]
  BY <1>1, <1>4, PcMoves
<1>6. todo \in [Threads -> Seq(Seq(Ids) \ {<<>>})]
  BY DEF Types
<1>7. \A u \in Users \ {t} : todo'[u] = todo[u]
  BY <1>4, <1>6, ThreadsAre
<1>8. pc'[t] = "carve" <=> todo'[t] # <<>>
  <2>1. CASE pc' = [pc EXCEPT ![t] = "carve"] /\ todo' = [todo EXCEPT ![t] = new]
    <3>1. todo'[t] = new
      BY <1>1, <1>6, <2>1
    <3>2. pc'[t] = "carve"
      BY <1>1, <2>1, PcMoves
    <3> QED BY <1>2, <3>1, <3>2
  <2>2. CASE pc' = [pc EXCEPT ![t] = "idle"] /\ UNCHANGED todo
    <3>1. pc'[t] = "idle"
      BY <1>1, <2>2, PcMoves
    <3> QED BY <1>1, <2>2, <3>1
  <2> QED BY <1>4, <2>1, <2>2
<1>9. OnlyMoves(t)
  BY <1>3, <1>5, <1>7 DEF OnlyMoves
<1>10. pc'[t] \in Busy
  BY <1>5 DEF Busy, Working
<1> QED BY <1>1, <1>3, <1>8, <1>9, <1>10, WorkControl

LEMMA ControlCarveAndPush ==
    ASSUME Types, Controlled, NEW t \in Users, CarveAndPush(t)
    PROVE  Controlled'
<1>1. /\ InUse /\ pc[t] \in Busy /\ t \in Threads /\ todo[t] # <<>>
      /\ cache[t] = "live" /\ list[t][bin[t]] = <<>>
  BY AtWork DEF CarveAndPush, Working
<1>2. UNCHANGED <<blocks, growLock, committed, segments, registry, caches, ret,
                  bin, victim, ghosts>>
  BY DEF CarveAndPush
<1>3. todo \in [Threads -> Seq(Seq(Ids) \ {<<>>})]
  BY DEF Types
<1>4. todo' = [todo EXCEPT ![t] = Tail(todo[t])]
  BY DEF CarveAndPush
<1>5. \A u \in Users \ {t} : todo'[u] = todo[u]
  BY <1>3, <1>4, ThreadsAre
<1>6. pc' = [pc EXCEPT ![t] = IF Len(todo[t]) = 1 THEN "last" ELSE "carve"]
  BY DEF CarveAndPush
<1>7. pc'[t] = (IF Len(todo[t]) = 1 THEN "last" ELSE "carve")
      /\ \A u \in Threads \ {t} : pc'[u] = pc[u]
  BY <1>1, <1>6, PcMoves
<1>8. todo'[t] # <<>> <=> Len(todo[t]) # 1
  <2> DEFINE C == Seq(Ids) \ {<<>>}
             s == todo[t]
  <2>1. todo'[t] = Tail(s) /\ s \in Seq(C) /\ s # <<>>
    BY <1>1, <1>3, <1>4
  <2> HIDE DEF C, s
  <2>2. Len(Tail(s)) = Len(s) - 1 /\ Len(s) \in Nat /\ Tail(s) \in Seq(C)
    BY <2>1
  <2>3. Tail(s) # <<>> <=> Len(Tail(s)) # 0
    BY <2>2
  <2> QED BY <2>1, <2>2, <2>3 DEF s
<1>9. OnlyMoves(t)
  BY <1>2, <1>5, <1>7 DEF OnlyMoves
<1>10. pc'[t] \in Busy
  BY <1>7 DEF Busy, Working
<1>11. pc'[t] = "carve" <=> todo'[t] # <<>>
  BY <1>7, <1>8
<1> QED BY <1>1, <1>2, <1>9, <1>10, <1>11, WorkControl

LEMMA ControlNoteOrphanRelease ==
    ASSUME Types, Controlled, NEW t \in Users, NoteOrphanRelease(t)
    PROVE  Controlled'
<1>1. InUse /\ pc[t] \in Busy /\ t \in Threads /\ todo[t] = <<>>
  BY AtWork DEF NoteOrphanRelease
<1>2. /\ pc' = [pc EXCEPT ![t] = "idle"]
      /\ UNCHANGED <<global, life, generation, tags, registered, flsOpen, caches,
                     ret, bin, todo, victim, ghosts>>
  BY DEF NoteOrphanRelease
<1>3. pc'[t] = "idle" /\ \A u \in Threads \ {t} : pc'[u] = pc[u]
  BY <1>1, <1>2, PcMoves
<1>4. OnlyMoves(t)
  BY <1>2, <1>3 DEF OnlyMoves
<1>5. pc'[t] \in Busy /\ pc'[t] \notin Working
  BY <1>3 DEF Busy, Working
<1>6. pc'[t] = "carve" <=> todo'[t] # <<>>
  BY <1>1, <1>2, <1>3
<1> QED BY <1>1, <1>2, <1>4, <1>5, <1>6, WorkControl

LEMMA ControlAcquire ==
    ASSUME Types, Controlled, NEW t \in Users, NEW size \in Sizes, Acquire(t, size)
    PROVE  Controlled'
<1> DEFINE b == BinOf(size)
<1>1. b \in Bins
  BY PoolAssumption
<1>2. InUse /\ pc[t] = "idle" /\ GetOrCreate(t) /\ t \in Threads
  BY ThreadsAre DEF Acquire
<1>3. UNCHANGED <<global, life, generation, tags, retired, flsOpen, ret, todo,
                  victim, lost, buried, unmapped>>
  BY DEF Acquire
<1>4. todo[t] = <<>> /\ pc[t] \in Busy
  BY <1>2 DEF Controlled, Control, UserControl, Busy
<1>5. cache'[t] = "live" /\ t \in Range(registered')
  BY <1>2, <1>4, HasCache
<1>6. CASE HandOut(t, b, list[t][b]) /\ UNCHANGED <<bin, pc>>
  <2>1. OnlyMoves(t)
    BY <1>3, <1>6, HandsOut DEF OnlyMoves
  <2>2. pc'[t] \in Busy /\ pc'[t] \notin Working
    BY <1>2, <1>6 DEF Busy, Working
  <2>3. pc'[t] = "carve" <=> todo'[t] # <<>>
    BY <1>2, <1>3, <1>4, <1>6
  <2> QED BY <1>2, <1>4, <1>5, <2>1, <2>2, <2>3, WorkControl
<1> HIDE DEF b
<1>7. CASE /\ list[t][b] = <<>> /\ bin' = [bin EXCEPT ![t] = b]
           /\ pc' = [pc EXCEPT ![t] = "pop"] /\ UNCHANGED <<list, balance, out>>
  <2>1. pc'[t] = "pop" /\ \A u \in Threads \ {t} : pc'[u] = pc[u]
    BY <1>2, <1>7, PcMoves
  <2>2. bin'[t] = b /\ \A u \in Users \ {t} : bin'[u] = bin[u]
    BY <1>2, <1>7, ThreadsAre DEF Types
  <2>3. OnlyMoves(t)
    BY <1>3, <1>7, <2>1, <2>2 DEF OnlyMoves
  <2>4. pc'[t] \in Busy
    BY <2>1 DEF Busy, Working
  <2>5. pc'[t] = "carve" <=> todo'[t] # <<>>
    BY <1>3, <1>4, <2>1
  <2>6. cache'[t] = "live" /\ list'[t][bin'[t]] = <<>>
    BY <1>5, <1>7, <2>2
  <2> QED BY <1>2, <1>4, <1>5, <2>3, <2>4, <2>5, <2>6, WorkControl
<1> QED BY <1>6, <1>7 DEF Acquire, b

LEMMA ControlRelease ==
    ASSUME Types, Controlled, NEW t \in Users, NEW block \in out, Release(t, block)
    PROVE  Controlled'
<1> DEFINE b == blocks[block].bin
<1>1. b \in Bins /\ t \in Threads
  BY Returned
<1>2. InUse /\ pc[t] = "idle"
  BY DEF Release, Accepts
<1>3. UNCHANGED <<blocks, growLock, committed, segments, life, generation, tags,
                  retired, flsOpen, ret, bin, todo, victim, lost, buried, unmapped>>
  BY DEF Release
<1>4. todo[t] = <<>> /\ pc[t] \in Busy
  BY <1>2 DEF Controlled, Control, UserControl, Busy
<1> HIDE DEF b
<1>5. CASE GetOrCreate(t) /\ Push(t, b, block) /\ UNCHANGED pc
  <2>1. cache'[t] = "live" /\ t \in Range(registered')
    BY <1>2, <1>4, <1>5, HasCache
  <2>2. \A u \in Users \ {t} : list'[u] = list[u] /\ balance'[u] = balance[u]
    BY <1>5 DEF Push, Types
  <2>3. OnlyMoves(t)
    BY <1>3, <1>5, <2>2 DEF OnlyMoves
  <2>4. pc'[t] \in Busy /\ pc'[t] \notin Working
    BY <1>2, <1>5 DEF Busy, Working
  <2>5. pc'[t] = "carve" <=> todo'[t] # <<>>
    BY <1>2, <1>3, <1>4, <1>5
  <2> QED BY <1>2, <1>4, <1>5, <2>1, <2>3, <2>4, <2>5, WorkControl
<1>6. CASE pc' = [pc EXCEPT ![t] = "orphan"] /\ UNCHANGED <<caches, registered>>
  <2>1. pc'[t] = "orphan" /\ \A u \in Threads \ {t} : pc'[u] = pc[u]
    BY <1>1, <1>6, PcMoves
  <2>2. OnlyMoves(t)
    BY <1>3, <1>6, <2>1 DEF OnlyMoves
  <2>3. pc'[t] \in Busy /\ pc'[t] \notin Working
    BY <2>1 DEF Busy, Working
  <2>4. pc'[t] = "carve" <=> todo'[t] # <<>>
    BY <1>3, <1>4, <2>1
  <2> QED BY <1>2, <1>4, <1>6, <2>2, <2>3, <2>4, WorkControl
<1> QED BY <1>5, <1>6 DEF Release, b

LEMMA ControlReleaseRefused ==
    ASSUME Controlled, NEW t \in Users, NEW block \in out, ReleaseRefused(t, block)
    PROVE  Controlled'
BY SameControl DEF ReleaseRefused

(* A step of t in Detach, on the cache of v: all but what it means for the *)
(* cache itself.                                                           *)
Dismantling(t, v) ==
    /\ UNCHANGED <<life, generation, tags, fls, bin, todo, unmapped>>
    /\ \A u \in Threads \ {t} :
          pc'[u] = pc[u] /\ ret'[u] = ret[u] /\ victim'[u] = victim[u]
    /\ \A u \in Users \ {v} :
          /\ cache'[u] = cache[u] /\ list'[u] = list[u] /\ balance'[u] = balance[u]
          /\ u \in Range(registered') <=> u \in Range(registered)
    /\ Range(registered') \subseteq Range(registered)
    /\ v \in Range(registered) \/ UNCHANGED stock
    /\ \/ pc'[t] \in Detaching /\ ret'[t] = ret[t] /\ victim'[t] = victim[t]
       \/ pc'[t] = ret[t] /\ victim'[t] = NoThread

LEMMA InDetach ==
    ASSUME Types, Controlled, NEW t \in Threads, pc[t] \in Detaching, NEW v, v = victim[t]
    PROVE  /\ v \in Users /\ v \in Threads
           /\ t = Main => ~InUse /\ life \notin unmapped /\ ret[t] \in {"fls", "sweep"}
           /\ t # Main => t = v /\ t \in Users /\ ret[t] = "gone" /\ todo[t] = <<>>
<1>1. v \in Users /\ v \in Threads
  BY HasVictim, ThreadsAre DEF Controlled
<1>2. CASE t = Main
  BY <1>1, <1>2 DEF Controlled, Control, MainControl, LifeInUse, InUse, Detaching
<1>3. CASE t # Main
  <2>1. t \in Users /\ UserControl(t)
    BY <1>3, ThreadsAre DEF Controlled, Control
  <2>2. pc[t] # "carve"
    BY DEF Detaching
  <2> QED BY <1>1, <1>3, <2>1, <2>2 DEF UserControl
<1> QED BY <1>2, <1>3

LEMMA DismantlingKeeps ==
    ASSUME Types, Controlled, Types', NEW t \in Threads, pc[t] \in Detaching,
           NEW v, v = victim[t], Dismantling(t, v),
           slot' = slot \/ slot' = [slot EXCEPT ![v] = 0]
    PROVE  /\ MainControl' /\ LifeInUse'
           /\ \A u \in Users : UserControl(u)'
           /\ \A u \in Users \ {v} : CacheControl(u)'
<1>1. /\ v \in Users /\ v \in Threads
      /\ t = Main => ~InUse /\ life \notin unmapped /\ ret[t] \in {"fls", "sweep"}
      /\ t # Main => t = v /\ t \in Users /\ ret[t] = "gone" /\ todo[t] = <<>>
  BY InDetach
<1>2. Main \in Threads /\ Main \notin Users /\ \A u \in Users : u \in Threads
  BY ThreadsAre
<1>3. "fls" \notin Detaching /\ "sweep" \notin Detaching /\ "gone" \notin Detaching
      /\ "open" \notin Detaching /\ "closed" \notin Detaching /\ "close" \notin Detaching
      /\ "carve" \notin Detaching
  BY DEF Detaching
<1>4. InUse' = InUse /\ (t = Main => pc'[Main] \in Detaching \cup {"fls", "sweep"})
  BY <1>1, <1>2, <1>3 DEF Dismantling, InUse
<1>5. registered = <<>> => registered' = <<>>
  <2>1. ASSUME registered = <<>> PROVE Range(registered') = {}
    BY <2>1 DEF Dismantling, Range
  <2>2. registered' \in Seq(Users)
    BY DEF Types
  <2>3. Range(registered') = {} => registered' = <<>>
    <3>1. PICK r : r = registered'
      OBVIOUS
    <3>2. r \in Seq(Users)
      BY <2>2, <3>1
    <3>3. r # <<>> => 1 \in DOMAIN r
      BY <3>2
    <3>4. r # <<>> => r[1] \in Range(r)
      BY <3>3 DEF Range
    <3> QED BY <3>1, <3>4
  <2> QED BY <2>1, <2>3
<1>6. LifeInUse'
  <2>1. life' = life /\ unmapped' = unmapped /\ (t # Main => pc'[Main] = pc[Main])
    BY <1>2 DEF Dismantling
  <2> QED BY <1>1, <2>1 DEF LifeInUse, Controlled
<1>7. MainControl'
  <2>1. MainControl /\ (NoFls' <=> NoFls) /\ generation' = generation /\ life' = life
    BY DEF Controlled, Control, Dismantling, NoFls
  <2>2. CASE t # Main
    <3>1. pc'[Main] = pc[Main] /\ ret'[Main] = ret[Main] /\ victim'[Main] = victim[Main]
      BY <1>2, <2>2 DEF Dismantling
    <3>2. pc[Main] = "closed" => stock' = stock
      <4>1. pc[Main] = "closed" => Range(registered) = {}
        BY <2>1 DEF MainControl, Range
      <4> QED BY <4>1 DEF Dismantling
    <3> QED BY <1>5, <2>1, <3>1, <3>2 DEF MainControl, EmptyLists
  <2>3. CASE t = Main
    <3>1. /\ pc'[Main] \in Detaching =>
                /\ victim'[Main] \in Users /\ ret'[Main] \in {"fls", "sweep"}
                /\ ret'[Main] = "sweep" => NoFls'
          /\ pc'[Main] = "sweep" => NoFls'
      BY <1>1, <1>3, <2>1, <2>3 DEF Dismantling, MainControl
    <3>2. pc'[Main] \in Detaching \cup {"fls", "sweep"} /\ generation' = life' /\ life' > 0
      BY <1>3, <1>4, <2>1, <2>3 DEF MainControl
    <3> QED BY <1>3, <3>1, <3>2 DEF MainControl, MainPcs, EmptyLists
  <2> QED BY <2>2, <2>3
<1>8. ASSUME NEW u \in Users PROVE UserControl(u)'
  <2>1. UserControl(u) /\ u \in Threads /\ u # Main
    BY <1>2 DEF Controlled, Control
  <2>2. todo'[u] = todo[u] /\ bin'[u] = bin[u]
    BY DEF Dismantling
  <2>3. CASE u = t
    <3>1. pc'[u] \in Detaching \cup {"gone"} /\ todo[u] = <<>>
      BY <1>1, <2>1, <2>3 DEF Dismantling
    <3>2. pc'[u] \in Detaching => victim'[u] = u /\ ret'[u] = "gone"
      BY <1>1, <1>3, <2>1, <2>3 DEF Dismantling
    <3>3. pc'[u] \in UserPcs /\ pc'[u] \notin Working \cup {"orphan"} /\ pc'[u] # "carve"
      BY <3>1 DEF UserPcs, Working, Detaching
    <3> QED BY <2>2, <3>1, <3>2, <3>3 DEF UserControl
  <2>4. CASE u # t
    <3>1. pc'[u] = pc[u] /\ ret'[u] = ret[u] /\ victim'[u] = victim[u]
      BY <2>1, <2>4 DEF Dismantling
    <3>2. pc[u] \in Working => cache'[u] = cache[u] /\ list'[u] = list[u]
      <4>1. CASE u = v
        <5>1. t = Main
          BY <1>1, <2>4, <4>1
        <5> QED BY <1>1, <2>1, <5>1 DEF UserControl
      <4>2. CASE u # v
        BY <4>2 DEF Dismantling
      <4> QED BY <4>1, <4>2
    <3> QED BY <1>4, <2>1, <2>2, <3>1, <3>2 DEF UserControl
  <2> QED BY <2>3, <2>4
<1>9. ASSUME NEW u \in Users \ {v} PROVE CacheControl(u)'
  <2>1. CacheControl(u) /\ u \in Threads /\ u # Main /\ u # t
    BY <1>1, <1>2 DEF Controlled, Control
  <2>2. /\ pc'[u] = pc[u] /\ ret'[u] = ret[u] /\ victim'[u] = victim[u]
        /\ cache'[u] = cache[u] /\ list'[u] = list[u] /\ balance'[u] = balance[u]
        /\ u \in Range(registered') <=> u \in Range(registered)
        /\ UNCHANGED <<life, generation, tags, fls>>
    BY <2>1 DEF Dismantling
  <2>3. Found(u)' = Found(u)
    <3>1. slot'[u] = slot[u]
      BY DEF Types
    <3> QED BY <2>2, <3>1 DEF Found
  <2>4. Dismantles(u, u)' = Dismantles(u, u)
    BY <2>2 DEF Dismantles
  <2>5. /\ Dismantles(Main, u)' = Dismantles(Main, u)
        /\ Dismantles(Main, u) => pc'[Main] = pc[Main]
    <3>1. CASE t = Main
      <4>1. victim[Main] # u /\ victim'[Main] # u
        BY <2>1, <3>1, ThreadsAre DEF Dismantling
      <4> QED BY <4>1 DEF Dismantles
    <3>2. CASE t # Main
      <4>1. pc'[Main] = pc[Main] /\ victim'[Main] = victim[Main]
        BY <1>2, <3>2 DEF Dismantling
      <4> QED BY <4>1 DEF Dismantles
    <3> QED BY <3>1, <3>2
  <2>6. /\ u \in Range(registered') => cache'[u] \in {"live", "marked"}
        /\ u \notin Range(registered') =>
              cache'[u] # "live" /\ list'[u] = EmptyLists /\ balance'[u] = 0
        /\ cache'[u] = "marked" <=> Dismantles(u, u)' \/ Dismantles(Main, u)'
        /\ ~(Dismantles(u, u)' /\ Dismantles(Main, u)')
    BY <2>1, <2>2, <2>4, <2>5 DEF CacheControl
  <2>7. ASSUME NEW w \in {u, Main}, Dismantles(w, u)'
        PROVE  pc'[w] = "flush" <=> u \in Range(registered')
    <3>1. Dismantles(w, u) /\ pc'[w] = pc[w]
      BY <2>2, <2>4, <2>5, <2>7
    <3> QED BY <2>1, <2>2, <3>1 DEF CacheControl
  <2>8. InUse' /\ pc'[u] \in {"idle", "orphan"} \cup Working => (Found(u)' <=> cache'[u] = "live")
    BY <1>4, <2>1, <2>2, <2>3 DEF CacheControl
  <2> QED BY <2>6, <2>7, <2>8 DEF CacheControl, EmptyLists
<1> QED BY <1>6, <1>7, <1>8, <1>9

(* What it means for the cache.                                            *)
LEMMA DismantledCache ==
    ASSUME Types, Controlled, NEW t \in Threads, pc[t] \in Detaching,
           NEW v, v = victim[t], Dismantling(t, v),
           v \in Range(registered') => cache'[v] \in {"live", "marked"},
           v \notin Range(registered') =>
              cache'[v] # "live" /\ list'[v] = EmptyLists /\ balance'[v] = 0,
           cache'[v] = "marked" <=> Dismantles(v, v)' \/ Dismantles(Main, v)',
           ~(Dismantles(v, v)' /\ Dismantles(Main, v)'),
           \A w \in {v, Main} : Dismantles(w, v)' => (pc'[w] = "flush" <=> v \in Range(registered'))
    PROVE  CacheControl(v)'
<1>1. /\ v \in Users
      /\ t = Main => ~InUse
      /\ t # Main => t = v /\ t \in Users /\ ret[t] = "gone"
  BY InDetach
<1>2. ~(InUse' /\ pc'[v] \in {"idle", "orphan"} \cup Working)
  <2>1. CASE t = Main
    <3>1. pc'[Main] # "open"
      BY <1>1, <2>1, InDetach DEF Dismantling, Detaching, InUse
    <3> QED BY <3>1 DEF InUse
  <2>2. CASE t # Main
    <3>1. pc'[v] \in Detaching \cup {"gone"}
      BY <1>1, <2>2 DEF Dismantling
    <3> QED BY <3>1 DEF Detaching, Working
  <2> QED BY <2>1, <2>2
<1> QED BY <1>2 DEF CacheControl, EmptyLists

(* Before the step: who takes v apart, and what is left of it.             *)
LEMMA OfTheCache ==
    ASSUME Types, Controlled, NEW t \in Threads, pc[t] \in Detaching, NEW v, v = victim[t]
    PROVE  /\ CacheControl(v) /\ t \in {v, Main}
           /\ pc[t] \in {"flush", "free"} =>
                 /\ cache[v] = "marked"
                 /\ \A w \in {v, Main} \ {t} : ~Dismantles(w, v)
                 /\ pc[t] = "flush" <=> v \in Range(registered)
<1>1. v \in Users /\ t \in {v, Main} /\ v # Main
  BY InDetach, ThreadsAre
<1>2. CacheControl(v)
  BY <1>1 DEF Controlled, Control
<1>3. ASSUME pc[t] \in {"flush", "free"}
      PROVE  /\ cache[v] = "marked"
             /\ \A w \in {v, Main} \ {t} : ~Dismantles(w, v)
             /\ pc[t] = "flush" <=> v \in Range(registered)
  <2>1. Dismantles(t, v)
    BY <1>3 DEF Dismantles
  <2> QED BY <1>1, <1>2, <2>1 DEF CacheControl
<1> QED BY <1>1, <1>2, <1>3

LEMMA Leaves ==
    ASSUME Types, NEW t \in Threads, Leave(t)
    PROVE  /\ pc'[t] = ret[t] /\ victim'[t] = NoThread
           /\ \A u \in Threads \ {t} :
                 pc'[u] = pc[u] /\ ret'[u] = ret[u] /\ victim'[u] = victim[u]
BY DEF Leave, Types

LEMMA ControlDetach ==
    ASSUME Types, Controlled, Types', NEW t \in Threads, Detach(t)
    PROVE  Controlled'
<1>0. PICK v : v = victim[t]
  OBVIOUS
<1>1. pc[t] = "detach" /\ pc[t] \in Detaching
  BY <1>0 DEF Detach, Detaching
<1>2. UNCHANGED <<global, registry, list, balance, slot, fls, bin, todo, ghosts>>
  BY <1>0 DEF Detach
<1>3. /\ v \in Users /\ v \in Threads /\ CacheControl(v) /\ t \in {v, Main} /\ v # Main
      /\ ret[t] \in {"fls", "sweep", "gone"} /\ RegisteredOnce
  BY <1>0, <1>1, InDetach, OfTheCache, ThreadsAre DEF Controlled
<1>4. CASE /\ cache[v] = "live" /\ cache' = [cache EXCEPT ![v] = "marked"]
           /\ pc' = [pc EXCEPT ![t] = "flush"] /\ UNCHANGED <<ret, victim>>
  <2>1. pc'[t] = "flush" /\ \A u \in Threads \ {t} : pc'[u] = pc[u]
    BY <1>4, PcMoves
  <2>2. cache'[v] = "marked" /\ \A u \in Users \ {v} : cache'[u] = cache[u]
    BY <1>3, <1>4 DEF Types
  <2>3. Dismantling(t, v)
    BY <1>2, <1>4, <2>1, <2>2 DEF Dismantling, Detaching
  <2>4. v \in Range(registered) /\ ~Dismantles(v, v) /\ ~Dismantles(Main, v)
    BY <1>3, <1>4 DEF CacheControl
  <2>5. Dismantles(t, v)' /\ \A w \in {v, Main} \ {t} : ~Dismantles(w, v)'
    <3>1. Dismantles(t, v)'
      BY <1>0, <1>4, <2>1 DEF Dismantles
    <3>2. ASSUME NEW w \in {v, Main} \ {t} PROVE ~Dismantles(w, v)'
      <4>1. w \in Threads \ {t}
        BY <1>3, ThreadsAre
      <4> QED BY <1>4, <2>1, <2>4, <4>1 DEF Dismantles
    <3> QED BY <3>1, <3>2
  <2>6. CacheControl(v)'
    <3>1. \A w \in {v, Main} : Dismantles(w, v)' => w = t
      BY <2>5
    <3> QED BY <1>0, <1>1, <1>2, <1>3, <2>1, <2>2, <2>3, <2>4, <2>5, <3>1, DismantledCache
  <2>7. /\ MainControl' /\ LifeInUse' /\ \A u \in Users : UserControl(u)'
        /\ \A u \in Users \ {v} : CacheControl(u)'
    BY <1>1, <1>2, <2>3, <1>0, DismantlingKeeps
  <2>8. RegisteredOnce'
    BY <1>2, <1>3 DEF RegisteredOnce
  <2> QED BY <2>6, <2>7, <2>8 DEF Controlled, Control
<1>5. CASE cache[v] # "live" /\ Leave(t) /\ UNCHANGED cache
  <2>1. /\ pc'[t] = ret[t] /\ victim'[t] = NoThread
        /\ \A u \in Threads \ {t} :
              pc'[u] = pc[u] /\ ret'[u] = ret[u] /\ victim'[u] = victim[u]
    BY <1>5, Leaves
  <2>2. Dismantling(t, v)
    BY <1>2, <1>5, <2>1 DEF Dismantling
  <2>3. ~Dismantles(t, v) /\ ~Dismantles(t, v)'
    BY <1>1, <1>3, <2>1 DEF Dismantles
  <2>4. \A w \in {v, Main} : (Dismantles(w, v)' <=> Dismantles(w, v))
                             /\ (Dismantles(w, v) => pc'[w] = pc[w])
    <3>1. ASSUME NEW w \in {v, Main}, w # t
          PROVE  pc'[w] = pc[w] /\ victim'[w] = victim[w]
      BY <1>3, <2>1, <3>1, ThreadsAre
    <3> QED BY <2>3, <3>1 DEF Dismantles
  <2>5. CacheControl(v)'
    <3>2. \A w \in {v, Main} : Dismantles(w, v)' => (pc'[w] = "flush" <=> v \in Range(registered'))
      BY <1>2, <1>3, <2>4 DEF CacheControl
    <3>3. /\ v \in Range(registered') => cache'[v] \in {"live", "marked"}
          /\ v \notin Range(registered') =>
                cache'[v] # "live" /\ list'[v] = EmptyLists /\ balance'[v] = 0
          /\ cache'[v] = "marked" <=> Dismantles(v, v)' \/ Dismantles(Main, v)'
          /\ ~(Dismantles(v, v)' /\ Dismantles(Main, v)')
      BY <1>2, <1>3, <1>5, <2>4 DEF CacheControl
    <3> QED BY <1>0, <1>1, <2>2, <3>2, <3>3, DismantledCache
  <2>6. /\ MainControl' /\ LifeInUse' /\ \A u \in Users : UserControl(u)'
        /\ \A u \in Users \ {v} : CacheControl(u)'
    BY <1>1, <1>2, <2>2, <1>0, DismantlingKeeps
  <2>7. RegisteredOnce'
    BY <1>2, <1>3 DEF RegisteredOnce
  <2> QED BY <2>5, <2>6, <2>7 DEF Controlled, Control
<1> QED BY <1>0, <1>4, <1>5 DEF Detach

LEMMA ControlFlushAll ==
    ASSUME Types, Controlled, Types', NEW t \in Threads, FlushAll(t)
    PROVE  Controlled'
<1>0. PICK v : v = victim[t]
  OBVIOUS
<1>1. pc[t] = "flush" /\ pc[t] \in Detaching
  BY <1>0 DEF FlushAll, Detaching
<1>2. UNCHANGED <<blocks, growLock, committed, segments, registry, cache,
                  balance, slot, fls, locals, ghosts>>
  BY DEF FlushAll
<1>3. /\ v \in Users /\ v \in Threads /\ CacheControl(v) /\ RegisteredOnce
      /\ v \in Range(registered)
  BY <1>0, <1>1, InDetach, OfTheCache DEF Controlled
<1>4. \A u \in Users \ {v} : list'[u] = list[u]
  BY <1>0 DEF FlushAll, Types
<1>5. Dismantling(t, v)
  BY <1>1, <1>2, <1>3, <1>4 DEF Dismantling
<1>6. CacheControl(v)'
  <2>2. \A w \in {v, Main} : Dismantles(w, v)' = Dismantles(w, v) /\ pc'[w] = pc[w]
    BY <1>2 DEF Dismantles
  <2>3. /\ v \in Range(registered') => cache'[v] \in {"live", "marked"}
        /\ v \in Range(registered')
        /\ cache'[v] = "marked" <=> Dismantles(v, v)' \/ Dismantles(Main, v)'
        /\ ~(Dismantles(v, v)' /\ Dismantles(Main, v)')
        /\ \A w \in {v, Main} : Dismantles(w, v)' => (pc'[w] = "flush" <=> v \in Range(registered'))
    BY <1>2, <1>3, <2>2 DEF CacheControl
  <2> QED BY <1>0, <1>1, <1>5, <2>3, DismantledCache
<1>7. /\ MainControl' /\ LifeInUse' /\ \A u \in Users : UserControl(u)'
      /\ \A u \in Users \ {v} : CacheControl(u)'
  BY <1>1, <1>2, <1>5, <1>0, DismantlingKeeps
<1>8. RegisteredOnce'
  BY <1>2, <1>3 DEF RegisteredOnce
<1> QED BY <1>6, <1>7, <1>8 DEF Controlled, Control

(* The list of caches without one.                                         *)
LEMMA OffTheList ==
    ASSUME Types, RegisteredOnce, NEW i \in DOMAIN registered,
           registered' = RemoveAt(registered, i)
    PROVE  RegisteredOnce' /\ Range(registered') = Range(registered) \ {registered[i]}
<1> DEFINE n == Len(registered)
<1>1. registered \in Seq(Users) /\ n \in Nat /\ i \in 1 .. n /\ DOMAIN registered = 1 .. n
  BY DEF Types
<1> DEFINE old(k) == IF k < i THEN k ELSE k + 1
<1>2. /\ DOMAIN registered' = 1 .. n - 1
      /\ \A k \in 1 .. n - 1 : registered'[k] = registered[old(k)]
  <2> DEFINE s == SubSeq(registered, 1, i - 1)
             r == SubSeq(registered, i + 1, n)
  <2>1. /\ s \in Seq(Users) /\ Len(s) = i - 1 /\ \A k \in 1 .. i - 1 : s[k] = registered[k]
        /\ r \in Seq(Users) /\ Len(r) = n - i /\ \A k \in 1 .. n - i : r[k] = registered[i + k]
    BY SMTT(30), <1>1
  <2>2. registered' = s \o r
    BY DEF RemoveAt
  <2> HIDE DEF s, r, n
  <2>3. DOMAIN registered' = 1 .. n - 1
    BY <1>1, <2>1, <2>2
  <2>4. ASSUME NEW k \in 1 .. n - 1 PROVE registered'[k] = registered[old(k)]
    <3>1. CASE k < i
      BY <1>1, <2>1, <2>2, <3>1
    <3>2. CASE ~(k < i)
      <4>1. k - Len(s) \in 1 .. n - i /\ k > Len(s) /\ k <= Len(s) + Len(r)
        BY <1>1, <2>1, <3>2
      <4>2. registered'[k] = r[k - Len(s)]
        BY SMTT(30), <1>1, <2>1, <2>2, <4>1
      <4>3. r[k - Len(s)] = registered[i + (k - Len(s))] /\ i + (k - Len(s)) = k + 1
        BY <1>1, <2>1, <4>1
      <4> QED BY <3>2, <4>2, <4>3
    <3> QED BY <3>1, <3>2
  <2> QED BY <2>3, <2>4
<1> HIDE DEF n
<1>3. \A k \in 1 .. n - 1 : old(k) \in 1 .. n /\ old(k) # i
  BY <1>1
<1>4. \A k \in 1 .. n : k # i => \E m \in 1 .. n - 1 : old(m) = k
  <2> SUFFICES ASSUME NEW k \in 1 .. n, k # i PROVE \E m \in 1 .. n - 1 : old(m) = k
    OBVIOUS
  <2>1. CASE k < i
    BY <1>1, <2>1
  <2>2. CASE k > i
    <3>1. k - 1 \in 1 .. n - 1 /\ old(k - 1) = k
      BY <1>1, <2>2
    <3> QED BY <3>1
  <2> QED BY <1>1, <2>1, <2>2
<1>5. RegisteredOnce'
  <2> SUFFICES ASSUME NEW j \in 1 .. n - 1, NEW k \in 1 .. n - 1, registered'[j] = registered'[k]
               PROVE  j = k
    BY <1>2 DEF RegisteredOnce
  <2>1. old(j) = old(k)
    BY <1>1, <1>2, <1>3 DEF RegisteredOnce
  <2> QED BY <1>1, <2>1
<1>6. Range(registered') \subseteq Range(registered) \ {registered[i]}
  <2> SUFFICES ASSUME NEW k \in 1 .. n - 1
               PROVE  registered'[k] \in Range(registered) \ {registered[i]}
    BY <1>2 DEF Range
  <2>1. registered'[k] = registered[old(k)] /\ old(k) \in DOMAIN registered /\ old(k) # i
    BY <1>1, <1>2, <1>3
  <2> HIDE DEF old
  <2> QED BY <2>1 DEF Range, RegisteredOnce
<1>7. ASSUME NEW k \in DOMAIN registered, registered[k] # registered[i]
      PROVE  registered[k] \in Range(registered')
  <2>1. PICK m \in 1 .. n - 1 : old(m) = k
    BY <1>1, <1>4, <1>7
  <2>2. registered'[m] = registered[k] /\ m \in DOMAIN registered'
    BY <1>2, <2>1
  <2> QED BY <2>2 DEF Range
<1> QED BY <1>5, <1>6, <1>7 DEF Range

LEMMA ControlUnlink ==
    ASSUME Types, Controlled, Types', NEW t \in Threads, Unlink(t)
    PROVE  Controlled' /\ Range(registered') = Range(registered) \ {victim[t]}
<1>0. PICK v : v = victim[t]
  OBVIOUS
<1>1. pc[t] = "flush" /\ pc[t] \in Detaching /\ Cached(v) = {}
  BY <1>0 DEF Unlink, Detaching
<1>2. /\ balance' = [balance EXCEPT ![v] = 0] /\ pc' = [pc EXCEPT ![t] = "free"]
      /\ UNCHANGED <<global, life, generation, tags, flsOpen, cache, list, slot, fls,
                     ret, bin, todo, victim, ghosts>>
  BY <1>0 DEF Unlink
<1>3. /\ v \in Users /\ v \in Threads /\ CacheControl(v) /\ RegisteredOnce
      /\ t \in {v, Main} /\ cache[v] = "marked"
      /\ \A w \in {v, Main} \ {t} : ~Dismantles(w, v)
  BY <1>0, <1>1, InDetach, OfTheCache DEF Controlled
<1>4. RegisteredOnce' /\ Range(registered') = Range(registered) \ {v}
  <2>1. PICK i \in DOMAIN registered : registered[i] = v /\ registered' = RemoveAt(registered, i)
    BY <1>0 DEF Unlink
  <2> QED BY <1>3, <2>1, OffTheList
<1>5. balance'[v] = 0 /\ \A u \in Users \ {v} : balance'[u] = balance[u]
  BY <1>2, <1>3 DEF Types
<1>6. pc'[t] = "free" /\ \A u \in Threads \ {t} : pc'[u] = pc[u]
  BY <1>2, PcMoves
<1>7. Dismantling(t, v)
  <2>1. v \in Range(registered) \/ UNCHANGED stock
    BY <1>2
  <2> QED BY <1>2, <1>4, <1>5, <1>6, <2>1 DEF Dismantling, Detaching
<1>8. CacheControl(v)'
  <2>1. list[v] = EmptyLists
    BY <1>1, <1>3 DEF Types, Cached, EmptyLists
  <2>2. Dismantles(t, v)'
    BY <1>0, <1>2, <1>6 DEF Dismantles
  <2>3. ASSUME NEW w \in {v, Main}, w # t PROVE ~Dismantles(w, v)'
    <3>1. w \in Threads \ {t}
      BY <1>3, <2>3, ThreadsAre
    <3> QED BY <1>2, <1>3, <1>6, <3>1 DEF Dismantles
  <2>4. v # Main
    BY <1>3, ThreadsAre
  <2>5. \A w \in {v, Main} : Dismantles(w, v)' => w = t
    BY <2>3
  <2>6. /\ v \notin Range(registered') /\ cache'[v] # "live" /\ list'[v] = EmptyLists
        /\ balance'[v] = 0 /\ cache'[v] = "marked"
    BY <1>2, <1>3, <1>4, <1>5, <2>1
  <2>7. \A w \in {v, Main} : Dismantles(w, v)' => (pc'[w] = "flush" <=> v \in Range(registered'))
    BY <1>6, <2>5, <2>6
  <2> QED BY <1>0, <1>1, <1>3, <1>7, <2>2, <2>4, <2>5, <2>6, <2>7, DismantledCache
<1>9. /\ MainControl' /\ LifeInUse' /\ \A u \in Users : UserControl(u)'
      /\ \A u \in Users \ {v} : CacheControl(u)'
  BY <1>1, <1>2, <1>7, <1>0, DismantlingKeeps
<1> QED BY <1>0, <1>4, <1>8, <1>9 DEF Controlled, Control

LEMMA ControlFreeCache ==
    ASSUME Types, Controlled, Types', NEW t \in Threads, FreeCache(t)
    PROVE  Controlled'
<1>0. PICK v : v = victim[t]
  OBVIOUS
<1>1. pc[t] = "free" /\ pc[t] \in Detaching
  BY <1>0 DEF FreeCache, Detaching
<1>2. /\ cache' = [cache EXCEPT ![v] = "freed"]
      /\ slot' = slot \/ slot' = [slot EXCEPT ![v] = 0]
      /\ UNCHANGED <<global, registry, list, balance, fls, bin, todo, ghosts>>
  BY <1>0 DEF FreeCache
<1>3. /\ v \in Users /\ v \in Threads /\ CacheControl(v) /\ RegisteredOnce /\ v # Main
      /\ t \in {v, Main} /\ v \notin Range(registered)
      /\ \A w \in {v, Main} \ {t} : ~Dismantles(w, v)
      /\ ret[t] \in {"fls", "sweep", "gone"}
  BY <1>0, <1>1, InDetach, OfTheCache, ThreadsAre DEF Controlled
<1>4. /\ pc'[t] = ret[t] /\ victim'[t] = NoThread
      /\ \A u \in Threads \ {t} :
            pc'[u] = pc[u] /\ ret'[u] = ret[u] /\ victim'[u] = victim[u]
  BY <1>0, Leaves DEF FreeCache
<1>5. cache'[v] = "freed" /\ \A u \in Users \ {v} : cache'[u] = cache[u]
  BY <1>2, <1>3 DEF Types
<1>6. Dismantling(t, v)
  <2>1. UNCHANGED stock
    BY <1>2
  <2> QED BY <1>2, <1>4, <1>5, <2>1 DEF Dismantling
<1>7. CacheControl(v)'
  <2>1. \A w \in {v, Main} : ~Dismantles(w, v)'
    <3>1. ~Dismantles(t, v)'
      BY <1>3, <1>4 DEF Dismantles
    <3>2. ASSUME NEW w \in {v, Main}, w # t PROVE ~Dismantles(w, v)'
      <4>1. w \in Threads \ {t}
        BY <1>3, <3>2, ThreadsAre
      <4> QED BY <1>3, <1>4, <4>1 DEF Dismantles
    <3> QED BY <3>1, <3>2
  <2>3. /\ v \notin Range(registered') /\ cache'[v] # "live" /\ list'[v] = EmptyLists
        /\ balance'[v] = 0 /\ cache'[v] # "marked"
    BY <1>2, <1>3, <1>5 DEF CacheControl
  <2> QED BY <1>0, <1>1, <1>6, <2>1, <2>3, DismantledCache
<1>8. /\ MainControl' /\ LifeInUse' /\ \A u \in Users : UserControl(u)'
      /\ \A u \in Users \ {v} : CacheControl(u)'
  BY <1>1, <1>2, <1>6, <1>0, DismantlingKeeps
<1>9. RegisteredOnce'
  BY <1>2, <1>3 DEF RegisteredOnce
<1> QED BY <1>7, <1>8, <1>9 DEF Controlled, Control

(* Steps that leave the caches alone but for the pc of t and what Detach   *)
(* is to work on.                                                          *)
LEMMA CachesKept ==
    ASSUME Types, Controlled, NEW t \in Threads,
           pc[t] \notin {"flush", "free"}, pc'[t] \notin {"flush", "free"},
           \A u \in Threads \ {t} : pc'[u] = pc[u] /\ victim'[u] = victim[u],
           UNCHANGED <<cache, list, balance, slot, registered, generation, tags, life>>,
           NEW v \in Users,
           InUse' => InUse /\ (v = t => pc'[v] \notin Busy) /\ fls'[v] = fls[v]
    PROVE  CacheControl(v)'
<1>1. CacheControl(v) /\ v \in Threads /\ Main \in Threads /\ v # Main
  BY ThreadsAre DEF Controlled, Control
<1>2. \A w \in Threads : (Dismantles(w, v)' <=> Dismantles(w, v))
                         /\ (Dismantles(w, v) => pc'[w] = pc[w])
  BY DEF Dismantles
<1>3. InUse' /\ pc'[v] \in {"idle", "orphan"} \cup Working => (Found(v)' <=> cache'[v] = "live")
  <2> SUFFICES ASSUME InUse', pc'[v] \in Busy PROVE Found(v)' <=> cache'[v] = "live"
    BY DEF Busy
  <2>1. InUse /\ v # t /\ fls'[v] = fls[v]
    OBVIOUS
  <2>2. pc'[v] = pc[v]
    BY <1>1, <2>1
  <2>3. Found(v)' <=> Found(v)
    BY <2>1 DEF Found
  <2> QED BY <1>1, <2>1, <2>2, <2>3 DEF CacheControl, Busy
<1> QED BY <1>1, <1>2, <1>3 DEF CacheControl, EmptyLists

LEMMA ControlThreadExit ==
    ASSUME Types, Controlled, NEW t \in Users, ThreadExit(t)
    PROVE  Controlled'
<1>1. t \in Threads /\ t # Main /\ Main \in Threads /\ \A u \in Users : u \in Threads
  BY ThreadsAre
<1>2. /\ pc[t] = "idle" /\ fls' = [fls EXCEPT ![t] = FALSE]
      /\ UNCHANGED <<global, registry, cache, list, balance, slot, bin, todo, ghosts>>
  BY DEF ThreadExit
<1>3. /\ \/ pc'[t] = "gone"
         \/ pc'[t] = "detach" /\ victim'[t] = t /\ ret'[t] = "gone"
      /\ \A u \in Threads \ {t} : pc'[u] = pc[u] /\ ret'[u] = ret[u] /\ victim'[u] = victim[u]
  <2>0. /\ pc \in [Threads -> PCs] /\ ret \in [Threads -> PCs]
        /\ victim \in [Threads -> Users \cup {NoThread}]
    BY DEF Types
  <2>1. CASE fls[t] /\ flsOpen
    <3>1. /\ victim' = [victim EXCEPT ![t] = t] /\ ret' = [ret EXCEPT ![t] = "gone"]
          /\ pc' = [pc EXCEPT ![t] = "detach"]
      BY <2>1 DEF ThreadExit
    <3> QED BY <1>1, <2>0, <3>1
  <2>2. CASE ~(fls[t] /\ flsOpen)
    <3>1. pc' = [pc EXCEPT ![t] = "gone"] /\ UNCHANGED <<victim, ret>>
      BY <2>2 DEF ThreadExit
    <3> QED BY <1>1, <2>0, <3>1
  <2> QED BY <2>1, <2>2
<1>4. \A u \in Users \ {t} : fls'[u] = fls[u]
  BY <1>2 DEF Types
<1>5. NoFls => NoFls'
  BY <1>2 DEF Types, NoFls
<1>6. MainControl' /\ LifeInUse' /\ RegisteredOnce'
  <2>1. pc'[Main] = pc[Main] /\ ret'[Main] = ret[Main] /\ victim'[Main] = victim[Main]
    BY <1>1, <1>3
  <2>2. MainControl /\ LifeInUse /\ RegisteredOnce
    BY DEF Controlled, Control
  <2>3. MainControl'
    BY <1>2, <1>5, <2>1, <2>2 DEF MainControl, EmptyLists
  <2> QED BY <1>2, <2>1, <2>2, <2>3 DEF LifeInUse, RegisteredOnce
<1>7. ASSUME NEW u \in Users PROVE UserControl(u)'
  <2>1. UserControl(u)
    BY DEF Controlled, Control
  <2>2. CASE u # t
    BY <1>1, <1>2, <1>3, <2>1, <2>2 DEF UserControl, InUse
  <2>3. CASE u = t
    <3>1. pc'[u] \notin Working \cup {"orphan", "carve"} /\ pc'[u] \in UserPcs
      BY <1>3, <2>3 DEF Working, UserPcs, Detaching
    <3>2. todo'[u] = <<>>
      BY <1>2, <2>1, <2>3 DEF UserControl
    <3>3. pc'[u] \in Detaching => victim'[u] = u /\ ret'[u] = "gone"
      BY <1>3, <2>3 DEF Detaching
    <3> QED BY <3>1, <3>2, <3>3 DEF UserControl
  <2> QED BY <2>2, <2>3
<1>8. ASSUME NEW u \in Users PROVE CacheControl(u)'
  <2>1. pc'[t] \notin {"flush", "free"} /\ pc'[t] \notin Busy /\ InUse' = InUse
    BY <1>1, <1>3 DEF Busy, Working, InUse
  <2>2. CASE u # t
    BY <1>1, <1>2, <1>3, <1>4, <2>1, <2>2, CachesKept
  <2>3. CASE u = t
    <3>1. CacheControl(u) /\ ~(pc'[u] \in {"idle", "orphan"} \cup Working)
      BY <2>1, <2>3 DEF Controlled, Control, Busy
    <3>2. \A w \in {u, Main} : (Dismantles(w, u)' <=> Dismantles(w, u))
                         /\ (Dismantles(w, u) => pc'[w] = pc[w])
      BY <1>1, <1>2, <1>3, <2>1, <2>3 DEF Dismantles
    <3> QED BY <1>2, <3>1, <3>2 DEF CacheControl, EmptyLists
  <2> QED BY <2>2, <2>3
<1> QED BY <1>6, <1>7, <1>8 DEF Controlled, Control

LEMMA ControlThreadStart ==
    ASSUME Types, Controlled, NEW t \in Users, ThreadStart(t)
    PROVE  Controlled'
<1>1. t \in Threads /\ t # Main /\ Main \in Threads /\ \A u \in Users : u \in Threads
  BY ThreadsAre
<1>2. /\ pc[Main] = "closed" /\ pc[t] = "gone" /\ cache[t] \in {"none", "freed"}
      /\ cache' = [cache EXCEPT ![t] = "none"] /\ pc' = [pc EXCEPT ![t] = "idle"]
      /\ UNCHANGED <<global, registry, list, balance, fls, ret, bin, todo, victim, ghosts>>
  BY DEF ThreadStart
<1>3. pc'[t] = "idle" /\ \A u \in Threads \ {t} : pc'[u] = pc[u]
  BY <1>1, <1>2, PcMoves
<1>4. cache'[t] = "none" /\ \A u \in Users \ {t} : cache'[u] = cache[u]
  BY <1>2 DEF Types
<1>5. pc'[Main] = "closed" /\ ~InUse'
  BY <1>1, <1>2, <1>3 DEF InUse
<1>6. MainControl' /\ LifeInUse' /\ RegisteredOnce'
  BY <1>2, <1>5 DEF Controlled, Control, MainControl, LifeInUse, RegisteredOnce, NoFls,
                    EmptyLists, Detaching, MainPcs
<1>7. ASSUME NEW u \in Users PROVE UserControl(u)'
  <2>1. UserControl(u) /\ ~InUse
    BY <1>2 DEF Controlled, Control, InUse
  <2>2. CASE u # t
    BY <1>1, <1>2, <1>3, <2>1, <2>2 DEF UserControl
  <2>3. CASE u = t
    <3>1. pc'[u] \notin Working \cup {"orphan", "carve"} \cup Detaching /\ pc'[u] \in UserPcs
      BY <1>3, <2>3 DEF Working, UserPcs, Detaching
    <3>2. todo'[u] = <<>>
      BY <1>2, <2>1, <2>3 DEF UserControl
    <3> QED BY <3>1, <3>2 DEF UserControl
  <2> QED BY <2>2, <2>3
<1>8. ASSUME NEW u \in Users PROVE CacheControl(u)'
  <2>1. CacheControl(u)
    BY DEF Controlled, Control
  <2>2. \A w \in {u, Main} : (Dismantles(w, u)' <=> Dismantles(w, u))
                       /\ (Dismantles(w, u) => pc'[w] = pc[w])
    BY <1>1, <1>2, <1>3 DEF Dismantles
  <2>3. u = t => cache[u] # "marked" /\ u \notin Range(registered)
    BY <1>2, <2>1 DEF CacheControl
  <2> QED BY <1>2, <1>4, <1>5, <2>1, <2>2, <2>3 DEF CacheControl, EmptyLists
<1> QED BY <1>6, <1>7, <1>8 DEF Controlled, Control

(* A step of Main only.                                                    *)
LEMMA MainMoves ==
    ASSUME Types, NEW to, pc' = [pc EXCEPT ![Main] = to]
    PROVE  pc'[Main] = to /\ \A u \in Users : pc'[u] = pc[u]
BY ThreadsAre, PcMoves

LEMMA OfTheUsers ==
    ASSUME Types, Controlled, \A u \in Users : pc'[u] = pc[u] /\ ret'[u] = ret[u]
                                               /\ victim'[u] = victim[u],
           UNCHANGED <<todo, cache, list, bin>>,
           \/ (InUse' <=> InUse)
           \/ \A u \in Users : pc[u] \notin Working \cup {"orphan"}
    PROVE  \A u \in Users : UserControl(u)'
<1> SUFFICES ASSUME NEW u \in Users PROVE UserControl(u)'
  OBVIOUS
<1>1. UserControl(u)
  BY DEF Controlled, Control
<1> QED BY <1>1 DEF UserControl

LEMMA ControlFinalize ==
    ASSUME Types, Controlled, Finalize
    PROVE  Controlled'
<1>1. /\ InUse /\ \A t \in Users : pc[t] \in {"idle", "gone", "detach", "flush", "free"}
      /\ pc' = [pc EXCEPT ![Main] = "fls"]
      /\ UNCHANGED <<global, registry, caches, ret, bin, todo, victim, ghosts>>
  BY DEF Finalize
<1>2. pc'[Main] = "fls" /\ pc[Main] = "open" /\ \A u \in Users : pc'[u] = pc[u]
  BY <1>1, MainMoves DEF InUse
<1>3. MainControl' /\ LifeInUse' /\ RegisteredOnce'
  BY <1>1, <1>2 DEF Controlled, Control, MainControl, LifeInUse, RegisteredOnce,
                    EmptyLists, Detaching, MainPcs
<1>4. \A u \in Users : pc[u] \notin Working \cup {"orphan"}
  BY <1>1 DEF Working
<1>5. \A u \in Users : UserControl(u)'
  BY <1>1, <1>2, <1>4, OfTheUsers
<1>6. ASSUME NEW u \in Users PROVE CacheControl(u)'
  <2>1. ~InUse' /\ Main \in Threads /\ \A w \in Threads \ {Main} : pc'[w] = pc[w]
    BY <1>2, ThreadsAre DEF InUse
  <2> QED BY <1>1, <1>2, <2>1, CachesKept
<1> QED BY <1>3, <1>5, <1>6 DEF Controlled, Control

LEMMA ControlFlsFree ==
    ASSUME Types, Controlled, FlsFree
    PROVE  Controlled'
<1>1. /\ pc[Main] = "fls"
      /\ UNCHANGED <<global, life, generation, tags, registered, retired, cache,
                     list, balance, slot, bin, todo, ghosts>>
  BY DEF FlsFree
<1>2. Main \in Threads /\ Main \notin Users
  BY ThreadsAre
<1>3. /\ \/ /\ pc'[Main] = "detach" /\ victim'[Main] \in Users /\ ret'[Main] = "fls"
         \/ pc'[Main] = "sweep" /\ NoFls'
      /\ \A u \in Threads \ {Main} : pc'[u] = pc[u] /\ ret'[u] = ret[u] /\ victim'[u] = victim[u]
  <2>0. /\ pc \in [Threads -> PCs] /\ ret \in [Threads -> PCs]
        /\ victim \in [Threads -> Users \cup {NoThread}]
    BY DEF Types
  <2>1. ASSUME NEW t \in Users, victim' = [victim EXCEPT ![Main] = t],
               ret' = [ret EXCEPT ![Main] = "fls"], pc' = [pc EXCEPT ![Main] = "detach"]
        PROVE  /\ pc'[Main] = "detach" /\ victim'[Main] \in Users /\ ret'[Main] = "fls"
               /\ \A u \in Threads \ {Main} :
                     pc'[u] = pc[u] /\ ret'[u] = ret[u] /\ victim'[u] = victim[u]
    BY <1>2, <2>0, <2>1
  <2>2. ASSUME fls' = [t \in Users |-> FALSE], pc' = [pc EXCEPT ![Main] = "sweep"],
               UNCHANGED <<victim, ret>>
        PROVE  /\ pc'[Main] = "sweep" /\ NoFls'
               /\ \A u \in Threads \ {Main} :
                     pc'[u] = pc[u] /\ ret'[u] = ret[u] /\ victim'[u] = victim[u]
    BY <1>2, <2>0, <2>2 DEF NoFls
  <2> QED BY <2>1, <2>2 DEF FlsFree
<1>4. ~InUse /\ ~InUse'
  BY <1>1, <1>3 DEF InUse
<1>5. MainControl' /\ LifeInUse' /\ RegisteredOnce'
  BY <1>1, <1>3 DEF Controlled, Control, MainControl, LifeInUse, RegisteredOnce,
                    EmptyLists, Detaching, MainPcs
<1>6. \A u \in Users : UserControl(u)'
  BY <1>1, <1>2, <1>3, <1>4, ThreadsAre, OfTheUsers
<1>7. \A u \in Users : CacheControl(u)'
  BY <1>1, <1>2, <1>3, <1>4, CachesKept
<1> QED BY <1>5, <1>6, <1>7 DEF Controlled, Control

LEMMA ControlSweep ==
    ASSUME Types, Controlled, Sweep
    PROVE  Controlled'
<1>1. /\ pc[Main] = "sweep" /\ UNCHANGED <<global, registry, caches, bin, todo, ghosts>>
  BY DEF Sweep
<1>2. Main \in Threads /\ Main \notin Users
  BY ThreadsAre
<1>3. /\ \/ pc'[Main] = "detach" /\ victim'[Main] \in Users /\ ret'[Main] = "sweep"
         \/ pc'[Main] = "close" /\ registered = <<>>
      /\ \A u \in Threads \ {Main} : pc'[u] = pc[u] /\ ret'[u] = ret[u] /\ victim'[u] = victim[u]
  <2>0. /\ pc \in [Threads -> PCs] /\ ret \in [Threads -> PCs]
        /\ victim \in [Threads -> Users \cup {NoThread}]
    BY DEF Types
  <2>1. CASE registered = <<>>
    <3>1. pc' = [pc EXCEPT ![Main] = "close"] /\ UNCHANGED <<victim, ret>>
      BY <2>1 DEF Sweep
    <3> QED BY <1>2, <2>0, <2>1, <3>1
  <2>2. CASE registered # <<>>
    <3>1. Head(registered) \in Users
      BY <2>2 DEF Types
    <3>2. PICK h \in Users : victim' = [victim EXCEPT ![Main] = h]
      BY <2>2, <3>1 DEF Sweep
    <3>3. ret' = [ret EXCEPT ![Main] = "sweep"] /\ pc' = [pc EXCEPT ![Main] = "detach"]
      BY <2>2 DEF Sweep
    <3> QED BY <1>2, <2>0, <3>2, <3>3
  <2> QED BY <2>1, <2>2
<1>4. ~InUse /\ ~InUse'
  BY <1>1, <1>3 DEF InUse
<1>5. MainControl' /\ LifeInUse' /\ RegisteredOnce'
  BY <1>1, <1>3 DEF Controlled, Control, MainControl, LifeInUse, RegisteredOnce,
                    EmptyLists, Detaching, MainPcs, NoFls
<1>6. \A u \in Users : UserControl(u)'
  BY <1>1, <1>2, <1>3, <1>4, ThreadsAre, OfTheUsers
<1>7. \A u \in Users : CacheControl(u)'
  BY <1>1, <1>2, <1>3, <1>4, CachesKept
<1> QED BY <1>5, <1>6, <1>7 DEF Controlled, Control

(* A cache that is not on the list, when there is no list.                 *)
LEMMA NoCaches ==
    ASSUME Types, Controlled, registered = <<>>, NEW u \in Users
    PROVE  /\ cache[u] # "live" /\ list[u] = EmptyLists /\ balance[u] = 0
           /\ u \notin Range(registered)
<1>1. u \notin Range(registered)
  BY DEF Range
<1> QED BY <1>1 DEF Controlled, Control, CacheControl

LEMMA ControlClose ==
    ASSUME Types, Controlled, Close
    PROVE  Controlled'
<1>1. /\ pc[Main] = "close" /\ generation' = 0 /\ stock' = EmptyLists
      /\ pc' = [pc EXCEPT ![Main] = "closed"]
      /\ UNCHANGED <<blocks, growLock, life, tags, registered, retired, flsOpen,
                     caches, ret, bin, todo, victim, out, lost>>
  BY DEF Close
<1>2. /\ pc'[Main] = "closed" /\ (\A u \in Users : pc'[u] = pc[u]) /\ ~InUse /\ ~InUse'
      /\ Main \in Threads /\ \A u \in Threads \ {Main} : pc'[u] = pc[u]
  BY <1>1, MainMoves, ThreadsAre DEF InUse
<1>3. MainControl' /\ LifeInUse' /\ RegisteredOnce'
  BY <1>1, <1>2 DEF Controlled, Control, MainControl, LifeInUse, RegisteredOnce,
                    EmptyLists, Detaching, MainPcs, NoFls
<1>4. \A u \in Users : UserControl(u)'
  BY <1>1, <1>2, OfTheUsers
<1>5. ASSUME NEW u \in Users PROVE CacheControl(u)'
  <2>1. CacheControl(u) /\ u \in Threads /\ u # Main
    BY ThreadsAre DEF Controlled, Control
  <2>2. \A w \in {u, Main} : (Dismantles(w, u)' <=> Dismantles(w, u))
                       /\ (Dismantles(w, u) => pc'[w] = pc[w])
    BY <1>1, <1>2, <2>1 DEF Dismantles
  <2> QED BY <1>1, <1>2, <2>1, <2>2 DEF CacheControl, EmptyLists
<1> QED BY <1>3, <1>4, <1>5 DEF Controlled, Control

LEMMA ControlInitialize ==
    ASSUME Types, Controlled, Initialize
    PROVE  Controlled'
<1>1. /\ pc[Main] = "closed" /\ life' = life + 1
      /\ UNCHANGED <<growLock, segments, registered, caches, ret, bin, todo, victim, ghosts>>
  BY DEF Initialize
<1>2. registered = <<>> /\ NoFls /\ MainControl /\ life \in Nat /\ ~InUse
  BY <1>1, PoolAssumption DEF Controlled, Control, MainControl, InUse, Types
<1>3. \/ UNCHANGED <<generation, stock, pc>>
      \/ generation' = life + 1 /\ pc' = [pc EXCEPT ![Main] = "open"]
  BY DEF Initialize
<1>4. pc'[Main] \in {"closed", "open"} /\ \A u \in Users : pc'[u] = pc[u]
  BY <1>1, <1>3, MainMoves
<1>5. MainControl'
  <2>1. NoFls'
    BY <1>1, <1>2 DEF NoFls
  <2>2. pc'[Main] = "closed" => stock' = EmptyLists /\ generation' = 0
    BY <1>1, <1>2, <1>3, MainMoves DEF MainControl
  <2>3. pc'[Main] = "open" => generation' = life' /\ life' > 0
    BY <1>1, <1>2, <1>3
  <2>4. pc'[Main] \notin Detaching /\ pc'[Main] \in MainPcs
    BY <1>4 DEF Detaching, MainPcs
  <2> QED BY <1>1, <1>2, <1>4, <2>1, <2>2, <2>3, <2>4 DEF MainControl, EmptyLists
<1>6. LifeInUse' /\ RegisteredOnce'
  <2>1. life' \notin unmapped'
    BY <1>1, <1>2 DEF Types
  <2> QED BY <1>1, <2>1 DEF LifeInUse, RegisteredOnce, Controlled
<1>7. \A u \in Users : UserControl(u)'
  <2>1. \A u \in Users : pc[u] \notin Working \cup {"orphan"}
    BY <1>2 DEF Controlled, Control, UserControl
  <2> QED BY <1>1, <1>4, <2>1, OfTheUsers
<1>8. ASSUME NEW u \in Users PROVE CacheControl(u)'
  <2>1. CacheControl(u)
    BY DEF Controlled, Control
  <2>2. pc[Main] \notin {"flush", "free"} /\ pc'[Main] \notin {"flush", "free"}
    BY <1>1, <1>4
  <2>3. \A w \in {u, Main} : (Dismantles(w, u)' <=> Dismantles(w, u))
                       /\ (Dismantles(w, u) => pc'[w] = pc[w])
    BY <1>1, <1>4, <2>2 DEF Dismantles
  <2>4. cache[u] # "live"
    BY <1>2, NoCaches
  <2>5. InUse' => ~Found(u)'
    <3> SUFFICES ASSUME InUse' PROVE ~Found(u)'
      OBVIOUS
    <3>1. generation' = life + 1
      BY <1>1, <1>3 DEF InUse
    <3>2. slot'[u] <= life /\ slot'[u] \in Nat
      BY <1>1, <1>2 DEF Types
    <3>3. ~fls'[u]
      BY <1>1, <1>2 DEF NoFls
    <3> QED BY <1>2, <3>1, <3>2, <3>3 DEF Found
  <2> QED BY <1>1, <2>1, <2>3, <2>4, <2>5 DEF CacheControl, EmptyLists
<1> QED BY <1>5, <1>6, <1>7, <1>8 DEF Controlled, Control

LEMMA ControlInit == Init => Controlled
<1> SUFFICES ASSUME Init PROVE Controlled
  OBVIOUS
<1>1. pc[Main] = "closed" /\ \A u \in Users : pc[u] = "idle"
  BY ThreadsAre DEF Init
<1>2. MainControl /\ RegisteredOnce /\ LifeInUse
  BY <1>1 DEF Init, MainControl, RegisteredOnce, LifeInUse, NoFls, Detaching, MainPcs
<1>3. ASSUME NEW u \in Users PROVE UserControl(u) /\ CacheControl(u)
  <2>1. pc[u] \notin Detaching \cup Working \cup {"orphan", "carve"} /\ pc[u] \in UserPcs
    BY <1>1 DEF Detaching, Working, UserPcs
  <2>2. UserControl(u)
    BY <2>1, ThreadsAre DEF Init, UserControl
  <2>3. CacheControl(u)
    <3>1. /\ cache[u] = "none" /\ list[u] = EmptyLists /\ balance[u] = 0
          /\ u \notin Range(registered)
      BY DEF Init, Range
    <3>2. ~InUse /\ ~Dismantles(u, u) /\ ~Dismantles(Main, u)
      BY <1>1 DEF InUse, Dismantles
    <3> QED BY <3>1, <3>2 DEF CacheControl
  <2> QED BY <2>2, <2>3
<1> QED BY <1>2, <1>3 DEF Controlled, Control

-----------------------------------------------------------------------------
(* Every block is in one place.                                            *)

InOnePlace ==
    /\ UNION {At(p) : p \in Places} = Ids
    /\ \A p, q \in Places : p # q => At(p) \cap At(q) = {}

TwiceNowhere ==
    /\ \A b \in Bins : NoneTwice(stock[b])
    /\ \A t \in Users : NoneTwice(list[t]) /\ NoneTwice(todo[t])

LEMMA ConservedIs == BlocksConserved <=> InOnePlace /\ TwiceNowhere
BY DEF BlocksConserved, InOnePlace, TwiceNowhere

LEMMA ConservedIsNext == BlocksConserved' <=> InOnePlace' /\ TwiceNowhere'
BY DEF BlocksConserved, InOnePlace, TwiceNowhere

Outside    == <<"out", NoThread>>
GivenUp    == <<"lost", NoThread>>
Underground == <<"buried", NoThread>>
InStock(b) == <<"stock", b>>
InCache(t) == <<"cache", t>>
Carried(t) == <<"carried", t>>

LEMMA PlacesAre ==
    /\ Outside \in Places /\ GivenUp \in Places /\ Underground \in Places
    /\ \A b \in Bins : InStock(b) \in Places
    /\ \A t \in Users : InCache(t) \in Places /\ Carried(t) \in Places
    /\ \A p \in Places :
          \/ p \in {Outside, GivenUp, Underground}
          \/ \E b \in Bins : p = InStock(b)
          \/ \E t \in Users : p = InCache(t) \/ p = Carried(t)
BY DEF Places, Outside, GivenUp, Underground, InStock, InCache, Carried

LEMMA PlacesDiffer ==
    /\ Outside # GivenUp /\ Outside # Underground /\ GivenUp # Underground
    /\ \A b : InStock(b) \notin {Outside, GivenUp, Underground}
    /\ \A t : InCache(t) \notin {Outside, GivenUp, Underground}
    /\ \A t : Carried(t) \notin {Outside, GivenUp, Underground}
    /\ \A b, t : InStock(b) # InCache(t) /\ InStock(b) # Carried(t)
    /\ \A t, u : InCache(t) # Carried(u)
    /\ \A b, c : InStock(b) = InStock(c) => b = c
    /\ \A t, u : InCache(t) = InCache(u) => t = u
    /\ \A t, u : Carried(t) = Carried(u) => t = u
BY DEF Outside, GivenUp, Underground, InStock, InCache, Carried

(* A cache that is not attached is empty.                                  *)
LEMMA EmptyUnattached ==
    ASSUME Controlled, NEW t \in Users, t \notin Attached
    PROVE  BlocksOf(list[t]) = {}
<1>1. list[t] = EmptyLists
  BY DEF Controlled, Control, CacheControl, Attached
<1> QED BY <1>1 DEF BlocksOf, EmptyLists, Range

LEMMA AtIs ==
    ASSUME Controlled
    PROVE  /\ At(Outside) = out /\ At(GivenUp) = lost /\ At(Underground) = buried
           /\ \A b \in Bins : At(InStock(b)) = BlocksOf(stock[b])
           /\ \A t \in Users : /\ At(InCache(t)) = BlocksOf(list[t])
                               /\ At(Carried(t)) = BlocksOf(todo[t])
<1>1. At(Outside) = out /\ At(GivenUp) = lost /\ At(Underground) = buried
  BY DEF At, Outside, GivenUp, Underground
<1>2. \A b \in Bins : At(InStock(b)) = BlocksOf(stock[b])
  BY DEF At, InStock
<1>3. ASSUME NEW t \in Users
      PROVE  At(InCache(t)) = BlocksOf(list[t]) /\ At(Carried(t)) = BlocksOf(todo[t])
  <2>1. At(InCache(t)) = IF t \in Attached THEN BlocksOf(list[t]) ELSE {}
    BY DEF At, InCache
  <2>2. At(Carried(t)) = BlocksOf(todo[t])
    BY DEF At, Carried
  <2> QED BY <2>1, <2>2, EmptyUnattached
<1> QED BY <1>1, <1>2, <1>3

LEMMA AtIsNext ==
    ASSUME Controlled'
    PROVE  /\ At(Outside)' = out' /\ At(GivenUp)' = lost' /\ At(Underground)' = buried'
           /\ \A b \in Bins : At(InStock(b))' = BlocksOf(stock'[b])
           /\ \A t \in Users : /\ At(InCache(t))' = BlocksOf(list'[t])
                               /\ At(Carried(t))' = BlocksOf(todo'[t])
<1>1. At(Outside)' = out' /\ At(GivenUp)' = lost' /\ At(Underground)' = buried'
  BY DEF At, Outside, GivenUp, Underground
<1>2. \A b \in Bins : At(InStock(b))' = BlocksOf(stock'[b])
  BY DEF At, InStock
<1>3. ASSUME NEW t \in Users
      PROVE  At(InCache(t))' = BlocksOf(list'[t]) /\ At(Carried(t))' = BlocksOf(todo'[t])
  <2>1. At(InCache(t))' = IF t \in Attached' THEN BlocksOf(list'[t]) ELSE {}
    BY DEF At, InCache
  <2>2. At(Carried(t))' = BlocksOf(todo'[t])
    BY DEF At, Carried
  <2>3. t \notin Attached' => BlocksOf(list'[t]) = {}
    <3> SUFFICES ASSUME t \notin Attached' PROVE BlocksOf(list'[t]) = {}
      OBVIOUS
    <3>1. list'[t] = EmptyLists
      BY DEF Controlled, Control, CacheControl, Attached, EmptyLists
    <3> QED BY <3>1 DEF BlocksOf, EmptyLists, Range
  <2> QED BY <2>1, <2>2, <2>3
<1> QED BY <1>1, <1>2, <1>3

(* Blocks change places among those of Z, and fresh ones appear there.     *)
LEMMA Rearranged ==
    ASSUME InOnePlace, NEW Z \in SUBSET Places, NEW fresh, fresh \cap Ids = {},
           Ids' = Ids \cup fresh,
           \A p \in Places \ Z : At(p)' = At(p),
           UNION {At(p)' : p \in Z} = fresh \cup UNION {At(p) : p \in Z},
           \A p, q \in Z : p # q => At(p)' \cap At(q)' = {}
    PROVE  InOnePlace'
<1>1. \A p \in Places : At(p) \subseteq Ids
  BY DEF InOnePlace
<1>2. UNION {At(p)' : p \in Places} = Ids'
  <2>1. ASSUME NEW p \in Places PROVE At(p)' \subseteq Ids \cup fresh
    <3>1. CASE p \in Z
      <4>1. At(p)' \subseteq fresh \cup UNION {At(q) : q \in Z}
        BY <3>1
      <4> QED BY <1>1, <4>1
    <3>2. CASE p \notin Z
      BY <1>1, <3>2
    <3> QED BY <3>1, <3>2
  <2>2. ASSUME NEW x \in Ids \cup fresh PROVE \E p \in Places : x \in At(p)'
    <3>1. CASE x \in fresh
      <4>1. x \in UNION {At(p)' : p \in Z}
        BY <3>1
      <4> QED BY <4>1
    <3>2. CASE x \in Ids
      <4>1. PICK p \in Places : x \in At(p)
        BY <3>2 DEF InOnePlace
      <4>2. CASE p \in Z
        <5>1. x \in UNION {At(q)' : q \in Z}
          BY <4>1, <4>2
        <5> QED BY <5>1
      <4>3. CASE p \notin Z
        BY <4>1, <4>3
      <4> QED BY <4>2, <4>3
    <3> QED BY <3>1, <3>2
  <2> QED BY <2>1, <2>2
<1>3. ASSUME NEW p \in Places, NEW q \in Places, p # q PROVE At(p)' \cap At(q)' = {}
  <2>1. ASSUME NEW x \in Z, NEW y \in Places \ Z PROVE At(x)' \cap At(y)' = {}
    <3>1. At(y)' = At(y) /\ At(y) \subseteq Ids
      BY <1>1
    <3>2. At(x)' \subseteq fresh \cup UNION {At(z) : z \in Z}
      OBVIOUS
    <3>3. \A z \in Z : At(z) \cap At(y) = {}
      BY DEF InOnePlace
    <3> QED BY <3>1, <3>2, <3>3
  <2>2. CASE p \in Z /\ q \in Z
    BY <1>3, <2>2
  <2>3. CASE p \in Z /\ q \notin Z
    BY <2>1, <2>3
  <2>4. CASE p \notin Z /\ q \in Z
    BY <2>1, <2>4
  <2>5. CASE p \notin Z /\ q \notin Z
    BY <1>3, <2>5 DEF InOnePlace
  <2> QED BY <2>2, <2>3, <2>4, <2>5
<1> QED BY <1>2, <1>3 DEF InOnePlace

(* The same for three places, and for two.                                 *)
LEMMA Moved3 ==
    ASSUME InOnePlace, Ids' = Ids, NEW p \in Places, NEW q \in Places, NEW r \in Places,
           p # q, p # r, q # r,
           \A z \in Places \ {p, q, r} : At(z)' = At(z),
           At(p)' \cup At(q)' \cup At(r)' = At(p) \cup At(q) \cup At(r),
           At(p)' \cap At(q)' = {}, At(p)' \cap At(r)' = {}, At(q)' \cap At(r)' = {}
    PROVE  InOnePlace'
<1> DEFINE Z == {p, q, r}
<1>1. Z \in SUBSET Places /\ Ids' = Ids \cup {} /\ {} \cap Ids = {}
  OBVIOUS
<1>2. UNION {At(z)' : z \in Z} = {} \cup UNION {At(z) : z \in Z}
  <2>1. UNION {At(z)' : z \in Z} = At(p)' \cup At(q)' \cup At(r)'
    OBVIOUS
  <2>2. UNION {At(z) : z \in Z} = At(p) \cup At(q) \cup At(r)
    OBVIOUS
  <2> QED BY <2>1, <2>2
<1>3. \A x, y \in Z : x # y => At(x)' \cap At(y)' = {}
  <2>1. At(q)' \cap At(p)' = {} /\ At(r)' \cap At(p)' = {} /\ At(r)' \cap At(q)' = {}
    OBVIOUS
  <2> QED BY <2>1
<1> HIDE DEF Z
<1>4. \A z \in Places \ Z : At(z)' = At(z)
  BY DEF Z
<1> QED BY <1>1, <1>2, <1>3, <1>4, Rearranged

LEMMA Moved2 ==
    ASSUME InOnePlace, Ids' = Ids, NEW p \in Places, NEW q \in Places, p # q,
           \A z \in Places \ {p, q} : At(z)' = At(z),
           At(p)' \cup At(q)' = At(p) \cup At(q), At(p)' \cap At(q)' = {}
    PROVE  InOnePlace'
<1> DEFINE Z == {p, q}
<1>1. Z \in SUBSET Places /\ Ids' = Ids \cup {} /\ {} \cap Ids = {}
  OBVIOUS
<1>2. UNION {At(z)' : z \in Z} = {} \cup UNION {At(z) : z \in Z}
  <2>1. UNION {At(z)' : z \in Z} = At(p)' \cup At(q)'
    OBVIOUS
  <2>2. UNION {At(z) : z \in Z} = At(p) \cup At(q)
    OBVIOUS
  <2> QED BY <2>1, <2>2
<1>3. \A x, y \in Z : x # y => At(x)' \cap At(y)' = {}
  <2>1. At(q)' \cap At(p)' = {}
    OBVIOUS
  <2> QED BY <2>1
<1> HIDE DEF Z
<1>4. \A z \in Places \ Z : At(z)' = At(z)
  BY DEF Z
<1> QED BY <1>1, <1>2, <1>3, <1>4, Rearranged

(* The lists stay as they are.                                             *)
LEMMA ConservedSame ==
    ASSUME Controlled, Controlled', BlocksConserved,
           UNCHANGED <<blocks, stock, list, todo, out, lost, buried>>
    PROVE  BlocksConserved'
<1>1. \A p \in Places : At(p)' = At(p)
  BY AtIs, AtIsNext, PlacesAre
<1>2. Ids' = Ids
  BY DEF Ids
<1>3. InOnePlace /\ TwiceNowhere
  BY ConservedIs
<1>4. InOnePlace'
  BY <1>1, <1>2, <1>3 DEF InOnePlace
<1>5. TwiceNowhere'
  BY <1>3 DEF TwiceNowhere
<1> QED BY <1>4, <1>5, ConservedIsNext

LEMMA ListsAre ==
    ASSUME Types
    PROVE  /\ \A b \in Bins : stock[b] \in Seq(Seq(Ids))
           /\ \A t \in Users : /\ list[t] \in [Bins -> Seq(Ids)]
                               /\ todo[t] \in Seq(Seq(Ids)) /\ t \in Threads
<1>1. Seq(Seq(Ids) \ {<<>>}) \subseteq Seq(Seq(Ids))
  <2>1. Seq(Ids) \ {<<>>} \subseteq Seq(Ids)
    OBVIOUS
  <2> QED BY <2>1
<1>2. stock \in [Bins -> Seq(Seq(Ids) \ {<<>>})] /\ list \in [Users -> [Bins -> Seq(Ids)]]
      /\ todo \in [Threads -> Seq(Seq(Ids) \ {<<>>})]
  BY DEF Types
<1> DEFINE S == Seq(Seq(Ids) \ {<<>>})
           T == Seq(Seq(Ids))
           L == [Bins -> Seq(Ids)]
<1> HIDE DEF S, T, L
<1>3. S \subseteq T
  BY <1>1 DEF S, T
<1>4. stock \in [Bins -> S] /\ list \in [Users -> L] /\ todo \in [Threads -> S]
  BY <1>2 DEF S, L
<1>5. /\ \A b \in Bins : stock[b] \in T
      /\ \A t \in Users : list[t] \in L /\ todo[t] \in T /\ t \in Threads
  BY <1>3, <1>4, ThreadsAre
<1> QED BY <1>5 DEF T, L

(* The places and their contents, before a step.                           *)
LEMMA Apart ==
    ASSUME Controlled, BlocksConserved, NEW p \in Places, NEW q \in Places, p # q
    PROVE  At(p) \cap At(q) = {}
BY DEF BlocksConserved

(* A list of a cache is replaced.                                          *)
ListTurns(t, b, l) == list' = [list EXCEPT ![t][b] = l]

LEMMA NewList ==
    ASSUME Types, TwiceNowhere, NEW t \in Users, NEW b \in Bins, NEW l, ListTurns(t, b, l)
    PROVE  /\ \A u \in Users : u # t => list'[u] = list[u]
           /\ OneTime(list[t][b]) /\ Range(list[t][b]) \subseteq BlocksOf(list[t])
           /\ BlocksOf(list'[t]) = (BlocksOf(list[t]) \ Range(list[t][b])) \cup Range(l)
           /\ OneTime(l) /\ Range(l) \cap (BlocksOf(list[t]) \ Range(list[t][b])) = {}
                => NoneTwice(list'[t])
<1>1. PICK f : f = list[t]
  OBVIOUS
<1>2. PICK g : g = list'[t]
  OBVIOUS
<1>3. NoneTwice(f)
  BY <1>1 DEF TwiceNowhere
<1>4. Replaces(g, f, b, l) /\ \A u \in Users : u # t => list'[u] = list[u]
  BY <1>1, <1>2 DEF Types, ListTurns, Replaces
<1>5. /\ OneTime(f[b]) /\ Range(f[b]) \subseteq BlocksOf(f)
      /\ BlocksOf(g) = (BlocksOf(f) \ Range(f[b])) \cup Range(l)
      /\ OneTime(l) /\ Range(l) \cap (BlocksOf(f) \ Range(f[b])) = {}
           => NoneTwice(g)
  BY <1>3, <1>4, ReplacedList
<1> QED BY <1>1, <1>2, <1>4, <1>5

(* A chunk of the stack goes to a caller and a cache.                      *)
LEMMA ConservedPop ==
    ASSUME Types, Controlled, Controlled', BlocksConserved,
           NEW t \in Users, NEW b \in Bins, stock[b] # <<>>, list[t][b] = <<>>,
           stock' = [stock EXCEPT ![b] = Tail(@)], HandOut(t, b, Head(stock[b])),
           UNCHANGED <<blocks, todo, lost, buried>>
    PROVE  BlocksConserved'
<1> DEFINE s == stock[b]
           c == Head(s)
           h == Head(c)
           f == list[t]
<1>1. s \in Seq(Seq(Ids)) /\ s # <<>> /\ f \in [Bins -> Seq(Ids)] /\ f[b] = <<>>
  BY ListsAre
<1>2. c # <<>>
  BY DEF Types
<1>3. NoneTwice(s) /\ NoneTwice(f)
  BY ConservedIs DEF TwiceNowhere
<1>4. /\ c \in Seq(Ids) /\ BlocksOf(s) = Range(c) \cup BlocksOf(Tail(s))
      /\ NoneTwice(Tail(s)) /\ OneTime(c) /\ Range(c) \cap BlocksOf(Tail(s)) = {}
  BY <1>1, <1>3, PoppedChunk
<1>5. /\ Range(c) = {h} \cup Range(Tail(c)) /\ h \notin Range(Tail(c))
      /\ OneTime(Tail(c)) /\ Tail(c) \in Seq(Ids)
  BY <1>2, <1>4, HeadOfList
<1>6. BlocksOf(f) \cap BlocksOf(s) = {}
  BY Apart, AtIs, PlacesAre, PlacesDiffer
<1>7. Range(f[b]) = {}
  BY <1>1 DEF Range
<1> DEFINE g == list'[t]
<1>8. ListTurns(t, b, Tail(c))
  BY DEF HandOut, ListTurns
<1>9. /\ BlocksOf(g) = BlocksOf(f) \cup Range(Tail(c)) /\ NoneTwice(g)
      /\ \A u \in Users : u # t => list'[u] = list[u]
  <2> PICK l : l = Tail(c)
    OBVIOUS
  <2>1. OneTime(l) /\ Range(l) \cap (BlocksOf(f) \ Range(f[b])) = {}
    BY <1>4, <1>5, <1>6
  <2>2. ListTurns(t, b, l) /\ TwiceNowhere
    BY <1>8, ConservedIs
  <2>3. /\ \A u \in Users : u # t => list'[u] = list[u]
        /\ BlocksOf(g) = (BlocksOf(f) \ Range(f[b])) \cup Range(l)
        /\ OneTime(l) /\ Range(l) \cap (BlocksOf(f) \ Range(f[b])) = {} => NoneTwice(g)
    BY <2>2, NewList
  <2> QED BY <1>7, <2>1, <2>3
<1>12. /\ stock'[b] = Tail(s) /\ \A d \in Bins : d # b => stock'[d] = stock[d]
      /\ out' = out \cup {h}
  BY DEF HandOut, Types
<1>10. InOnePlace' 
  <2> DEFINE p == InStock(b)
             q == InCache(t)
             r == Outside
  <2>1. p \in Places /\ q \in Places /\ r \in Places /\ p # q /\ p # r /\ q # r
    BY PlacesAre, PlacesDiffer
  <2>2. \A z \in Places \ {p, q, r} : At(z)' = At(z)
    BY <1>9, <1>12, AtIs, AtIsNext, PlacesAre
  <2>3. At(p) \cap At(q) = {} /\ At(p) \cap At(r) = {} /\ At(q) \cap At(r) = {}
    BY <2>1, Apart
  <2>4. /\ At(p) = BlocksOf(s) /\ At(q) = BlocksOf(f) /\ At(r) = out
        /\ At(p)' = BlocksOf(Tail(s)) /\ At(q)' = BlocksOf(g) /\ At(r)' = out \cup {h}
    BY <1>9, <1>12, AtIs, AtIsNext
  <2> HIDE DEF p, q, r, s, f, g, c, h
  <2>5. /\ At(p)' \cup At(q)' \cup At(r)' = At(p) \cup At(q) \cup At(r)
        /\ At(p)' \cap At(q)' = {} /\ At(p)' \cap At(r)' = {} /\ At(q)' \cap At(r)' = {}
    BY <1>4, <1>5, <1>9, <2>3, <2>4
  <2>6. Ids' = Ids /\ InOnePlace
    BY ConservedIs DEF Ids
  <2> QED BY <2>1, <2>2, <2>5, <2>6, Moved3
<1>11. TwiceNowhere'
  BY <1>4, <1>9, <1>12, ConservedIs DEF TwiceNowhere
<1> QED BY <1>10, <1>11, ConservedIsNext

LEMMA ConservedPops ==
    ASSUME Types, Controlled, Controlled', BlocksConserved,
           NEW t \in Users, PopChunk(t) \/ PopOrGrow(t) \/ PopGrown(t)
    PROVE  BlocksConserved'
<1>1. PICK b : b = bin[t]
  OBVIOUS
<1>2. pc[t] \in Working
  BY DEF PopChunk, PopOrGrow, PopGrown, Working
<1>3. b \in Bins /\ list[t][b] = <<>>
  BY <1>1, <1>2, AtWork
<1>4. UNCHANGED <<blocks, todo, lost, buried>>
  BY DEF PopChunk, PopOrGrow, PopGrown
<1>5. CASE stock[b] # <<>>
  <2>1. stock' = [stock EXCEPT ![b] = Tail(@)] /\ HandOut(t, b, Head(stock[b]))
    BY <1>1, <1>5 DEF PopChunk, PopOrGrow, PopGrown
  <2> QED BY <1>3, <1>4, <1>5, <2>1, ConservedPop
<1>6. CASE stock[b] = <<>>
  <2>1. UNCHANGED <<stock, list, out>>
    BY <1>1, <1>6 DEF PopChunk, PopOrGrow, PopGrown
  <2> QED BY <1>4, <2>1, ConservedSame
<1> QED BY <1>5, <1>6

(* A block moves between the callers and the cache of a thread.            *)
LEMMA CallerAndCache ==
    ASSUME Controlled, Controlled', BlocksConserved, NEW t \in Users,
           UNCHANGED <<blocks, stock, todo, lost, buried>>,
           \A u \in Users : u # t => list'[u] = list[u],
           NoneTwice(list'[t]),
           out' \cup BlocksOf(list'[t]) = out \cup BlocksOf(list[t]),
           out' \cap BlocksOf(list'[t]) = {}
    PROVE  BlocksConserved'
<1> DEFINE p == Outside
           q == InCache(t)
<1>1. p \in Places /\ q \in Places /\ p # q
  BY PlacesAre, PlacesDiffer
<1>2. \A z \in Places \ {p, q} : At(z)' = At(z)
  BY AtIs, AtIsNext, PlacesAre
<1>3. /\ At(p) = out /\ At(q) = BlocksOf(list[t])
      /\ At(p)' = out' /\ At(q)' = BlocksOf(list'[t])
  BY AtIs, AtIsNext
<1> HIDE DEF p, q
<1>4. At(p)' \cup At(q)' = At(p) \cup At(q) /\ At(p)' \cap At(q)' = {}
  BY <1>3
<1>5. Ids' = Ids /\ InOnePlace /\ TwiceNowhere
  BY ConservedIs DEF Ids
<1>6. InOnePlace'
  BY <1>1, <1>2, <1>4, <1>5, Moved2
<1>7. TwiceNowhere'
  BY <1>5 DEF TwiceNowhere
<1> QED BY <1>6, <1>7, ConservedIsNext

LEMMA ConservedAcquire ==
    ASSUME Types, Controlled, Controlled', BlocksConserved,
           NEW t \in Users, NEW size \in Sizes, Acquire(t, size)
    PROVE  BlocksConserved'
<1>1. PICK b : b = BinOf(size)
  OBVIOUS
<1>2. b \in Bins
  BY <1>1, PoolAssumption
<1>3. UNCHANGED <<blocks, stock, todo, lost, buried>>
  BY DEF Acquire
<1>4. CASE list[t][b] = <<>>
  <2>1. UNCHANGED <<list, out>>
    BY <1>1, <1>4 DEF Acquire
  <2> QED BY <1>3, <2>1, ConservedSame
<1>5. CASE list[t][b] # <<>>
  <2>1. PICK c : c = list[t][b]
    OBVIOUS
  <2>2. HandOut(t, b, c)
    BY <1>1, <1>5, <2>1 DEF Acquire
  <2>3. c \in Seq(Ids) /\ c # <<>>
    BY <1>2, <1>5, <2>1, ListsAre
  <2>4. TwiceNowhere
    BY ConservedIs
  <2>5. PICK l : l = Tail(c)
    OBVIOUS
  <2>6. ListTurns(t, b, l) /\ out' = out \cup {Head(c)}
    BY <2>2, <2>5 DEF HandOut, ListTurns
  <2>7. /\ \A u \in Users : u # t => list'[u] = list[u]
        /\ OneTime(c) /\ Range(c) \subseteq BlocksOf(list[t])
        /\ BlocksOf(list'[t]) = (BlocksOf(list[t]) \ Range(c)) \cup Range(l)
        /\ OneTime(l) /\ Range(l) \cap (BlocksOf(list[t]) \ Range(c)) = {}
             => NoneTwice(list'[t])
    BY <1>2, <2>1, <2>4, <2>6, NewList
  <2>8. Range(c) = {Head(c)} \cup Range(l) /\ OneTime(l) /\ Head(c) \notin Range(l)
    BY <2>3, <2>5, <2>7, HeadOfList
  <2>9. BlocksOf(list[t]) \cap out = {}
    BY Apart, AtIs, PlacesAre, PlacesDiffer
  <2>10. PICK h : h = Head(c)
    OBVIOUS
  <2>11. PICK B, C, R, L : B = BlocksOf(list[t]) /\ C = BlocksOf(list'[t])
                           /\ R = Range(c) /\ L = Range(l)
    OBVIOUS
  <2>12. /\ R \subseteq B /\ C = (B \ R) \cup L /\ R = {h} \cup L /\ h \notin L
         /\ B \cap out = {} /\ out' = out \cup {h}
    BY <2>6, <2>7, <2>8, <2>9, <2>10, <2>11
  <2>13. out' \cup C = out \cup B /\ out' \cap C = {} /\ L \cap (B \ R) = {}
    BY <2>12
  <2>14. NoneTwice(list'[t])
    BY <2>7, <2>8, <2>11, <2>13
  <2> QED BY <1>3, <2>7, <2>11, <2>13, <2>14, CallerAndCache
<1> QED BY <1>4, <1>5

LEMMA PushedStock ==
    ASSUME Types, TwiceNowhere, NEW b \in Bins, NEW c, c \in Seq(Ids), PushChunk(b, c)
    PROVE  /\ \A d \in Bins : d # b => stock'[d] = stock[d]
           /\ BlocksOf(stock'[b]) = Range(c) \cup BlocksOf(stock[b])
           /\ OneTime(c) /\ Range(c) \cap BlocksOf(stock[b]) = {} => NoneTwice(stock'[b])
<1>1. PICK s : s = stock[b]
  OBVIOUS
<1>2. s \in Seq(Seq(Ids)) /\ NoneTwice(s)
  BY <1>1, ListsAre DEF TwiceNowhere
<1>3. stock'[b] = <<c>> \o s /\ \A d \in Bins : d # b => stock'[d] = stock[d]
  BY <1>1 DEF Types, PushChunk
<1>4. /\ BlocksOf(<<c>> \o s) = Range(c) \cup BlocksOf(s)
      /\ NoneTwice(s) /\ OneTime(c) /\ Range(c) \cap BlocksOf(s) = {}
            => NoneTwice(<<c>> \o s)
  BY <1>2, PushedChunk
<1> QED BY <1>1, <1>2, <1>3, <1>4

(* A block moves between the callers and the stack of a bin.               *)
LEMMA CallerAndStock ==
    ASSUME Controlled, Controlled', BlocksConserved, NEW b \in Bins,
           UNCHANGED <<blocks, list, todo, lost, buried>>,
           \A d \in Bins : d # b => stock'[d] = stock[d],
           NoneTwice(stock'[b]),
           out' \cup BlocksOf(stock'[b]) = out \cup BlocksOf(stock[b]),
           out' \cap BlocksOf(stock'[b]) = {}
    PROVE  BlocksConserved'
<1> DEFINE p == Outside
           q == InStock(b)
<1>1. p \in Places /\ q \in Places /\ p # q
  BY PlacesAre, PlacesDiffer
<1>2. \A z \in Places \ {p, q} : At(z)' = At(z)
  BY AtIs, AtIsNext, PlacesAre
<1>3. /\ At(p) = out /\ At(q) = BlocksOf(stock[b])
      /\ At(p)' = out' /\ At(q)' = BlocksOf(stock'[b])
  BY AtIs, AtIsNext
<1> HIDE DEF p, q
<1>4. At(p)' \cup At(q)' = At(p) \cup At(q) /\ At(p)' \cap At(q)' = {}
  BY <1>3
<1>5. Ids' = Ids /\ InOnePlace /\ TwiceNowhere
  BY ConservedIs DEF Ids
<1>6. InOnePlace'
  BY <1>1, <1>2, <1>4, <1>5, Moved2
<1>7. TwiceNowhere'
  BY <1>5 DEF TwiceNowhere
<1> QED BY <1>6, <1>7, ConservedIsNext

(* Blocks move among the callers, a cache and the stack of a bin.          *)
LEMMA CallerCacheStock ==
    ASSUME Controlled, Controlled', BlocksConserved, NEW b \in Bins, NEW t \in Users,
           UNCHANGED <<blocks, todo, lost, buried>>,
           \A d \in Bins : d # b => stock'[d] = stock[d],
           \A u \in Users : u # t => list'[u] = list[u],
           NoneTwice(stock'[b]), NoneTwice(list'[t]),
           out' \cup BlocksOf(stock'[b]) \cup BlocksOf(list'[t])
             = out \cup BlocksOf(stock[b]) \cup BlocksOf(list[t]),
           out' \cap BlocksOf(stock'[b]) = {}, out' \cap BlocksOf(list'[t]) = {},
           BlocksOf(stock'[b]) \cap BlocksOf(list'[t]) = {}
    PROVE  BlocksConserved'
<1> DEFINE p == Outside
           q == InStock(b)
           r == InCache(t)
<1>1. p \in Places /\ q \in Places /\ r \in Places /\ p # q /\ p # r /\ q # r
  BY PlacesAre, PlacesDiffer
<1>2. \A z \in Places \ {p, q, r} : At(z)' = At(z)
  BY AtIs, AtIsNext, PlacesAre
<1>3. /\ At(p) = out /\ At(q) = BlocksOf(stock[b]) /\ At(r) = BlocksOf(list[t])
      /\ At(p)' = out' /\ At(q)' = BlocksOf(stock'[b]) /\ At(r)' = BlocksOf(list'[t])
  BY AtIs, AtIsNext
<1> HIDE DEF p, q, r
<1>4. /\ At(p)' \cup At(q)' \cup At(r)' = At(p) \cup At(q) \cup At(r)
      /\ At(p)' \cap At(q)' = {} /\ At(p)' \cap At(r)' = {} /\ At(q)' \cap At(r)' = {}
  BY <1>3
<1>5. Ids' = Ids /\ InOnePlace /\ TwiceNowhere
  BY ConservedIs DEF Ids
<1>6. InOnePlace'
  BY <1>1, <1>2, <1>4, <1>5, Moved3
<1>7. TwiceNowhere'
  BY <1>5 DEF TwiceNowhere
<1> QED BY <1>6, <1>7, ConservedIsNext

LEMMA ConservedReleaseRefused ==
    ASSUME Types, Controlled, Controlled', BlocksConserved,
           NEW t \in Users, NEW block \in out, ReleaseRefused(t, block)
    PROVE  BlocksConserved'
<1>1. UNCHANGED <<blocks, stock, list, todo, buried>> /\ out' = out \ {block}
      /\ lost' = lost \cup {block}
  BY DEF ReleaseRefused
<1> DEFINE p == Outside
           q == GivenUp
<1>2. p \in Places /\ q \in Places /\ p # q
  BY PlacesAre, PlacesDiffer
<1>3. \A z \in Places \ {p, q} : At(z)' = At(z)
  BY <1>1, AtIs, AtIsNext, PlacesAre
<1>4. At(p) = out /\ At(q) = lost /\ At(p)' = out' /\ At(q)' = lost'
  BY AtIs, AtIsNext
<1>5. At(p) \cap At(q) = {}
  BY <1>2, Apart
<1> HIDE DEF p, q
<1>6. At(p)' \cup At(q)' = At(p) \cup At(q) /\ At(p)' \cap At(q)' = {}
  BY <1>1, <1>4, <1>5
<1>7. Ids' = Ids /\ InOnePlace /\ TwiceNowhere
  BY <1>1, ConservedIs DEF Ids
<1>8. InOnePlace'
  BY <1>2, <1>3, <1>6, <1>7, Moved2
<1>9. TwiceNowhere'
  BY <1>1, <1>7 DEF TwiceNowhere
<1> QED BY <1>8, <1>9, ConservedIsNext

LEMMA ConservedRelease ==
    ASSUME Types, Controlled, Controlled', BlocksConserved,
           NEW t \in Users, NEW block \in out, Release(t, block)
    PROVE  BlocksConserved'
<1>1. PICK b : b = blocks[block].bin
  OBVIOUS
<1>2. b \in Bins /\ block \in Ids
  BY <1>1, Returned
<1>3. UNCHANGED <<blocks, todo, lost, buried>> /\ out' = out \ {block}
  BY DEF Release
<1>4. PICK c, g : c = list[t][b] /\ g = <<block>> \o c
  OBVIOUS
<1>5. c \in Seq(Ids)
  BY <1>2, <1>4, ListsAre
<1>6. TwiceNowhere
  BY ConservedIs
<1>7. OneTime(c) /\ Range(c) \subseteq BlocksOf(list[t])
  <2>2. NoneTwice(list[t]) /\ DOMAIN list[t] = Bins
    BY <1>6, ListsAre DEF TwiceNowhere
  <2> QED BY <1>2, <1>4, <2>2 DEF OneTime, NoneTwice, BlocksOf
<1>8. BlocksOf(list[t]) \cap out = {} /\ BlocksOf(stock[b]) \cap out = {}
      /\ BlocksOf(list[t]) \cap BlocksOf(stock[b]) = {}
  BY <1>2, Apart, AtIs, PlacesAre, PlacesDiffer
<1>9. /\ g \in Seq(Ids) /\ Len(g) \in Nat /\ Range(g) = {block} \cup Range(c) /\ OneTime(g)
      /\ Len(g) = Len(c) + 1 /\ Len(c) \in Nat
  BY <1>2, <1>4, <1>5, <1>7, <1>8, GrownList
<1>10. PICK B, C, S, D, R, G :
          /\ B = BlocksOf(list[t]) /\ C = BlocksOf(list'[t])
          /\ S = BlocksOf(stock[b]) /\ D = BlocksOf(stock'[b])
          /\ R = Range(c) /\ G = Range(g)
  OBVIOUS
<1>11. /\ R \subseteq B /\ G = {block} \cup R /\ block \in out /\ out' = out \ {block}
       /\ B \cap out = {} /\ S \cap out = {} /\ B \cap S = {}
  BY <1>3, <1>7, <1>8, <1>9, <1>10
<1>12. CASE Push(t, b, block) /\ Len(g) <= CacheCap(b)
  <2>1. ListTurns(t, b, g) /\ UNCHANGED stock
    BY <1>2, <1>4, <1>9, <1>12, Batches DEF Push, ListTurns
  <2>2. /\ \A u \in Users : u # t => list'[u] = list[u]
        /\ C = (B \ R) \cup G
        /\ OneTime(g) /\ G \cap (B \ R) = {} => NoneTwice(list'[t])
    BY <1>2, <1>4, <1>6, <1>10, <2>1, NewList
  <2>3. G \cap (B \ R) = {} /\ out' \cup C = out \cup B /\ out' \cap C = {}
    BY <1>11, <2>2
  <2>4. NoneTwice(list'[t])
    BY <1>9, <2>2, <2>3
  <2> QED BY <1>3, <1>10, <2>1, <2>2, <2>3, <2>4, CallerAndCache
<1>13. CASE Push(t, b, block) /\ ~(Len(g) <= CacheCap(b))
  <2>1. PICK n : n = Batch(b)
    OBVIOUS
  <2>2. n \in 0 .. Len(g)
    BY <1>2, <1>9, <1>13, <2>1, Batches
  <2>3. PICK h, r : h = Take(g, n) /\ r = Drop(g, n)
    OBVIOUS
  <2>4. ListTurns(t, b, r) /\ PushChunk(b, h)
    BY <1>4, <1>13, <2>1, <2>3 DEF Push, ListTurns
  <2>5. PICK H, L : H = Range(h) /\ L = Range(r)
    OBVIOUS
  <2>6. h \in Seq(Ids) /\ OneTime(h) /\ OneTime(r) /\ G = H \cup L /\ H \cap L = {}
    BY <1>9, <1>10, <2>2, <2>3, <2>5, CutList
  <2>7. /\ \A u \in Users : u # t => list'[u] = list[u]
        /\ C = (B \ R) \cup L
        /\ OneTime(r) /\ L \cap (B \ R) = {} => NoneTwice(list'[t])
    BY <1>2, <1>4, <1>6, <1>10, <2>4, <2>5, NewList
  <2>8. /\ \A d \in Bins : d # b => stock'[d] = stock[d]
        /\ D = H \cup S
        /\ OneTime(h) /\ H \cap S = {} => NoneTwice(stock'[b])
    BY <1>2, <1>6, <1>10, <2>4, <2>5, <2>6, PushedStock
  <2>9. L \cap (B \ R) = {} /\ H \cap S = {}
    BY <1>11, <2>6
  <2>10. /\ out' \cup D \cup C = out \cup S \cup B
         /\ out' \cap D = {} /\ out' \cap C = {} /\ D \cap C = {}
    BY <1>11, <2>6, <2>7, <2>8
  <2>11. NoneTwice(list'[t]) /\ NoneTwice(stock'[b])
    BY <2>6, <2>7, <2>8, <2>9
  <2> QED BY <1>2, <1>3, <1>10, <2>7, <2>8, <2>10, <2>11, CallerCacheStock
<1>14. CASE PushChunk(b, <<block>>) /\ UNCHANGED list
  <2>1. PICK h : h = <<block>>
    OBVIOUS
  <2>2. h \in Seq(Ids) /\ Range(h) = {block} /\ OneTime(h)
    BY <1>2, <2>1 DEF Range, OneTime
  <2>3. /\ \A d \in Bins : d # b => stock'[d] = stock[d]
        /\ D = {block} \cup S
        /\ OneTime(h) /\ {block} \cap S = {} => NoneTwice(stock'[b])
    BY <1>2, <1>6, <1>10, <1>14, <2>1, <2>2, PushedStock
  <2>4. {block} \cap S = {} /\ out' \cup D = out \cup S /\ out' \cap D = {}
    BY <1>11, <2>3
  <2>5. NoneTwice(stock'[b])
    BY <2>2, <2>3, <2>4
  <2> QED BY <1>2, <1>3, <1>10, <1>14, <2>3, <2>4, <2>5, CallerAndStock
<1>15. Push(t, b, block) \/ (PushChunk(b, <<block>>) /\ UNCHANGED list)
  BY <1>1 DEF Release
<1> QED BY <1>12, <1>13, <1>14, <1>15

LEMMA ConservedFlushAll ==
    ASSUME Types, Controlled, Controlled', BlocksConserved, NEW t \in Threads, FlushAll(t)
    PROVE  BlocksConserved'
<1>1. PICK v : v = victim[t]
  OBVIOUS
<1>2. v \in Users
  BY <1>1, HasVictim DEF FlushAll, Detaching, Controlled
<1>3. PICK b : b = FirstCached(v)
  OBVIOUS
<1>4. PICK c, n : c = list[v][b] /\ n = ToFlush(v, b)
  OBVIOUS
<1>5. /\ Cached(v) # {}
      /\ stock' = [stock EXCEPT ![b] = <<Take(c, n)>> \o @]
      /\ list' = [list EXCEPT ![v][b] = Drop(@, n)]
      /\ UNCHANGED <<blocks, growLock, committed, segments, registry, cache,
                     balance, slot, fls, locals, ghosts>>
  <2>1. /\ Cached(v) # {}
        /\ stock' = [stock EXCEPT ![b] = <<Take(list[v][b], ToFlush(v, b))>> \o @]
        /\ list' = [list EXCEPT ![v][b] = Drop(@, ToFlush(v, b))]
        /\ UNCHANGED <<blocks, growLock, committed, segments, registry, cache,
                       balance, slot, fls, locals, ghosts>>
    <3> DEFINE w == victim[t]
               d == FirstCached(w)
    <3>1. /\ pc[t] = "flush" /\ Cached(w) # {}
          /\ stock' = [stock EXCEPT ![d] = <<Take(list[w][d], ToFlush(w, d))>> \o @]
          /\ list' = [list EXCEPT ![w][d] = Drop(@, ToFlush(w, d))]
          /\ UNCHANGED <<blocks, growLock, committed, segments, registry, cache,
                         balance, slot, fls, locals, ghosts>>
      BY FlushAllIs, Zenon
    <3>2. w = v /\ d = b
      BY <1>1, <1>3
    <3> HIDE DEF w, d
    <3> QED BY <3>1, <3>2, Zenon
  <2> QED BY <1>4, <2>1
<1>6. b \in Bins /\ c \in Seq(Ids) /\ Len(c) \in Nat /\ n \in 1 .. Len(c)
  BY <1>2, <1>3, <1>4, <1>5, Flushed
<1>7. PICK h, r : h = Take(c, n) /\ r = Drop(c, n)
  OBVIOUS
<1>8. PushChunk(b, h)
  BY <1>5, <1>7 DEF PushChunk
<1>9. ListTurns(v, b, r)
  <2>1. list' = [list EXCEPT ![v][b] = Drop(list[v][b], n)]
    BY <1>5
  <2> QED BY <1>4, <1>7, <2>1 DEF ListTurns
<1>10. TwiceNowhere
  BY ConservedIs
<1>11. PICK B, C, S, D, R, H, L :
          /\ B = BlocksOf(list[v]) /\ C = BlocksOf(list'[v])
          /\ S = BlocksOf(stock[b]) /\ D = BlocksOf(stock'[b])
          /\ R = Range(c) /\ H = Range(h) /\ L = Range(r)
  OBVIOUS
<1>12. /\ \A u \in Users : u # v => list'[u] = list[u]
       /\ OneTime(c) /\ R \subseteq B
       /\ C = (B \ R) \cup L
       /\ OneTime(r) /\ L \cap (B \ R) = {} => NoneTwice(list'[v])
  BY <1>2, <1>4, <1>6, <1>9, <1>10, <1>11, NewList
<1>13. h \in Seq(Ids) /\ OneTime(h) /\ OneTime(r) /\ R = H \cup L /\ H \cap L = {}
  <2>1. n \in 0 .. Len(c)
    BY <1>6
  <2> QED BY <1>6, <1>7, <1>11, <1>12, <2>1, CutList
<1>14. /\ \A d \in Bins : d # b => stock'[d] = stock[d]
       /\ D = H \cup S
       /\ OneTime(h) /\ H \cap S = {} => NoneTwice(stock'[b])
  BY <1>6, <1>8, <1>10, <1>11, <1>13, PushedStock
<1>15. B \cap S = {} /\ B \cap out = {} /\ S \cap out = {} /\ out' = out
  BY <1>2, <1>5, <1>6, <1>11, Apart, AtIs, PlacesAre, PlacesDiffer
<1>16. L \cap (B \ R) = {} /\ H \cap S = {}
  BY <1>12, <1>13, <1>15
<1>17. /\ out' \cup D \cup C = out \cup S \cup B
       /\ out' \cap D = {} /\ out' \cap C = {} /\ D \cap C = {}
  BY <1>12, <1>13, <1>14, <1>15
<1>18. NoneTwice(list'[v]) /\ NoneTwice(stock'[b])
  BY <1>12, <1>13, <1>14, <1>16
<1>19. UNCHANGED <<blocks, todo, lost, buried>>
  BY <1>5
<1> QED BY <1>2, <1>6, <1>11, <1>12, <1>14, <1>17, <1>18, <1>19, CallerCacheStock

LEMMA ConservedCarveAndPush ==
    ASSUME Types, Controlled, Controlled', BlocksConserved, NEW t \in Users, CarveAndPush(t)
    PROVE  BlocksConserved'
<1>1. PICK b, s : b = bin[t] /\ s = todo[t]
  OBVIOUS
<1>2. b \in Bins /\ s \in Seq(Seq(Ids)) /\ s # <<>> /\ t \in Threads
  <2>1. pc[t] = "carve"
    BY DEF CarveAndPush
  <2> QED BY <1>1, <2>1, AtWork, ListsAre DEF Working
<1>3. PICK c : c = Head(s)
  OBVIOUS
<1>4. /\ PushChunk(b, c) /\ todo' = [todo EXCEPT ![t] = Tail(s)]
      /\ UNCHANGED <<blocks, list, out, lost, buried>>
  BY <1>1, <1>3 DEF CarveAndPush, PushChunk
<1>5. TwiceNowhere
  BY ConservedIs
<1>6. NoneTwice(s)
  BY <1>1, <1>5 DEF TwiceNowhere
<1>7. /\ c \in Seq(Ids) /\ BlocksOf(s) = Range(c) \cup BlocksOf(Tail(s))
      /\ NoneTwice(Tail(s)) /\ OneTime(c) /\ Range(c) \cap BlocksOf(Tail(s)) = {}
  BY <1>2, <1>3, <1>6, PoppedChunk
<1>8. todo'[t] = Tail(s) /\ \A u \in Users : u # t => todo'[u] = todo[u]
  BY <1>2, <1>4 DEF Types
<1>9. /\ \A d \in Bins : d # b => stock'[d] = stock[d]
      /\ BlocksOf(stock'[b]) = Range(c) \cup BlocksOf(stock[b])
      /\ OneTime(c) /\ Range(c) \cap BlocksOf(stock[b]) = {} => NoneTwice(stock'[b])
  BY <1>2, <1>4, <1>5, <1>7, PushedStock
<1> DEFINE p == Carried(t)
           q == InStock(b)
<1>10. p \in Places /\ q \in Places /\ p # q
  BY <1>2, PlacesAre, PlacesDiffer
<1>11. \A z \in Places \ {p, q} : At(z)' = At(z)
  BY <1>4, <1>8, <1>9, AtIs, AtIsNext, PlacesAre
<1>12. /\ At(p) = BlocksOf(s) /\ At(q) = BlocksOf(stock[b])
       /\ At(p)' = BlocksOf(Tail(s)) /\ At(q)' = BlocksOf(stock'[b])
  BY <1>1, <1>2, <1>8, AtIs, AtIsNext
<1>13. At(p) \cap At(q) = {}
  BY <1>10, Apart
<1> HIDE DEF p, q
<1>14. At(p)' \cup At(q)' = At(p) \cup At(q) /\ At(p)' \cap At(q)' = {}
  BY <1>7, <1>9, <1>12, <1>13
<1>15. Ids' = Ids /\ InOnePlace
  BY <1>4, ConservedIs DEF Ids
<1>16. InOnePlace'
  BY <1>10, <1>11, <1>14, <1>15, Moved2
<1>17. NoneTwice(stock'[b])
  BY <1>7, <1>9, <1>12, <1>13
<1>18. TwiceNowhere'
  BY <1>4, <1>5, <1>7, <1>8, <1>9, <1>17 DEF TwiceNowhere
<1> QED BY <1>16, <1>18, ConservedIsNext

LEMMA NothingIn == ASSUME NEW chunks, DOMAIN chunks = {} PROVE BlocksOf(chunks) = {}
BY DEF BlocksOf

LEMMA ConservedMapSegment ==
    ASSUME Types, Controlled, Controlled', BlocksConserved, NEW t \in Users, MapSegment(t)
    PROVE  BlocksConserved'
<1>1. PICK b, count : b = bin[t] /\ count = BlocksPerSegment(b)
  OBVIOUS
<1>2. b \in Bins /\ t \in Threads /\ todo[t] = <<>> /\ count \in Nat /\ InUse
  <2>1. pc[t] = "map"
    BY DEF MapSegment
  <2>2. b \in Bins /\ t \in Threads /\ todo[t] = <<>> /\ InUse
    BY <1>1, <2>1, AtWork DEF Working
  <2> QED BY <1>1, <2>2, Segments
<1>3. UNCHANGED <<stock, list, out, lost, buried>>
  BY DEF MapSegment
<1>4. CASE UNCHANGED <<blocks, todo>>
  BY <1>3, <1>4, ConservedSame
<1>5. CASE /\ blocks' = blocks \o NewBlocks(b, count)
           /\ todo' = [todo EXCEPT ![t] = Chunks(Len(blocks) + 1, b, count)]
  <2>1. life \in Nat /\ life > 0 /\ life' = life
    BY <1>2, PoolAssumption DEF Controlled, Control, MainControl, Types, InUse, MapSegment
  <2>2. PICK more : more = NewBlocks(b, count)
    OBVIOUS
  <2>3. /\ more \in Seq([bin : Bins, life : 1 .. life']) /\ Len(more) = count
    BY <1>2, <2>1, <2>2 DEF NewBlocks
  <2>4. life' \in Nat /\ life <= life' /\ blocks' = blocks \o more
    BY <1>5, <2>1, <2>2
  <2> DEFINE fresh == Len(blocks) + 1 .. Len(blocks) + Len(more)
  <2>5. Ids' = Ids \cup fresh /\ fresh \cap Ids = {} /\ Len(blocks) \in Nat
    BY <2>3, <2>4, MoreBlocks
  <2>6. PICK new : new = Chunks(Len(blocks) + 1, b, count)
    OBVIOUS
  <2>7. BlocksOf(new) = fresh /\ NoneTwice(new)
    <3>1. fresh = Len(blocks) + 1 .. (Len(blocks) + 1) + count - 1
      BY <1>2, <2>3, <2>5
    <3>2. Len(blocks) + 1 \in Nat
      BY <2>5
    <3> HIDE DEF fresh
    <3> QED BY <1>2, <2>6, <3>1, <3>2, Carved
  <2> HIDE DEF fresh
  <2>8. todo'[t] = new /\ \A u \in Users : u # t => todo'[u] = todo[u]
    BY <1>2, <1>5, <2>6, ThreadsAre DEF Types
  <2> DEFINE p == Carried(t)
  <2>9. p \in Places
    BY PlacesAre
  <2>10. \A z \in Places \ {p} : At(z)' = At(z)
    BY <1>3, <2>8, AtIs, AtIsNext, PlacesAre
  <2>11. At(p) = {} /\ At(p)' = fresh
    <3>1. At(p) = BlocksOf(todo[t]) /\ At(p)' = BlocksOf(todo'[t])
      BY AtIs, AtIsNext
    <3>2. DOMAIN todo[t] = {}
      BY <1>2
    <3> QED BY <2>7, <2>8, <3>1, <3>2, NothingIn
  <2> DEFINE Z == {p}
  <2>12. Z \in SUBSET Places
    BY <2>9
  <2>13. UNION {At(z)' : z \in Z} = fresh \cup UNION {At(z) : z \in Z}
    <3>1. UNION {At(z)' : z \in Z} = At(p)' /\ UNION {At(z) : z \in Z} = At(p)
      OBVIOUS
    <3> QED BY <2>11, <3>1
  <2>14. \A x, y \in Z : x # y => At(x)' \cap At(y)' = {}
    OBVIOUS
  <2> HIDE DEF p, Z
  <2>15. \A z \in Places \ Z : At(z)' = At(z)
    BY <2>10 DEF Z
  <2>16. InOnePlace /\ TwiceNowhere
    BY ConservedIs
  <2>17. InOnePlace'
    BY <2>5, <2>12, <2>13, <2>14, <2>15, <2>16, Rearranged
  <2>18. TwiceNowhere'
    BY <1>3, <2>7, <2>8, <2>16 DEF TwiceNowhere
  <2> QED BY <2>17, <2>18, ConservedIsNext
<1>6. (UNCHANGED <<blocks, todo>>) \/ (/\ blocks' = blocks \o NewBlocks(b, count)
           /\ todo' = [todo EXCEPT ![t] = Chunks(Len(blocks) + 1, b, count)])
  BY <1>1 DEF MapSegment
<1> QED BY <1>4, <1>5, <1>6

Stocks == {InStock(b) : b \in Bins}

LEMMA InStocks ==
    /\ Stocks \in SUBSET Places
    /\ \A p \in Stocks : \E b \in Bins : p = InStock(b)
    /\ \A b \in Bins : InStock(b) \in Stocks
    /\ Outside \notin Stocks /\ GivenUp \notin Stocks /\ Underground \notin Stocks
    /\ \A t \in Users : InCache(t) \notin Stocks /\ Carried(t) \notin Stocks
<1>1. /\ Stocks \in SUBSET Places
      /\ \A p \in Stocks : \E b \in Bins : p = InStock(b)
      /\ \A b \in Bins : InStock(b) \in Stocks
  BY PlacesAre DEF Stocks
<1> QED BY <1>1, PlacesDiffer

LEMMA ConservedInitialize ==
    ASSUME Types, Controlled, Controlled', BlocksConserved, Initialize
    PROVE  BlocksConserved'
<1>1. life' = life + 1 /\ UNCHANGED <<list, todo, out, lost, buried>> /\ pc[Main] = "closed"
  BY DEF Initialize
<1>2. CASE UNCHANGED <<blocks, stock>>
  BY <1>1, <1>2, ConservedSame
<1>3. CASE /\ blocks' = blocks \o InitialBlocks
           /\ stock' = [b \in Bins |-> Reverse(Chunks(FirstOf(b), b, Preallocated(b)))]
  <2>1. PICK more : more = InitialBlocks
    OBVIOUS
  <2>2. /\ more \in Seq([bin : Bins, life : 1 .. life']) /\ Len(more) = Below(BinCount)
        /\ life \in Nat
    BY <1>1, <1>3, <2>1, InitialFacts
  <2>3. life' \in Nat /\ life <= life' /\ blocks' = blocks \o more
    BY <1>1, <1>3, <2>1, <2>2
  <2>4. PICK fresh : fresh = Len(blocks) + 1 .. Len(blocks) + Below(BinCount)
    OBVIOUS
  <2>5. Ids' = Ids \cup fresh /\ fresh \cap Ids = {}
    BY <2>2, <2>3, <2>4, MoreBlocks
  <2>6. ASSUME NEW b \in Bins PROVE BlocksOf(stock'[b]) = Preset(b) /\ NoneTwice(stock'[b])
    <3>1. stock'[b] = Reverse(Chunks(FirstOf(b), b, Preallocated(b)))
      BY <1>3
    <3> QED BY <3>1, PresetStock
  <2>7. ASSUME NEW b \in Bins PROVE At(InStock(b)) = {} /\ At(InStock(b))' = Preset(b)
    <3>1. stock[b] = <<>>
      BY <1>1 DEF Controlled, Control, MainControl, EmptyLists
    <3>2. At(InStock(b)) = BlocksOf(stock[b]) /\ At(InStock(b))' = BlocksOf(stock'[b])
      BY AtIs, AtIsNext
    <3>3. DOMAIN stock[b] = {}
      BY <3>1
    <3> QED BY <2>6, <3>2, <3>3, NothingIn
  <2>8. /\ \A b \in Bins : Preset(b) \subseteq fresh
        /\ \A x \in fresh : \E b \in Bins : x \in Preset(b)
        /\ \A b, c \in Bins : b # c => Preset(b) \cap Preset(c) = {}
    BY <2>4, Presets
  <2>9. UNION {At(p)' : p \in Stocks} = fresh \cup UNION {At(p) : p \in Stocks}
    <3>1. UNION {At(p)' : p \in Stocks} = UNION {At(InStock(b))' : b \in Bins}
      BY InStocks
    <3>2. UNION {At(InStock(b))' : b \in Bins} = UNION {Preset(b) : b \in Bins}
      BY <2>7
    <3>3. UNION {Preset(b) : b \in Bins} = fresh
      BY <2>8
    <3>4. UNION {At(p) : p \in Stocks} = {}
      BY <2>7, InStocks
    <3> QED BY <3>1, <3>2, <3>3, <3>4
  <2>10. \A p, q \in Stocks : p # q => At(p)' \cap At(q)' = {}
    <3> SUFFICES ASSUME NEW p \in Stocks, NEW q \in Stocks, p # q
                 PROVE  At(p)' \cap At(q)' = {}
      OBVIOUS
    <3>1. PICK b, c \in Bins : p = InStock(b) /\ q = InStock(c)
      BY InStocks
    <3>2. At(p)' = Preset(b) /\ At(q)' = Preset(c) /\ b # c
      BY <2>7, <3>1
    <3> QED BY <2>8, <3>2
  <2>11. \A z \in Places \ Stocks : At(z)' = At(z)
    BY <1>1, InStocks, PlacesAre, AtIs, AtIsNext
  <2>12. InOnePlace /\ TwiceNowhere
    BY ConservedIs
  <2>13. InOnePlace'
    BY <2>5, <2>9, <2>10, <2>11, <2>12, InStocks, Rearranged
  <2>14. TwiceNowhere'
    BY <1>1, <2>6, <2>12 DEF TwiceNowhere
  <2> QED BY <2>13, <2>14, ConservedIsNext
<1>4. (UNCHANGED <<blocks, stock>>) \/ (/\ blocks' = blocks \o InitialBlocks
           /\ stock' = [b \in Bins |-> Reverse(Chunks(FirstOf(b), b, Preallocated(b)))])
  BY DEF Initialize
<1> QED BY <1>2, <1>3, <1>4

LEMMA ConservedClose ==
    ASSUME Types, Controlled, Controlled', BlocksConserved, Close
    PROVE  BlocksConserved'
<1>1. UNCHANGED <<blocks, list, todo, out, lost>> /\ stock' = EmptyLists
      /\ buried' = buried \cup Pooled
  BY DEF Close
<1>2. Pooled = UNION {BlocksOf(stock[b]) : b \in Bins}
  BY PooledAre
<1> DEFINE u == Underground
           Z == Stocks \cup {u}
<1>3. Z \in SUBSET Places /\ u \notin Stocks
  BY InStocks, PlacesAre
<1>4. /\ \A b \in Bins : At(InStock(b)) = BlocksOf(stock[b]) /\ At(InStock(b))' = {}
      /\ At(u) = buried /\ At(u)' = buried \cup Pooled
  <2>1. ASSUME NEW b \in Bins PROVE At(InStock(b))' = {}
    <3>1. At(InStock(b))' = BlocksOf(stock'[b]) /\ DOMAIN stock'[b] = {}
      BY <1>1, AtIsNext DEF EmptyLists
    <3> QED BY <3>1, NothingIn
  <2> QED BY <1>1, <2>1, AtIs, AtIsNext
<1>5. \A z \in Places \ Z : At(z)' = At(z)
  BY <1>1, InStocks, PlacesAre, AtIs, AtIsNext
<1> HIDE DEF u
<1>6. \A p \in Stocks : At(p)' = {}
  BY <1>4, InStocks
<1>7. UNION {At(p) : p \in Stocks} = Pooled
  <2>1. UNION {At(p) : p \in Stocks} = UNION {At(InStock(b)) : b \in Bins}
    BY InStocks
  <2> QED BY <1>2, <1>4, <2>1
<1>8. UNION {At(p)' : p \in Z} = {} \cup UNION {At(p) : p \in Z}
  <2>1. UNION {At(p)' : p \in Z} = buried \cup Pooled
    BY <1>4, <1>6
  <2>2. UNION {At(p) : p \in Z} = At(u) \cup UNION {At(p) : p \in Stocks}
    OBVIOUS
  <2> QED BY <1>4, <1>7, <2>1, <2>2
<1>9. \A p, q \in Z : p # q => At(p)' \cap At(q)' = {}
  BY <1>6
<1>10. Ids' = Ids \cup {} /\ {} \cap Ids = {}
  BY <1>1 DEF Ids
<1>11. InOnePlace /\ TwiceNowhere
  BY ConservedIs
<1> HIDE DEF Z
<1>12. InOnePlace'
  BY <1>3, <1>5, <1>8, <1>9, <1>10, <1>11, Rearranged
<1>13. TwiceNowhere'
  <2>1. \A b \in Bins : NoneTwice(stock'[b])
    BY <1>1 DEF EmptyLists, NoneTwice
  <2> QED BY <1>1, <1>11, <2>1 DEF TwiceNowhere
<1> QED BY <1>12, <1>13, ConservedIsNext

LEMMA ConservedDetachStep ==
    ASSUME Types, Controlled, Controlled', BlocksConserved, NEW t \in Threads, DetachStep(t)
    PROVE  BlocksConserved'
<1>1. CASE Detach(t)
  <2>1. UNCHANGED <<blocks, stock, list, todo, out, lost, buried>>
    BY <1>1 DEF Detach
  <2> QED BY <2>1, ConservedSame
<1>2. CASE FlushAll(t)
  BY <1>2, ConservedFlushAll
<1>3. CASE Unlink(t)
  <2>1. UNCHANGED <<blocks, stock, list, todo, out, lost, buried>>
    BY <1>3 DEF Unlink
  <2> QED BY <2>1, ConservedSame
<1>4. CASE FreeCache(t)
  <2>1. UNCHANGED <<blocks, stock, list, todo, out, lost, buried>>
    BY <1>4 DEF FreeCache
  <2> QED BY <2>1, ConservedSame
<1> QED BY <1>1, <1>2, <1>3, <1>4 DEF DetachStep

LEMMA ConservedUserStep ==
    ASSUME Types, Controlled, Controlled', BlocksConserved, NEW t \in Users, UserStep(t)
    PROVE  BlocksConserved'
<1>1. CASE PopChunk(t) \/ PopOrGrow(t) \/ PopGrown(t)
  BY <1>1, ConservedPops
<1>2. CASE CheckLimit(t)
  <2>1. UNCHANGED <<blocks, stock, list, todo, out, lost, buried>>
    BY <1>2 DEF CheckLimit
  <2> QED BY <2>1, ConservedSame
<1>3. CASE MapSegment(t)
  BY <1>3, ConservedMapSegment
<1>4. CASE CarveAndPush(t)
  BY <1>4, ConservedCarveAndPush
<1>5. CASE NoteOrphanRelease(t)
  <2>1. UNCHANGED <<blocks, stock, list, todo, out, lost, buried>>
    BY <1>5 DEF NoteOrphanRelease
  <2> QED BY <2>1, ConservedSame
<1>6. CASE DetachStep(t)
  BY <1>6, ConservedDetachStep, ThreadsAre
<1> QED BY <1>1, <1>2, <1>3, <1>4, <1>5, <1>6 DEF UserStep

LEMMA ConservedNext ==
    ASSUME Types, Controlled, Controlled', BlocksConserved, Next
    PROVE  BlocksConserved'
<1>1. CASE Initialize
  BY <1>1, ConservedInitialize
<1>2. CASE Finalize
  <2>1. UNCHANGED <<blocks, stock, list, todo, out, lost, buried>>
    BY <1>2 DEF Finalize
  <2> QED BY <2>1, ConservedSame
<1>3. CASE MainStep
  <2>1. CASE FlsFree
    <3>1. UNCHANGED <<blocks, stock, list, todo, out, lost, buried>>
      BY <2>1 DEF FlsFree
    <3> QED BY <3>1, ConservedSame
  <2>2. CASE Sweep
    <3>1. UNCHANGED <<blocks, stock, list, todo, out, lost, buried>>
      BY <2>2 DEF Sweep
    <3> QED BY <3>1, ConservedSame
  <2>3. CASE Close
    BY <2>3, ConservedClose
  <2>4. CASE DetachStep(Main)
    BY <2>4, ConservedDetachStep, ThreadsAre
  <2> QED BY <1>3, <2>1, <2>2, <2>3, <2>4 DEF MainStep
<1>4. ASSUME NEW t \in Users, UserStep(t) PROVE BlocksConserved'
  BY <1>4, ConservedUserStep
<1>5. ASSUME NEW t \in Users, ThreadExit(t) \/ ThreadStart(t) PROVE BlocksConserved'
  <2>1. UNCHANGED <<blocks, stock, list, todo, out, lost, buried>>
    BY <1>5 DEF ThreadExit, ThreadStart
  <2> QED BY <2>1, ConservedSame
<1>6. ASSUME NEW t \in Users, NEW size \in Sizes, Acquire(t, size) PROVE BlocksConserved'
  BY <1>6, ConservedAcquire
<1>7. ASSUME NEW t \in Users, NEW block \in out, Release(t, block) \/ ReleaseRefused(t, block)
      PROVE  BlocksConserved'
  BY <1>7, ConservedRelease, ConservedReleaseRefused
<1> QED BY <1>1, <1>2, <1>3, <1>4, <1>5, <1>6, <1>7 DEF Next

-----------------------------------------------------------------------------
(* The accounts.                                                           *)

Orphans == {t \in Users : pc[t] = "orphan"}
Held    == Total(balance, Range(registered))

Counted ==
    /\ IsFiniteSet(Orphans)
    /\ retired + Held = Cardinality(out) + Cardinality(lost) + Cardinality(Orphans)

LEMMA CountedIs == Counted => AccountsBalance
BY Zenon DEF Counted, AccountsBalance, Orphans, Held, Total

LEMMA FiniteRange ==
    ASSUME NEW S, NEW s \in Seq(S)
    PROVE  IsFiniteSet(Range(s))
<1>1. Len(s) \in Nat /\ DOMAIN s = 1 .. Len(s)
  OBVIOUS
<1>2. IsFiniteSet(1 .. Len(s))
  BY <1>1, FS_Interval
<1>3. s \in Surjection(1 .. Len(s), Range(s))
  BY <1>1 DEF Surjection, Range
<1> QED BY <1>2, <1>3, FS_Surjection

LEMMA FiniteSets ==
    ASSUME Types
    PROVE  /\ IsFiniteSet(Range(registered)) /\ Range(registered) \subseteq Users
           /\ IsFiniteSet(out) /\ IsFiniteSet(lost)
           /\ Cardinality(out) \in Nat /\ Cardinality(lost) \in Nat
           /\ Held \in Int /\ retired \in Int
<1>1. IsFiniteSet(Range(registered)) /\ Range(registered) \subseteq Users
  <2>1. registered \in Seq(Users)
    BY DEF Types
  <2> QED BY <2>1, FiniteRange DEF Range
<1>2. IsFiniteSet(Ids)
  <2>1. Len(blocks) \in Nat
    BY DEF Types
  <2> QED BY <2>1, FS_Interval DEF Ids
<1>3. IsFiniteSet(out) /\ IsFiniteSet(lost)
  BY <1>2, FS_Subset DEF Types
<1>4. IntegersOn(balance, Range(registered))
  BY <1>1 DEF IntegersOn, Types
<1>5. Held \in Int
  BY <1>1, <1>4, TotalRemove DEF Held
<1> QED BY <1>1, <1>3, <1>5, FS_CardinalityType DEF Types

LEMMA FiniteSetsNext ==
    ASSUME Types'
    PROVE  /\ IsFiniteSet(out') /\ IsFiniteSet(lost')
           /\ Cardinality(out') \in Nat /\ Cardinality(lost') \in Nat
<1>1. IsFiniteSet(Ids')
  <2>1. Len(blocks') \in Nat
    BY DEF Types
  <2> QED BY <2>1, FS_Interval DEF Ids
<1>2. IsFiniteSet(out') /\ IsFiniteSet(lost')
  BY <1>1, FS_Subset DEF Types
<1> QED BY <1>2, FS_CardinalityType

(* Only the count of t changes, by d.                                      *)
Counts(f, g, t, d) ==
    /\ f \in [Users -> Int] /\ g \in [Users -> Int]
    /\ g[t] = f[t] + d /\ \A u \in Users : u # t => g[u] = f[u]

(* That cache may be new to the list.                                      *)
LEMMA SumMoves ==
    ASSUME NEW R, IsFiniteSet(R), R \subseteq Users, NEW t \in Users,
           NEW f, NEW g, NEW d \in Int, Counts(f, g, t, d),
           t \notin R => f[t] = 0
    PROVE  Total(g, R \cup {t}) = Total(f, R) + d /\ Total(f, R) \in Int
<1> DEFINE S == R \cup {t}
           T == S \ {t}
<1> USE DEF Counts
<1>1. IsFiniteSet(S) /\ IsFiniteSet(T) /\ t \in S /\ S \subseteq Users
  BY FS_AddElement, FS_RemoveElement
<1> HIDE DEF S
<1>2. IntegersOn(f, S) /\ IntegersOn(g, S) /\ SameOn(f, g, T)
  BY <1>1 DEF IntegersOn, SameOn
<1>3. Total(f, T) = Total(g, T)
  BY <1>1, <1>2, TotalSame
<1>4. /\ Total(f, S) \in Int /\ Total(f, T) \in Int /\ Total(f, S) = f[t] + Total(f, T)
      /\ Total(g, S) \in Int /\ Total(g, T) \in Int /\ Total(g, S) = g[t] + Total(g, T)
  BY <1>1, <1>2, TotalRemove
<1>5. Total(f, R) = Total(f, S)
  <2>1. CASE t \in R
    BY <2>1 DEF S
  <2>2. CASE t \notin R
    <3>1. R = T
      BY <2>2 DEF S
    <3> QED BY <1>4, <2>2, <3>1
  <2> QED BY <2>1, <2>2
<1>6. Total(g, S) = Total(f, R) + d /\ Total(f, R) \in Int
  <2>1. f[t] \in Int /\ g[t] = f[t] + d
    OBVIOUS
  <2> HIDE DEF T, Counts
  <2> QED BY <1>3, <1>4, <1>5, <2>1
<1> QED BY <1>6 DEF S

(* A cache leaves the list.                                                *)
LEMMA SumLeaves ==
    ASSUME NEW R, IsFiniteSet(R), R \subseteq Users, NEW t \in R,
           NEW f, NEW g, NEW d \in Int, Counts(f, g, t, d)
    PROVE  Total(g, R \ {t}) = Total(f, R) - f[t] /\ Total(f, R) \in Int
<1> DEFINE T == R \ {t}
<1> USE DEF Counts
<1>1. IsFiniteSet(T)
  BY FS_RemoveElement
<1>2. IntegersOn(f, R) /\ SameOn(f, g, T)
  BY DEF IntegersOn, SameOn
<1>3. Total(f, T) = Total(g, T)
  BY <1>1, <1>2, TotalSame
<1>4. Total(f, R) \in Int /\ Total(f, T) \in Int /\ Total(f, R) = f[t] + Total(f, T)
  BY <1>2, TotalRemove
<1>5. f[t] \in Int
  OBVIOUS
<1> HIDE DEF T, Counts
<1>6. Total(g, T) = Total(f, R) - f[t]
  BY <1>3, <1>4, <1>5
<1> QED BY <1>4, <1>6 DEF T

LEMMA CountsBy ==
    ASSUME Types, NEW t \in Users, NEW d \in Int,
           balance' = [balance EXCEPT ![t] = @ + d]
    PROVE  Counts(balance, balance', t, d)
BY DEF Types, Counts

LEMMA CountsNothing ==
    ASSUME Types, NEW t \in Users, balance' = balance
    PROVE  Counts(balance, balance', t, 0)
BY DEF Types, Counts

(* The list has the cache of t after the step, and t counts d more.        *)
LEMMA HeldMoves ==
    ASSUME Types, NEW t \in Users, NEW d \in Int, Counts(balance, balance', t, d),
           Range(registered') = Range(registered) \cup {t},
           t \notin Range(registered) => balance[t] = 0
    PROVE  Held' = Held + d /\ Held \in Int
<1>1. PICK f, g, R : f = balance /\ g = balance' /\ R = Range(registered)
  OBVIOUS
<1>2. Counts(f, g, t, d) /\ (t \notin R => f[t] = 0) /\ R \subseteq Users /\ IsFiniteSet(R)
  BY <1>1, FiniteSets
<1>3. Total(g, R \cup {t}) = Total(f, R) + d /\ Total(f, R) \in Int
  BY <1>2, SumMoves
<1> QED BY <1>1, <1>3 DEF Held

LEMMA OrphansFinite ==
    ASSUME Counted
    PROVE  Cardinality(Orphans) \in Nat
BY FS_CardinalityType DEF Counted

LEMMA OrphansSame ==
    ASSUME NEW t, NEW to, pc' = [pc EXCEPT ![t] = to], Types, pc[t] # "orphan", to # "orphan"
    PROVE  Orphans' = Orphans
BY ThreadsAre DEF Orphans, Types

LEMMA CountedSame ==
    ASSUME Types, Counted, UNCHANGED <<registered, balance, retired, out, lost>>,
           Orphans' = Orphans
    PROVE  Counted'
BY DEF Counted, Held

(* Who gets a block did not have it.                                       *)
LEMMA NotYetOut ==
    ASSUME Types, Controlled, BlocksConserved, NEW b \in Bins
    PROVE  /\ stock[b] # <<>> => Head(Head(stock[b])) \notin out
           /\ \A t \in Users : list[t][b] # <<>> => Head(list[t][b]) \notin out
<1>1. ASSUME stock[b] # <<>> PROVE Head(Head(stock[b])) \notin out
  <2>1. PICK s : s = stock[b]
    OBVIOUS
  <2>2. s \in Seq(Seq(Ids)) /\ s # <<>> /\ Head(s) # <<>>
    BY <1>1, <2>1, ListsAre DEF Types
  <2>3. Head(s) \in Seq(Ids) /\ Range(Head(s)) \subseteq BlocksOf(s)
    BY <2>2, PoppedChunk
  <2>4. Head(Head(s)) \in Range(Head(s))
    BY <2>2, <2>3, HeadOfList
  <2>5. BlocksOf(s) \cap out = {}
    BY <2>1, Apart, AtIs, PlacesAre, PlacesDiffer
  <2> QED BY <2>1, <2>3, <2>4, <2>5
<1>2. ASSUME NEW t \in Users, list[t][b] # <<>> PROVE Head(list[t][b]) \notin out
  <2>1. PICK c : c = list[t][b]
    OBVIOUS
  <2>2. c \in Seq(Ids) /\ c # <<>> /\ DOMAIN list[t] = Bins
    BY <1>2, <2>1, ListsAre
  <2>3. Head(c) \in Range(c)
    BY <2>2, HeadOfList
  <2>4. Range(c) \subseteq BlocksOf(list[t])
    BY <2>1, <2>2 DEF BlocksOf
  <2>5. BlocksOf(list[t]) \cap out = {}
    BY Apart, AtIs, PlacesAre, PlacesDiffer
  <2> QED BY <2>1, <2>3, <2>4, <2>5
<1> QED BY <1>1, <1>2

(* Both sides grow alike.                                                  *)
LEMMA Balanced ==
    ASSUME NEW r \in Int, NEW h \in Int, NEW o \in Int, NEW l \in Int, NEW p \in Int,
           r + h = o + l + p,
           NEW dr \in Int, NEW dh \in Int, NEW do \in Int, NEW dl \in Int, NEW dp \in Int,
           dr + dh = do + dl + dp
    PROVE  (r + dr) + (h + dh) = (o + do) + (l + dl) + (p + dp)
OBVIOUS

Shifts(dr, dh, do, dl, dp) ==
    /\ dr \in Int /\ dh \in Int /\ do \in Int /\ dl \in Int /\ dp \in Int
    /\ dr + dh = do + dl + dp
    /\ retired' = retired + dr
    /\ Held' = Held + dh
    /\ Cardinality(out') = Cardinality(out) + do
    /\ Cardinality(lost') = Cardinality(lost) + dl
    /\ Cardinality(Orphans') = Cardinality(Orphans) + dp

LEMMA CountedBy ==
    ASSUME Types, Counted, IsFiniteSet(Orphans'),
           NEW dr, NEW dh, NEW do, NEW dl, NEW dp, Shifts(dr, dh, do, dl, dp)
    PROVE  Counted'
<1>1. /\ retired \in Int /\ Held \in Int /\ Cardinality(out) \in Int
      /\ Cardinality(lost) \in Int /\ Cardinality(Orphans) \in Int
  BY FiniteSets, OrphansFinite
<1>2. retired + Held = Cardinality(out) + Cardinality(lost) + Cardinality(Orphans)
  BY DEF Counted
<1>3. (retired + dr) + (Held + dh)
        = (Cardinality(out) + do) + (Cardinality(lost) + dl) + (Cardinality(Orphans) + dp)
  BY <1>1, <1>2, Balanced DEF Shifts
<1>4. retired' + Held' = Cardinality(out') + Cardinality(lost') + Cardinality(Orphans')
  BY <1>3 DEF Shifts
<1> QED BY <1>4 DEF Counted

(* A block goes out, and the cache of t counts it.                         *)
LEMMA CountedOut ==
    ASSUME Types, Counted, NEW t \in Users, NEW h, h \notin out, out' = out \cup {h},
           Counts(balance, balance', t, 1),
           Range(registered') = Range(registered) \cup {t},
           t \notin Range(registered) => balance[t] = 0,
           UNCHANGED <<retired, lost>>, Orphans' = Orphans
    PROVE  Counted'
<1>1. Cardinality(out') = Cardinality(out) + 1
  BY FiniteSets, FS_AddElement
<1>2. Held' = Held + 1
  BY HeldMoves
<1>3. /\ retired' = retired + 0 /\ Cardinality(lost') = Cardinality(lost) + 0
      /\ Cardinality(Orphans') = Cardinality(Orphans) + 0 /\ IsFiniteSet(Orphans')
  BY FiniteSets, OrphansFinite DEF Counted
<1>4. Shifts(0, 1, 1, 0, 0)
  BY <1>1, <1>2, <1>3 DEF Shifts
<1> QED BY <1>3, <1>4, CountedBy

LEMMA CountedPops ==
    ASSUME Types, Controlled, BlocksConserved, Counted,
           NEW t \in Users, PopChunk(t) \/ PopOrGrow(t) \/ PopGrown(t)
    PROVE  Counted'
<1>1. PICK b : b = bin[t]
  OBVIOUS
<1>2. pc[t] \in Working /\ pc[t] # "orphan"
  BY DEF PopChunk, PopOrGrow, PopGrown, Working
<1>3. b \in Bins /\ t \in Range(registered)
  BY <1>1, <1>2, AtWork
<1>4. UNCHANGED <<registered, retired, lost>>
  BY DEF PopChunk, PopOrGrow, PopGrown
<1>5. Orphans' = Orphans
  <2>1. PICK to \in {"idle", "lock", "grow"} : pc' = [pc EXCEPT ![t] = to]
    BY DEF PopChunk, PopOrGrow, PopGrown
  <2> QED BY <1>2, <2>1, OrphansSame
<1>6. CASE stock[b] # <<>>
  <2>1. HandOut(t, b, Head(stock[b]))
    BY <1>1, <1>6 DEF PopChunk, PopOrGrow, PopGrown
  <2>2. PICK h : h = Head(Head(stock[b]))
    OBVIOUS
  <2>3. h \notin out /\ out' = out \cup {h} /\ balance' = [balance EXCEPT ![t] = @ + 1]
    BY <1>3, <1>6, <2>1, <2>2, NotYetOut DEF HandOut
  <2>4. Range(registered') = Range(registered) \cup {t}
    BY <1>3, <1>4
  <2>5. Counts(balance, balance', t, 1)
    BY <2>3 DEF Types, Counts
  <2> QED BY <1>3, <1>4, <1>5, <2>3, <2>4, <2>5, CountedOut
<1>7. CASE stock[b] = <<>>
  <2>1. UNCHANGED <<balance, out>>
    BY <1>1, <1>7 DEF PopChunk, PopOrGrow, PopGrown
  <2> QED BY <1>4, <1>5, <2>1, CountedSame
<1> QED BY <1>6, <1>7

LEMMA CountedAcquire ==
    ASSUME Types, Controlled, BlocksConserved, Counted,
           NEW t \in Users, NEW size \in Sizes, Acquire(t, size)
    PROVE  Counted'
<1>1. PICK b : b = BinOf(size)
  OBVIOUS
<1>2. b \in Bins
  BY <1>1, PoolAssumption
<1>3. InUse /\ pc[t] = "idle" /\ GetOrCreate(t) /\ UNCHANGED <<retired, lost>>
  BY DEF Acquire
<1>4. Range(registered') = Range(registered) \cup {t}
  BY <1>3, HasCache DEF Busy
<1>5. t \notin Range(registered) => balance[t] = 0
  BY DEF Controlled, Control, CacheControl
<1>6. CASE list[t][b] = <<>>
  <2>1. UNCHANGED <<balance, out>> /\ pc' = [pc EXCEPT ![t] = "pop"]
    BY <1>1, <1>6 DEF Acquire
  <2>2. Orphans' = Orphans
    BY <1>3, <2>1, OrphansSame
  <2>3. Counts(balance, balance', t, 0)
    BY <2>1, CountsNothing
  <2>4. Held' = Held
    <3>1. Held' = Held + 0 /\ Held \in Int
      BY <1>4, <1>5, <2>3, HeldMoves
    <3> QED BY <3>1
  <2> QED BY <1>3, <2>1, <2>2, <2>4 DEF Counted
<1>7. CASE list[t][b] # <<>>
  <2>1. HandOut(t, b, list[t][b]) /\ UNCHANGED pc
    BY <1>1, <1>7 DEF Acquire
  <2>2. PICK h : h = Head(list[t][b])
    OBVIOUS
  <2>3. h \notin out /\ out' = out \cup {h} /\ balance' = [balance EXCEPT ![t] = @ + 1]
    BY <1>2, <1>7, <2>1, <2>2, NotYetOut DEF HandOut
  <2>4. Orphans' = Orphans
    BY <2>1 DEF Orphans
  <2>5. Counts(balance, balance', t, 1)
    BY <2>3 DEF Types, Counts
  <2> QED BY <1>3, <1>4, <1>5, <2>3, <2>4, <2>5, CountedOut
<1> QED BY <1>6, <1>7

(* A block that is out comes back.                                         *)
LEMMA OutShrinks ==
    ASSUME Types, NEW block \in out, out' = out \ {block}
    PROVE  Cardinality(out') = Cardinality(out) + (-1)
<1>1. Cardinality(out') = Cardinality(out) - 1 /\ Cardinality(out) \in Nat
  BY FiniteSets, FS_RemoveElement
<1> QED BY <1>1

LEMMA CountedRelease ==
    ASSUME Types, Controlled, BlocksConserved, Counted,
           NEW t \in Users, NEW block \in out, Release(t, block)
    PROVE  Counted'
<1>1. PICK b : b = blocks[block].bin
  OBVIOUS
<1>2. pc[t] = "idle" /\ InUse /\ out' = out \ {block} /\ UNCHANGED <<retired, lost>>
  BY DEF Release, Accepts
<1>3. Cardinality(out') = Cardinality(out) + (-1) /\ Cardinality(lost') = Cardinality(lost) + 0
      /\ retired \in Int
  <2>1. Cardinality(out') = Cardinality(out) + (-1)
    BY <1>2, OutShrinks
  <2>2. lost' = lost /\ Cardinality(lost) \in Nat /\ retired \in Int
    BY <1>2, FiniteSets
  <2> QED BY <2>1, <2>2
<1>4. CASE GetOrCreate(t) /\ Push(t, b, block) /\ UNCHANGED pc
  <2>1. Range(registered') = Range(registered) \cup {t}
    BY <1>2, <1>4, HasCache DEF Busy
  <2>2. t \notin Range(registered) => balance[t] = 0
    BY DEF Controlled, Control, CacheControl
  <2>3. balance' = [balance EXCEPT ![t] = @ - 1]
    BY <1>4 DEF Push
  <2>4. Counts(balance, balance', t, -1)
    BY <2>3 DEF Types, Counts
  <2>5. Held' = Held + (-1)
    BY <2>1, <2>2, <2>4, HeldMoves
  <2>6. Orphans' = Orphans
    BY <1>4 DEF Orphans
  <2>7. Cardinality(Orphans') = Cardinality(Orphans) + 0 /\ IsFiniteSet(Orphans')
    BY <2>6, OrphansFinite DEF Counted
  <2>8. retired' = retired + 0
    BY <1>2, <1>3
  <2>9. Shifts(0, -1, -1, 0, 0)
    BY <1>3, <2>5, <2>7, <2>8 DEF Shifts
  <2> QED BY <2>7, <2>9, CountedBy
<1>5. CASE Goto(t, "orphan") /\ UNCHANGED <<caches, registered>>
  <2>1. Orphans' = Orphans \cup {t} /\ t \notin Orphans
    BY <1>2, <1>5, ThreadsAre DEF Orphans, Types
  <2>2. Cardinality(Orphans') = Cardinality(Orphans) + 1 /\ IsFiniteSet(Orphans')
    BY <2>1, FS_AddElement DEF Counted
  <2>3. Held' = Held + 0 /\ retired' = retired + 0
    BY <1>2, <1>5, FiniteSets DEF Held
  <2>4. Shifts(0, 0, -1, 0, 1)
    BY <1>3, <2>2, <2>3 DEF Shifts
  <2> QED BY <2>2, <2>4, CountedBy
<1> QED BY <1>1, <1>4, <1>5 DEF Release

LEMMA CountedReleaseRefused ==
    ASSUME Types, Controlled, BlocksConserved, Counted,
           NEW t \in Users, NEW block \in out, ReleaseRefused(t, block)
    PROVE  Counted'
<1>1. out' = out \ {block} /\ lost' = lost \cup {block}
      /\ UNCHANGED <<retired, registered, balance, pc>>
  BY DEF ReleaseRefused
<1>2. block \notin lost
  <2>1. At(Outside) \cap At(GivenUp) = {}
    BY Apart, PlacesAre, PlacesDiffer
  <2> QED BY <2>1, AtIs
<1>3. Cardinality(out') = Cardinality(out) + (-1)
  BY <1>1, OutShrinks
<1>4. Cardinality(lost') = Cardinality(lost) + 1
  BY <1>1, <1>2, FiniteSets, FS_AddElement
<1>5. Orphans' = Orphans
  BY <1>1 DEF Orphans
<1>6. Cardinality(Orphans') = Cardinality(Orphans) + 0 /\ IsFiniteSet(Orphans')
  BY <1>5, OrphansFinite DEF Counted
<1>7. Held' = Held + 0 /\ retired' = retired + 0
  BY <1>1, FiniteSets DEF Held
<1>8. Shifts(0, 0, -1, 1, 0)
  BY <1>3, <1>4, <1>6, <1>7 DEF Shifts
<1> QED BY <1>6, <1>8, CountedBy

LEMMA CountedNoteOrphanRelease ==
    ASSUME Types, Counted, NEW t \in Users, NoteOrphanRelease(t)
    PROVE  Counted'
<1>1. pc[t] = "orphan" /\ pc' = [pc EXCEPT ![t] = "idle"] /\ retired' = retired - 1
      /\ UNCHANGED <<registered, balance, out, lost>>
  BY DEF NoteOrphanRelease
<1>2. Orphans' = Orphans \ {t} /\ t \in Orphans
  BY <1>1, ThreadsAre DEF Orphans, Types
<1>3. Cardinality(Orphans') = Cardinality(Orphans) - 1 /\ IsFiniteSet(Orphans')
  BY <1>2, FS_RemoveElement DEF Counted
<1>4. Cardinality(Orphans') = Cardinality(Orphans) + (-1)
  BY <1>3, OrphansFinite
<1>5. Held' = Held + 0 /\ retired' = retired + (-1)
  BY <1>1, FiniteSets DEF Held
<1>6. Cardinality(out') = Cardinality(out) + 0 /\ Cardinality(lost') = Cardinality(lost) + 0
  BY <1>1, FiniteSets
<1>7. Shifts(-1, 0, 0, 0, -1)
  BY <1>4, <1>5, <1>6 DEF Shifts
<1> QED BY <1>3, <1>7, CountedBy

(* What the cache counted goes to the registry with it.                    *)
LEMMA CountedUnlink ==
    ASSUME Types, Types', Controlled, Counted, NEW t \in Threads, Unlink(t)
    PROVE  Counted'
<1>1. PICK v : v = victim[t]
  OBVIOUS
<1>2. /\ pc[t] = "flush" /\ pc[t] \in Detaching /\ pc' = [pc EXCEPT ![t] = "free"]
      /\ retired' = retired + balance[v] /\ balance' = [balance EXCEPT ![v] = 0]
      /\ UNCHANGED <<out, lost>>
  BY <1>1 DEF Unlink, Detaching
<1>3. v \in Range(registered)
  BY <1>1 DEF Unlink, Range
<1>4. Range(registered') = Range(registered) \ {v}
  BY <1>1, ControlUnlink
<1>5. v \in Users /\ balance[v] \in Int /\ -balance[v] \in Int
  <2>1. v \in Users
    BY <1>3, FiniteSets
  <2>2. balance[v] \in Int
    BY <2>1 DEF Types
  <2> QED BY <2>1, <2>2
<1>6. Held' = Held + (-balance[v])
  <2>1. PICK f, g, R, d : f = balance /\ g = balance' /\ R = Range(registered) /\ d = -balance[v]
    OBVIOUS
  <2>2. Counts(f, g, v, d)
    <3>1. g = [f EXCEPT ![v] = 0] /\ f \in [Users -> Int] /\ v \in Users /\ d = -f[v]
      BY <1>2, <1>5, <2>1 DEF Types
    <3> QED BY <3>1 DEF Counts
  <2>3. R \subseteq Users /\ IsFiniteSet(R) /\ v \in R /\ d \in Int
    BY <1>3, <1>5, <2>1, FiniteSets
  <2>4. Total(g, R \ {v}) = Total(f, R) - f[v] /\ Total(f, R) \in Int
    BY <2>2, <2>3, SumLeaves
  <2>5. Held' = Held - balance[v] /\ Held \in Int
    BY <1>4, <2>1, <2>4 DEF Held
  <2> QED BY <1>5, <2>5
<1>7. Orphans' = Orphans
  BY <1>2, OrphansSame
<1>8. Cardinality(Orphans') = Cardinality(Orphans) + 0 /\ IsFiniteSet(Orphans')
  BY <1>7, OrphansFinite DEF Counted
<1>9. Cardinality(out') = Cardinality(out) + 0 /\ Cardinality(lost') = Cardinality(lost) + 0
  BY <1>2, FiniteSets
<1>10. Shifts(balance[v], -balance[v], 0, 0, 0)
  BY <1>2, <1>5, <1>6, <1>8, <1>9 DEF Shifts
<1> QED BY <1>8, <1>10, CountedBy

(* Main and a thread that is no orphan move; neither becomes one.          *)
LEMMA OrphansApart ==
    ASSUME Types, NEW t \in Threads, NEW to, pc' = [pc EXCEPT ![t] = to],
           pc[t] # "orphan" \/ t = Main, to # "orphan" \/ t = Main
    PROVE  Orphans' = Orphans
BY ThreadsAre DEF Orphans, Types

LEMMA CountedDetachStep ==
    ASSUME Types, Types', Controlled, Counted, NEW t \in Threads, DetachStep(t)
    PROVE  Counted'
<1>1. pc[t] # "orphan"
  BY DEF DetachStep, Detach, FlushAll, Unlink, FreeCache
<1>2. pc[t] \in Detaching => (ret[t] # "orphan" \/ t = Main)
  BY InDetach
<1>3. CASE Detach(t)
  <2>1. UNCHANGED <<registered, balance, retired, out, lost>> /\ pc[t] \in Detaching
    BY <1>3 DEF Detach, Detaching
  <2>2. PICK to \in {"flush", ret[t]} : pc' = [pc EXCEPT ![t] = to]
    BY <1>3 DEF Detach, Leave
  <2>3. Orphans' = Orphans
    BY <1>1, <1>2, <2>1, <2>2, OrphansApart
  <2> QED BY <2>1, <2>3, CountedSame
<1>4. CASE FlushAll(t)
  <2>1. UNCHANGED <<registered, balance, retired, out, lost, pc>>
    BY <1>4 DEF FlushAll
  <2> QED BY <2>1, CountedSame DEF Orphans
<1>5. CASE Unlink(t)
  BY <1>5, CountedUnlink
<1>6. CASE FreeCache(t)
  <2>1. UNCHANGED <<registered, balance, retired, out, lost>> /\ pc[t] \in Detaching
        /\ pc' = [pc EXCEPT ![t] = ret[t]]
    BY <1>6 DEF FreeCache, Leave, Detaching
  <2>2. Orphans' = Orphans
    BY <1>1, <1>2, <2>1, OrphansApart
  <2> QED BY <2>1, <2>2, CountedSame
<1> QED BY <1>3, <1>4, <1>5, <1>6 DEF DetachStep

LEMMA CountedUserStep ==
    ASSUME Types, Types', Controlled, BlocksConserved, Counted, NEW t \in Users, UserStep(t)
    PROVE  Counted'
<1>0. t \in Threads
  BY ThreadsAre
<1>1. CASE PopChunk(t) \/ PopOrGrow(t) \/ PopGrown(t)
  BY <1>1, CountedPops
<1>2. CASE CheckLimit(t) \/ MapSegment(t) \/ CarveAndPush(t)
  <2>1. UNCHANGED <<registered, balance, retired, out, lost>> /\ pc[t] # "orphan"
    BY <1>2 DEF CheckLimit, MapSegment, CarveAndPush
  <2>2. PICK to \in {"map", "idle", "carve", "last"} : pc' = [pc EXCEPT ![t] = to]
    BY <1>2 DEF CheckLimit, MapSegment, CarveAndPush
  <2>3. Orphans' = Orphans
    BY <1>0, <2>1, <2>2, OrphansApart
  <2> QED BY <2>1, <2>3, CountedSame
<1>3. CASE NoteOrphanRelease(t)
  BY <1>3, CountedNoteOrphanRelease
<1>4. CASE DetachStep(t)
  BY <1>0, <1>4, CountedDetachStep
<1> QED BY <1>1, <1>2, <1>3, <1>4 DEF UserStep

LEMMA CountedMain ==
    ASSUME Types, Types', Controlled, Counted,
           Initialize \/ Finalize \/ MainStep
    PROVE  Counted'
<1>1. CASE DetachStep(Main)
  BY <1>1, CountedDetachStep, ThreadsAre
<1>2. CASE Initialize \/ Finalize \/ FlsFree \/ Sweep \/ Close
  <2>1. UNCHANGED <<registered, balance, retired, out, lost>>
    BY <1>2 DEF Initialize, KeepCounters, Finalize, FlsFree, Sweep, Close
  <2>2. \A u \in Users : pc'[u] = pc[u]
    <3>1. pc' = pc \/ \E to : pc' = [pc EXCEPT ![Main] = to]
      BY <1>2 DEF Initialize, Finalize, FlsFree, Sweep, Close
    <3> QED BY <3>1, ThreadsAre DEF Types
  <2>3. Orphans' = Orphans
    BY <2>2 DEF Orphans
  <2> QED BY <2>1, <2>3, CountedSame
<1> QED BY <1>1, <1>2 DEF MainStep

LEMMA CountedThreads ==
    ASSUME Types, Counted, NEW t \in Users, ThreadExit(t) \/ ThreadStart(t)
    PROVE  Counted'
<1>1. UNCHANGED <<registered, balance, retired, out, lost>> /\ pc[t] # "orphan"
  BY DEF ThreadExit, ThreadStart
<1>2. PICK to \in {"detach", "gone", "idle"} : pc' = [pc EXCEPT ![t] = to]
  BY DEF ThreadExit, ThreadStart
<1>3. Orphans' = Orphans
  BY <1>1, <1>2, OrphansSame
<1> QED BY <1>1, <1>3, CountedSame

LEMMA CountedNext ==
    ASSUME Types, Types', Controlled, BlocksConserved, Counted, Next
    PROVE  Counted'
<1>1. CASE Initialize \/ Finalize \/ MainStep
  BY <1>1, CountedMain
<1>2. ASSUME NEW t \in Users, UserStep(t) PROVE Counted'
  BY <1>2, CountedUserStep
<1>3. ASSUME NEW t \in Users, ThreadExit(t) \/ ThreadStart(t) PROVE Counted'
  BY <1>3, CountedThreads
<1>4. ASSUME NEW t \in Users, NEW size \in Sizes, Acquire(t, size) PROVE Counted'
  BY <1>4, CountedAcquire
<1>5. ASSUME NEW t \in Users, NEW block \in out, Release(t, block) \/ ReleaseRefused(t, block)
      PROVE  Counted'
  BY <1>5, CountedRelease, CountedReleaseRefused
<1> QED BY <1>1, <1>2, <1>3, <1>4, <1>5 DEF Next

LEMMA CountedInit == Init => Counted
<1> SUFFICES ASSUME Init PROVE Counted
  OBVIOUS
<1>1. Orphans = {}
  BY ThreadsAre DEF Init, Orphans
<1>2. Held = 0
  <2>1. Range(registered) = {}
    BY DEF Init, Range
  <2> QED BY <2>1, TotalEmpty DEF Held
<1>3. IsFiniteSet({}) /\ Cardinality({}) = 0
  BY FS_EmptySet
<1>4. out = {} /\ lost = {} /\ retired = 0
  BY DEF Init
<1> QED BY <1>1, <1>2, <1>3, <1>4 DEF Counted

-----------------------------------------------------------------------------
(* Every step.                                                             *)

LEMMA TypesNext ==
    ASSUME Types, Sized, Control, Next
    PROVE  Types' /\ Sized'
<1>1. CASE Initialize
  BY <1>1, TypesInitialize
<1>2. CASE Finalize
  BY <1>2, TypesFinalize
<1>3. CASE MainStep
  BY <1>3, TypesFlsFree, TypesSweep, TypesClose, TypesDetachStep, ThreadsAre DEF MainStep
<1>4. ASSUME NEW t \in Users, UserStep(t) PROVE Types' /\ Sized'
  BY <1>4, ThreadsAre, TypesPopChunk, TypesPopOrGrow, TypesCheckLimit, TypesMapSegment,
     TypesCarve, TypesPopGrown, TypesNoteOrphanRelease, TypesDetachStep DEF UserStep
<1>5. ASSUME NEW t \in Users, ThreadExit(t) \/ ThreadStart(t) PROVE Types' /\ Sized'
  BY <1>5, TypesThreadExit, TypesThreadStart
<1>6. ASSUME NEW t \in Users, NEW size \in Sizes, Acquire(t, size) PROVE Types' /\ Sized'
  BY <1>6, TypesAcquire
<1>7. ASSUME NEW t \in Users, NEW block \in out, Release(t, block) \/ ReleaseRefused(t, block)
      PROVE  Types' /\ Sized'
  BY <1>7, TypesRelease, TypesReleaseRefused
<1> QED BY <1>1, <1>2, <1>3, <1>4, <1>5, <1>6, <1>7 DEF Next

LEMMA ControlDetachStep ==
    ASSUME Types, Controlled, Types', NEW t \in Threads, DetachStep(t)
    PROVE  Controlled'
BY ControlDetach, ControlFlushAll, ControlUnlink, ControlFreeCache DEF DetachStep

LEMMA ControlNext ==
    ASSUME Types, Controlled, Types', Next
    PROVE  Controlled'
<1>1. CASE Initialize
  BY <1>1, ControlInitialize
<1>2. CASE Finalize
  BY <1>2, ControlFinalize
<1>3. CASE MainStep
  BY <1>3, ControlFlsFree, ControlSweep, ControlClose, ControlDetachStep, ThreadsAre
     DEF MainStep
<1>4. ASSUME NEW t \in Users, UserStep(t) PROVE Controlled'
  BY <1>4, ThreadsAre, ControlPop, ControlCheckLimit, ControlMapSegment,
     ControlCarveAndPush, ControlNoteOrphanRelease, ControlDetachStep DEF UserStep
<1>5. ASSUME NEW t \in Users, ThreadExit(t) \/ ThreadStart(t) PROVE Controlled'
  BY <1>5, ControlThreadExit, ControlThreadStart
<1>6. ASSUME NEW t \in Users, NEW size \in Sizes, Acquire(t, size) PROVE Controlled'
  BY <1>6, ControlAcquire
<1>7. ASSUME NEW t \in Users, NEW block \in out, Release(t, block) \/ ReleaseRefused(t, block)
      PROVE  Controlled'
  BY <1>7, ControlRelease, ControlReleaseRefused
<1> QED BY <1>1, <1>2, <1>3, <1>4, <1>5, <1>6, <1>7 DEF Next

LEMMA ConservedInit == Init => BlocksConserved
<1> SUFFICES ASSUME Init PROVE BlocksConserved
  OBVIOUS
<1>1. Controlled
  BY ControlInit
<1>2. /\ blocks = <<>> /\ stock = EmptyLists /\ list = [t \in Users |-> EmptyLists]
      /\ todo = [t \in Threads |-> <<>>] /\ out = {} /\ lost = {} /\ buried = {}
  BY DEF Init
<1>3. \A c : DOMAIN c = {} => BlocksOf(c) = {}
  BY NothingIn
<1>4. \A b \in Bins : BlocksOf(stock[b]) = {}
  BY <1>2, <1>3 DEF EmptyLists
<1>5. \A t \in Users : BlocksOf(list[t]) = {} /\ BlocksOf(todo[t]) = {}
  <2> SUFFICES ASSUME NEW t \in Users
               PROVE  BlocksOf(list[t]) = {} /\ BlocksOf(todo[t]) = {}
    OBVIOUS
  <2>1. list[t] = EmptyLists /\ todo[t] = <<>>
    BY <1>2, ThreadsAre
  <2>2. BlocksOf(list[t]) = {}
    BY <2>1 DEF BlocksOf, EmptyLists, Range
  <2> QED BY <1>3, <2>1, <2>2
<1>6. \A p \in Places : At(p) = {}
  BY <1>1, <1>2, <1>4, <1>5, AtIs, PlacesAre
<1>7. Ids = {}
  BY <1>2 DEF Ids
<1>8. InOnePlace
  BY <1>6, <1>7 DEF InOnePlace
<1>9. TwiceNowhere
  <2>1. \A b \in Bins : NoneTwice(stock[b])
    BY <1>2 DEF EmptyLists, NoneTwice
  <2>2. ASSUME NEW t \in Users PROVE NoneTwice(list[t]) /\ NoneTwice(todo[t])
    <3>1. list[t] = EmptyLists /\ todo[t] = <<>>
      BY <1>2, ThreadsAre
    <3> QED BY <3>1 DEF EmptyLists, NoneTwice
  <2> QED BY <2>1, <2>2 DEF TwiceNowhere
<1> QED BY <1>8, <1>9, ConservedIs

-----------------------------------------------------------------------------
(* Memory goes back to the system with nobody on it.                       *)

(* Who gets a block gets one that is neither given up nor buried.          *)
LEMMA NotYetGone ==
    ASSUME Types, Controlled, BlocksConserved, NEW b \in Bins
    PROVE  /\ stock[b] # <<>> => Head(Head(stock[b])) \in Ids \ (lost \cup buried)
           /\ \A t \in Users :
                 list[t][b] # <<>> => Head(list[t][b]) \in Ids \ (lost \cup buried)
<1>0. \A p \in Places : At(p) \subseteq Ids
  BY DEF BlocksConserved
<1>1. ASSUME stock[b] # <<>> PROVE Head(Head(stock[b])) \in Ids \ (lost \cup buried)
  <2>1. PICK s : s = stock[b]
    OBVIOUS
  <2>2. s \in Seq(Seq(Ids)) /\ s # <<>> /\ Head(s) # <<>>
    BY <1>1, <2>1, ListsAre DEF Types
  <2>3. Head(s) \in Seq(Ids) /\ Range(Head(s)) \subseteq BlocksOf(s)
    BY <2>2, PoppedChunk
  <2>4. Head(Head(s)) \in Range(Head(s))
    BY <2>2, <2>3, HeadOfList
  <2>5. /\ At(InStock(b)) \cap At(GivenUp) = {} /\ At(InStock(b)) \cap At(Underground) = {}
        /\ At(InStock(b)) \subseteq Ids
    BY <1>0, Apart, PlacesAre, PlacesDiffer
  <2>6. BlocksOf(s) \cap lost = {} /\ BlocksOf(s) \cap buried = {} /\ BlocksOf(s) \subseteq Ids
    BY <2>1, <2>5, AtIs
  <2> QED BY <2>1, <2>3, <2>4, <2>6
<1>2. ASSUME NEW t \in Users, list[t][b] # <<>>
      PROVE  Head(list[t][b]) \in Ids \ (lost \cup buried)
  <2>1. PICK c : c = list[t][b]
    OBVIOUS
  <2>2. c \in Seq(Ids) /\ c # <<>> /\ DOMAIN list[t] = Bins
    BY <1>2, <2>1, ListsAre
  <2>3. Head(c) \in Range(c)
    BY <2>2, HeadOfList
  <2>4. Range(c) \subseteq BlocksOf(list[t])
    BY <2>1, <2>2 DEF BlocksOf
  <2>5. /\ At(InCache(t)) \cap At(GivenUp) = {} /\ At(InCache(t)) \cap At(Underground) = {}
        /\ At(InCache(t)) \subseteq Ids
    BY <1>0, Apart, PlacesAre, PlacesDiffer
  <2>6. /\ BlocksOf(list[t]) \cap lost = {} /\ BlocksOf(list[t]) \cap buried = {}
        /\ BlocksOf(list[t]) \subseteq Ids
    BY <2>5, AtIs
  <2> QED BY <2>1, <2>3, <2>4, <2>6
<1> QED BY <1>1, <1>2

LEMMA UnmapSame ==
    ASSUME UnmapIsSafe, UNCHANGED <<blocks, unmapped>>,
           lost \subseteq lost', buried \subseteq buried'
    PROVE  UnmapIsSafe'
BY DEF UnmapIsSafe, Ids

(* New blocks are of a life whose memory is not returned.                  *)
LEMMA UnmapMore ==
    ASSUME Types, UnmapIsSafe, UNCHANGED <<unmapped, lost, buried>>,
           NEW more \in Seq([bin : Bins, life : 1 .. life']), life' \in Nat, life <= life',
           blocks' = blocks \o more,
           \A i \in DOMAIN more : more[i].life \notin unmapped
    PROVE  UnmapIsSafe'
<1> DEFINE fresh == Len(blocks) + 1 .. Len(blocks) + Len(more)
<1>1. /\ Ids' = Ids \cup fresh
      /\ \A x \in Ids : blocks'[x] = blocks[x]
      /\ \A x \in fresh : x - Len(blocks) \in DOMAIN more /\ blocks'[x] = more[x - Len(blocks)]
  BY MoreBlocks
<1> HIDE DEF fresh
<1>2. \A x \in Ids : blocks'[x].life \in unmapped => x \in lost \cup buried
  BY <1>1 DEF UnmapIsSafe
<1>3. \A x \in fresh : blocks'[x].life \notin unmapped
  BY <1>1
<1>4. \A x \in Ids' : blocks'[x].life \in unmapped' => x \in lost' \cup buried'
  BY <1>1, <1>2, <1>3
<1> QED BY <1>4 DEF UnmapIsSafe

LEMMA UnmapMapSegment ==
    ASSUME Types, Controlled, UnmapIsSafe, NEW t \in Users, MapSegment(t)
    PROVE  UnmapIsSafe'
<1>1. UNCHANGED <<unmapped, lost, buried, life>> /\ pc[t] = "map"
  BY DEF MapSegment
<1>2. PICK b, count : b = bin[t] /\ count = BlocksPerSegment(b)
  OBVIOUS
<1>3. b \in Bins /\ InUse /\ count \in Nat
  <2>1. b \in Bins /\ InUse
    BY <1>1, <1>2, AtWork DEF Working
  <2> QED BY <1>2, <2>1, Segments
<1>4. CASE UNCHANGED blocks
  BY <1>1, <1>4, UnmapSame
<1>5. CASE blocks' = blocks \o NewBlocks(b, count)
  <2>1. life \in Nat /\ life > 0 /\ life \notin unmapped
    BY <1>3, PoolAssumption DEF Controlled, Control, MainControl, LifeInUse, Types, InUse
  <2>2. PICK more : more = NewBlocks(b, count)
    OBVIOUS
  <2>3. more \in Seq([bin : Bins, life : 1 .. life']) /\ \A i \in DOMAIN more : more[i].life = life
    BY <1>1, <1>3, <2>1, <2>2 DEF NewBlocks
  <2>4. life' \in Nat /\ life <= life'
    BY <1>1, <2>1
  <2>5. \A i \in DOMAIN more : more[i].life \notin unmapped
    BY <2>1, <2>3
  <2>6. blocks' = blocks \o more
    BY <1>5, <2>2
  <2> QED BY <1>1, <2>3, <2>4, <2>5, <2>6, UnmapMore
<1> QED BY <1>2, <1>4, <1>5 DEF MapSegment

LEMMA UnmapInitialize ==
    ASSUME Types, Controlled, UnmapIsSafe, Initialize
    PROVE  UnmapIsSafe'
<1>1. UNCHANGED <<unmapped, lost, buried>> /\ life' = life + 1
  BY DEF Initialize
<1>2. CASE UNCHANGED blocks
  BY <1>1, <1>2, UnmapSame
<1>3. CASE blocks' = blocks \o InitialBlocks
  <2>1. /\ InitialBlocks \in Seq([bin : Bins, life : 1 .. life']) /\ life \in Nat
        /\ \A i \in DOMAIN InitialBlocks : InitialBlocks[i].life = life + 1
    BY <1>1, <1>3, InitialFacts
  <2>2. life + 1 \notin unmapped
    BY <2>1 DEF Types
  <2>3. life' \in Nat /\ life <= life'
    BY <1>1, <2>1
  <2>4. \A i \in DOMAIN InitialBlocks : InitialBlocks[i].life \notin unmapped
    BY <2>1, <2>2
  <2>5. PICK more : more = InitialBlocks
    OBVIOUS
  <2> QED BY <1>1, <1>3, <2>1, <2>3, <2>4, <2>5, UnmapMore
<1> QED BY <1>2, <1>3 DEF Initialize

(* The counters balance and no cache is left: all blocks are in the stacks.*)
LEMMA AllAtHome ==
    ASSUME Types, Controlled, BlocksConserved, Counted, pc[Main] = "close", retired = 0
    PROVE  out = {} /\ Ids = lost \cup buried \cup Pooled
<1>1. registered = <<>> /\ ~InUse
  BY DEF Controlled, Control, MainControl, InUse
<1>2. Held = 0
  <2>1. Range(registered) = {}
    BY <1>1 DEF Range
  <2> QED BY <2>1, TotalEmpty DEF Held
<1>3. Cardinality(out) = 0
  <2>1. PICK o, l, p : o = Cardinality(out) /\ l = Cardinality(lost) /\ p = Cardinality(Orphans)
    OBVIOUS
  <2>2. o \in Nat /\ l \in Nat /\ p \in Nat
    BY <2>1, FiniteSets, OrphansFinite
  <2>3. 0 + 0 = o + l + p
    BY <1>2, <2>1 DEF Counted
  <2> QED BY <2>1, <2>2, <2>3
<1>4. out = {}
  BY <1>3, FiniteSets, FS_EmptySet
<1>5. \A t \in Users : At(InCache(t)) = {} /\ At(Carried(t)) = {}
  <2> SUFFICES ASSUME NEW t \in Users
               PROVE  At(InCache(t)) = {} /\ At(Carried(t)) = {}
    OBVIOUS
  <2>1. list[t] = EmptyLists
    BY <1>1, NoCaches
  <2>2. todo[t] = <<>>
    BY <1>1 DEF Controlled, Control, UserControl, Working
  <2>3. BlocksOf(list[t]) = {}
    BY <2>1 DEF BlocksOf, EmptyLists, Range
  <2>4. BlocksOf(todo[t]) = {}
    BY <2>2, NothingIn
  <2> QED BY <2>3, <2>4, AtIs
<1>6. \A b \in Bins : At(InStock(b)) \subseteq Pooled
  BY AtIs, PooledAre
<1>7. \A p \in Places : At(p) \subseteq lost \cup buried \cup Pooled
  BY <1>4, <1>5, <1>6, AtIs, PlacesAre
<1>8. lost \cup buried \cup Pooled \subseteq Ids
  <2>1. \A b \in Bins : BlocksOf(stock[b]) \subseteq Ids
    BY AtIs, PlacesAre DEF BlocksConserved
  <2> QED BY <2>1, PooledAre DEF Types
<1> QED BY <1>4, <1>7, <1>8 DEF BlocksConserved

LEMMA UnmapClose ==
    ASSUME Types, Controlled, BlocksConserved, Counted, UnmapIsSafe, Close
    PROVE  UnmapIsSafe'
<1>1. pc[Main] = "close" /\ UNCHANGED <<blocks, lost>> /\ buried' = buried \cup Pooled
      /\ Ids' = Ids
  BY DEF Close, Ids
<1>2. CASE retired = 0
  <2>1. Ids = lost \cup buried \cup Pooled
    BY <1>1, <1>2, AllAtHome
  <2> QED BY <1>1, <2>1 DEF UnmapIsSafe
<1>3. CASE retired # 0
  <2>1. unmapped' = unmapped
    BY <1>3 DEF Close
  <2> QED BY <1>1, <2>1, UnmapSame
<1> QED BY <1>2, <1>3

LEMMA UnmapNext ==
    ASSUME Types, Controlled, BlocksConserved, Counted, UnmapIsSafe, Next
    PROVE  UnmapIsSafe'
<1>1. ASSUME NEW t \in Threads, DetachStep(t) PROVE UnmapIsSafe'
  <2>1. UNCHANGED <<blocks, unmapped, lost, buried>>
    BY <1>1 DEF DetachStep, Detach, FlushAll, Unlink, FreeCache
  <2> QED BY <2>1, UnmapSame
<1>2. CASE Initialize
  BY <1>2, UnmapInitialize
<1>3. CASE Finalize
  <2>1. UNCHANGED <<blocks, unmapped, lost, buried>>
    BY <1>3 DEF Finalize
  <2> QED BY <2>1, UnmapSame
<1>4. CASE MainStep
  <2>1. CASE FlsFree \/ Sweep
    <3>1. UNCHANGED <<blocks, unmapped, lost, buried>>
      BY <2>1 DEF FlsFree, Sweep
    <3> QED BY <3>1, UnmapSame
  <2> QED BY <1>1, <1>4, <2>1, UnmapClose, ThreadsAre DEF MainStep
<1>5. ASSUME NEW t \in Users, UserStep(t) PROVE UnmapIsSafe'
  <2>1. CASE PopChunk(t) \/ PopOrGrow(t) \/ CheckLimit(t) \/ CarveAndPush(t) \/ PopGrown(t)
             \/ NoteOrphanRelease(t)
    <3>1. UNCHANGED <<blocks, unmapped, lost, buried>>
      BY <2>1 DEF PopChunk, PopOrGrow, CheckLimit, CarveAndPush, PopGrown, NoteOrphanRelease
    <3> QED BY <3>1, UnmapSame
  <2> QED BY <1>1, <1>5, <2>1, UnmapMapSegment, ThreadsAre DEF UserStep
<1>6. ASSUME NEW t \in Users, ThreadExit(t) \/ ThreadStart(t) PROVE UnmapIsSafe'
  <2>1. UNCHANGED <<blocks, unmapped, lost, buried>>
    BY <1>6 DEF ThreadExit, ThreadStart
  <2> QED BY <2>1, UnmapSame
<1>7. ASSUME NEW t \in Users, NEW size \in Sizes, Acquire(t, size) PROVE UnmapIsSafe'
  <2>1. UNCHANGED <<blocks, unmapped, lost, buried>>
    BY <1>7 DEF Acquire
  <2> QED BY <2>1, UnmapSame
<1>8. ASSUME NEW t \in Users, NEW block \in out, Release(t, block) \/ ReleaseRefused(t, block)
      PROVE  UnmapIsSafe'
  <2>1. UNCHANGED <<blocks, unmapped, buried>> /\ lost \subseteq lost'
    BY <1>8 DEF Release, ReleaseRefused
  <2> QED BY <2>1, UnmapSame
<1> QED BY <1>2, <1>3, <1>4, <1>5, <1>6, <1>7, <1>8 DEF Next

-----------------------------------------------------------------------------
(* The inductive invariant.                                                *)

PoolInv ==
    /\ Types /\ Sized /\ Controlled
    /\ BlocksConserved /\ Counted /\ UnmapIsSafe

LEMMA PoolInvInit == Init => PoolInv
<1> SUFFICES ASSUME Init PROVE PoolInv
  OBVIOUS
<1>1. UnmapIsSafe
  BY DEF Init, UnmapIsSafe, Ids
<1> QED BY <1>1, TypesInit, ControlInit, ConservedInit, CountedInit DEF PoolInv

LEMMA PoolInvNext == PoolInv /\ [Next]_vars => PoolInv'
<1> SUFFICES ASSUME PoolInv, [Next]_vars PROVE PoolInv'
  OBVIOUS
<1>0. Types /\ Sized /\ Controlled /\ BlocksConserved /\ Counted /\ UnmapIsSafe
  BY DEF PoolInv
<1>1. CASE Next
  <2>1. Control
    BY <1>0 DEF Controlled
  <2>2. Types' /\ Sized'
    BY <1>0, <1>1, <2>1, TypesNext
  <2>3. Controlled'
    BY <1>0, <1>1, <2>2, ControlNext
  <2>4. BlocksConserved'
    BY <1>0, <1>1, <2>3, ConservedNext
  <2>5. Counted'
    BY <1>0, <1>1, <2>2, CountedNext
  <2>6. UnmapIsSafe'
    BY <1>0, <1>1, UnmapNext
  <2> QED BY <2>2, <2>3, <2>4, <2>5, <2>6 DEF PoolInv
<1>2. CASE UNCHANGED vars
  <2>0. UNCHANGED <<global, registry, caches, locals, ghosts>>
    BY <1>2 DEF vars
  <2>1. Types' /\ Sized'
    BY <1>0, <2>0 DEF Types, Sized, Ids
  <2>2. Controlled'
    BY <1>0, <2>0, SameControl
  <2>3. BlocksConserved'
    BY <1>0, <2>0, <2>2, ConservedSame
  <2>4. Orphans' = Orphans
    BY <2>0 DEF Orphans
  <2>5. Counted'
    BY <1>0, <2>0, <2>4, CountedSame
  <2>6. UnmapIsSafe'
    BY <1>0, <2>0, UnmapSame
  <2> QED BY <2>1, <2>2, <2>3, <2>5, <2>6 DEF PoolInv
<1> QED BY <1>1, <1>2

LEMMA PoolInvariant == Spec => []PoolInv
BY PoolInvInit, PoolInvNext, PTL DEF Spec

LEMMA TypesAreOK == Types /\ Sized => TypeOK
<1> SUFFICES ASSUME Types, Sized PROVE TypeOK
  OBVIOUS
<1>1. \A b \in Ids : blocks[b] \in [bin : Bins, life : 1 .. life]
  <2>1. PICK S : S = [bin : Bins, life : 1 .. life]
    OBVIOUS
  <2>2. blocks \in Seq(S)
    BY <2>1 DEF Types
  <2>3. \A b \in 1 .. Len(blocks) : blocks[b] \in S
    BY <2>2, ElementOfSeq
  <2> QED BY <2>1, <2>3 DEF Ids
<1>2. /\ \A t \in Users : todo[t] \in Seq(Seq(Ids))
      /\ \A t \in Users : list[t] \in [Bins -> Seq(Ids)]
  BY ListsAre
<1>3. \A t \in Users, b \in Bins : list[t][b] \in Seq(Ids) /\ Len(list[t][b]) <= CacheCap(b)
  BY <1>2 DEF Sized
<1>4. \A b \in Bins : stock[b] \in Seq(Seq(Ids) \ {<<>>})
  BY DEF Types
<1> QED BY <1>1, <1>2, <1>3, <1>4 DEF TypeOK, Types

(* Fields hold what they are for, and no cache keeps more blocks of a bin  *)
(* than the limit of ThreadBlockCache::Push, whoever releases to it.       *)
THEOREM TypeCorrect == Spec => []TypeOK
BY PoolInvariant, TypesAreOK, PTL DEF PoolInv

(* No block is lost or doubled on its way between callers, caches, stacks  *)
(* and new segments: the lists of TlsMemoryPool hold each block once.      *)
THEOREM Conserved == Spec => []BlocksConserved
BY PoolInvariant, PTL DEF PoolInv

(* What Finalize adds up, the counters of the registry and of its caches,  *)
(* is the number of blocks that did not come back.                         *)
THEOREM AccountsCorrect == Spec => []AccountsBalance
<1>1. PoolInv => AccountsBalance
  BY CountedIs DEF PoolInv
<1> QED BY <1>1, PoolInvariant, PTL

(* Finalize returns a segment only when all its blocks are in the pool or  *)
(* were given up: nobody touches memory that the system has back.          *)
THEOREM UnmapCorrect == Spec => []UnmapIsSafe
BY PoolInvariant, PTL DEF PoolInv

-----------------------------------------------------------------------------
(* The pool is a store of blocks.                                          *)

Mapped == {b \in Ids : blocks[b].life \notin unmapped}
StoreStep == [Store!Next]_<<Mapped, out>>

LEMMA StoreStays ==
    ASSUME UNCHANGED <<blocks, unmapped, out>>
    PROVE  StoreStep
BY DEF StoreStep, Mapped, Ids

LEMMA StoreMaps ==
    ASSUME Mapped \subseteq Mapped', out' = out
    PROVE  StoreStep
BY DEF StoreStep, Mapped, Store!Next, Store!Map

LEMMA StoreUnmaps ==
    ASSUME Mapped' \subseteq Mapped, out \subseteq Mapped', out' = out
    PROVE  StoreStep
BY DEF StoreStep, Mapped, Store!Next, Store!Unmap

LEMMA StoreTakesBack ==
    ASSUME UNCHANGED <<blocks, unmapped>>, NEW b \in out, out' = out \ {b}
    PROVE  StoreStep
<1>1. Mapped' = Mapped
  BY DEF Mapped, Ids
<1>2. Store!GiveBack(b)
  BY <1>1 DEF Store!GiveBack, Mapped
<1> QED BY <1>2 DEF StoreStep, Store!Next

LEMMA StoreHandsOut ==
    ASSUME UNCHANGED <<blocks, unmapped>>, UnmapIsSafe,
           NEW b \in Ids, b \notin lost \cup buried \cup out, out' = out \cup {b}
    PROVE  StoreStep
<1>1. Mapped' = Mapped /\ b \in Mapped
  BY DEF Mapped, Ids, UnmapIsSafe
<1>2. Store!HandOut(b)
  BY <1>1 DEF Store!HandOut, Mapped
<1> QED BY <1>1, <1>2 DEF StoreStep, Store!Next, Mapped

LEMMA StorePops ==
    ASSUME PoolInv, NEW t \in Users, PopChunk(t) \/ PopOrGrow(t) \/ PopGrown(t)
    PROVE  StoreStep
<1>0. Types /\ Controlled /\ BlocksConserved /\ UnmapIsSafe
  BY DEF PoolInv
<1>1. PICK b : b = bin[t]
  OBVIOUS
<1>2. b \in Bins
  <2>1. pc[t] \in Working
    BY DEF PopChunk, PopOrGrow, PopGrown, Working
  <2> QED BY <1>0, <1>1, <2>1, AtWork
<1>3. UNCHANGED <<blocks, unmapped>>
  BY DEF PopChunk, PopOrGrow, PopGrown
<1>4. CASE stock[b] # <<>>
  <2>1. HandOut(t, b, Head(stock[b]))
    BY <1>1, <1>4 DEF PopChunk, PopOrGrow, PopGrown
  <2>2. PICK h : h = Head(Head(stock[b]))
    OBVIOUS
  <2>3. h \notin out /\ out' = out \cup {h} /\ h \in Ids \ (lost \cup buried)
    BY <1>0, <1>2, <1>4, <2>1, <2>2, NotYetOut, NotYetGone DEF HandOut
  <2> QED BY <1>0, <1>3, <2>3, StoreHandsOut
<1>5. CASE stock[b] = <<>>
  <2>1. out' = out
    BY <1>1, <1>5 DEF PopChunk, PopOrGrow, PopGrown
  <2> QED BY <1>3, <2>1, StoreStays
<1> QED BY <1>4, <1>5

LEMMA StoreAcquire ==
    ASSUME PoolInv, NEW t \in Users, NEW size \in Sizes, Acquire(t, size)
    PROVE  StoreStep
<1>0. Types /\ Controlled /\ BlocksConserved /\ UnmapIsSafe
  BY DEF PoolInv
<1>1. PICK b : b = BinOf(size)
  OBVIOUS
<1>2. b \in Bins
  BY <1>1, PoolAssumption
<1>3. UNCHANGED <<blocks, unmapped>>
  BY DEF Acquire
<1>4. CASE list[t][b] # <<>>
  <2>1. HandOut(t, b, list[t][b])
    BY <1>1, <1>4 DEF Acquire
  <2>2. PICK h : h = Head(list[t][b])
    OBVIOUS
  <2>3. h \notin out /\ out' = out \cup {h} /\ h \in Ids \ (lost \cup buried)
    BY <1>0, <1>2, <1>4, <2>1, <2>2, NotYetOut, NotYetGone DEF HandOut
  <2> QED BY <1>0, <1>3, <2>3, StoreHandsOut
<1>5. CASE list[t][b] = <<>>
  <2>1. out' = out
    BY <1>1, <1>5 DEF Acquire
  <2> QED BY <1>3, <2>1, StoreStays
<1> QED BY <1>4, <1>5

(* New memory.                                                             *)
LEMMA MappedGrows ==
    ASSUME Types, unmapped' = unmapped,
           NEW more \in Seq([bin : Bins, life : 1 .. life']), life' \in Nat, life <= life',
           blocks' = blocks \o more
    PROVE  Mapped \subseteq Mapped'
<1>1. Ids \subseteq Ids' /\ \A x \in Ids : blocks'[x] = blocks[x]
  BY MoreBlocks
<1> QED BY <1>1 DEF Mapped

LEMMA StoreMapSegment ==
    ASSUME PoolInv, NEW t \in Users, MapSegment(t)
    PROVE  StoreStep
<1>0. Types /\ Controlled
  BY DEF PoolInv
<1>1. UNCHANGED <<unmapped, out, life>> /\ pc[t] = "map"
  BY DEF MapSegment
<1>2. PICK b, count : b = bin[t] /\ count = BlocksPerSegment(b)
  OBVIOUS
<1>3. b \in Bins /\ InUse /\ count \in Nat
  <2>1. b \in Bins /\ InUse
    BY <1>0, <1>1, <1>2, AtWork DEF Working
  <2> QED BY <1>2, <2>1, Segments
<1>4. CASE UNCHANGED blocks
  BY <1>1, <1>4, StoreStays
<1>5. CASE blocks' = blocks \o NewBlocks(b, count)
  <2>1. life \in Nat /\ life > 0
    BY <1>0, <1>3, PoolAssumption DEF Controlled, Control, MainControl, Types, InUse
  <2>2. PICK more : more = NewBlocks(b, count)
    OBVIOUS
  <2>3. more \in Seq([bin : Bins, life : 1 .. life'])
    BY <1>1, <1>3, <2>1, <2>2 DEF NewBlocks
  <2>4. life' \in Nat /\ life <= life' /\ blocks' = blocks \o more
    BY <1>1, <1>5, <2>1, <2>2
  <2>5. Mapped \subseteq Mapped'
    BY <1>0, <1>1, <2>3, <2>4, MappedGrows
  <2> QED BY <1>1, <2>5, StoreMaps
<1> QED BY <1>2, <1>4, <1>5 DEF MapSegment

LEMMA StoreInitialize ==
    ASSUME PoolInv, Initialize
    PROVE  StoreStep
<1>0. Types
  BY DEF PoolInv
<1>1. UNCHANGED <<unmapped, out>> /\ life' = life + 1
  BY DEF Initialize
<1>2. CASE UNCHANGED blocks
  BY <1>1, <1>2, StoreStays
<1>3. CASE blocks' = blocks \o InitialBlocks
  <2>1. PICK more : more = InitialBlocks
    OBVIOUS
  <2>2. more \in Seq([bin : Bins, life : 1 .. life']) /\ life \in Nat
    BY <1>0, <1>1, <1>3, <2>1, InitialFacts
  <2>3. life' \in Nat /\ life <= life' /\ blocks' = blocks \o more
    BY <1>1, <1>3, <2>1, <2>2
  <2>4. Mapped \subseteq Mapped'
    BY <1>0, <1>1, <2>2, <2>3, MappedGrows
  <2> QED BY <1>1, <2>4, StoreMaps
<1> QED BY <1>2, <1>3 DEF Initialize

(* The segments go back when no block is out.                              *)
LEMMA StoreClose ==
    ASSUME PoolInv, Close
    PROVE  StoreStep
<1>1. pc[Main] = "close" /\ UNCHANGED <<blocks, out>>
  BY DEF Close
<1>2. CASE retired = 0
  <2>1. out = {}
    BY <1>1, <1>2, AllAtHome DEF PoolInv
  <2>2. unmapped \subseteq unmapped'
    BY DEF Close
  <2>3. Mapped' \subseteq Mapped
    BY <1>1, <2>2 DEF Mapped, Ids
  <2> QED BY <1>1, <2>1, <2>3, StoreUnmaps
<1>3. CASE retired # 0
  <2>1. unmapped' = unmapped
    BY <1>3 DEF Close
  <2> QED BY <1>1, <2>1, StoreStays
<1> QED BY <1>2, <1>3

LEMMA StoreNext ==
    ASSUME PoolInv, [Next]_vars
    PROVE  StoreStep
<1>1. ASSUME NEW t \in Threads, DetachStep(t) PROVE StoreStep
  <2>1. UNCHANGED <<blocks, unmapped, out>>
    BY <1>1 DEF DetachStep, Detach, FlushAll, Unlink, FreeCache
  <2> QED BY <2>1, StoreStays
<1>2. CASE Initialize
  BY <1>2, StoreInitialize
<1>3. CASE Finalize \/ UNCHANGED vars
  <2>1. UNCHANGED <<blocks, unmapped, out>>
    BY <1>3 DEF Finalize, vars
  <2> QED BY <2>1, StoreStays
<1>4. CASE MainStep
  <2>1. CASE FlsFree \/ Sweep
    <3>1. UNCHANGED <<blocks, unmapped, out>>
      BY <2>1 DEF FlsFree, Sweep
    <3> QED BY <3>1, StoreStays
  <2> QED BY <1>1, <1>4, <2>1, StoreClose, ThreadsAre DEF MainStep
<1>5. ASSUME NEW t \in Users, UserStep(t) PROVE StoreStep
  <2>1. CASE CheckLimit(t) \/ CarveAndPush(t) \/ NoteOrphanRelease(t)
    <3>1. UNCHANGED <<blocks, unmapped, out>>
      BY <2>1 DEF CheckLimit, CarveAndPush, NoteOrphanRelease
    <3> QED BY <3>1, StoreStays
  <2> QED BY <1>1, <1>5, <2>1, StorePops, StoreMapSegment, ThreadsAre DEF UserStep
<1>6. ASSUME NEW t \in Users, ThreadExit(t) \/ ThreadStart(t) PROVE StoreStep
  <2>1. UNCHANGED <<blocks, unmapped, out>>
    BY <1>6 DEF ThreadExit, ThreadStart
  <2> QED BY <2>1, StoreStays
<1>7. ASSUME NEW t \in Users, NEW size \in Sizes, Acquire(t, size) PROVE StoreStep
  BY <1>7, StoreAcquire
<1>8. ASSUME NEW t \in Users, NEW block \in out, Release(t, block) \/ ReleaseRefused(t, block)
      PROVE  StoreStep
  <2>1. UNCHANGED <<blocks, unmapped>> /\ out' = out \ {block}
    BY <1>8 DEF Release, ReleaseRefused
  <2> QED BY <2>1, StoreTakesBack
<1> QED BY <1>2, <1>3, <1>4, <1>5, <1>6, <1>7, <1>8 DEF Next

(* Whatever path a block takes through caches, stacks and segments, its    *)
(* callers see a store that hands each block to one of them at a time, and *)
(* leaves memory mapped as long as somebody has a block on it.             *)
THEOREM PoolIsBlockStore == Spec => IsBlockStore
<1>1. Init => Store!Init
  BY DEF Init, Store!Init, Ids
<1>2. PoolInv /\ [Next]_vars => [Store!Next]_<<Mapped, out>>
  BY StoreNext DEF StoreStep
<1>3. PoolInv /\ [Next]_vars =>
         [Store!Next]_<<{b \in Ids : blocks[b].life \notin unmapped}, out>>
  BY <1>2 DEF Mapped
<1>4. Spec => Store!Spec
  BY <1>1, <1>3, PoolInvariant, PTL DEF Spec, Store!Spec
<1> QED BY <1>4 DEF IsBlockStore
=============================================================================
