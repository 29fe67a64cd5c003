------------------------------ MODULE SizeBins ------------------------------
(***************************************************************************)
(* The bins of a memory pool (SizeBin.h): powers of two, each with a cache *)
(* limit, a batch and a segment size that follow from the block size.  No  *)
(* state.  The constants of the source are constants here, so that a small *)
(* instance has small caches.                                              *)
(***************************************************************************)
EXTENDS Integers

CONSTANTS
    MinBinLog, MaxBinLog, \* BinTable: the smallest and the largest bin
    Alignment,            \* payloadAlignment
    HeaderBytes,          \* sizeof(BlockHeader), 16 in the source
    SegmentTargetBytes,   \* SEGMENT_TARGET_BYTES, 256K in the source
    CacheBytesPerBin,     \* CACHE_BYTES_PER_BIN, 64K
    CacheCapBlockLimit,   \* CACHE_CAP_BLOCK_LIMIT, 512
    CacheCapMinBlocks,    \* CACHE_CAP_MIN_BLOCKS, 4
    BatchesPerCache       \* the 4 of "cap / 4"

ASSUME BinsAssumption ==
    /\ MinBinLog \in Nat /\ MaxBinLog \in Nat /\ MinBinLog <= MaxBinLog
    /\ Alignment \in Nat \ {0} /\ HeaderBytes \in Nat
    /\ SegmentTargetBytes \in Nat
    /\ CacheBytesPerBin \in Nat /\ CacheCapBlockLimit \in Nat
    /\ BatchesPerCache \in Nat \ {0}
    /\ CacheCapMinBlocks \in Nat /\ CacheCapMinBlocks >= BatchesPerCache

Bins == 0 .. MaxBinLog - MinBinLog

AlignUpSize(value) == ((value + Alignment - 1) \div Alignment) * Alignment

BlockSize(bin) == 2 ^ (MinBinLog + bin)

(* A power of two is positive, which the provers do not know.              *)
ASSUME BlockSizeAssumption == \A bin \in Bins : BlockSize(bin) > 0

(* The space one block takes in its segment, header included.              *)
Stride(bin) == AlignUpSize(AlignUpSize(HeaderBytes) + BlockSize(bin))

(* MakeBinSpec.  Bins whose blocks are so large that few would fit have no *)
(* thread cache: a limit of 0, and blocks travel one at a time.            *)
CacheCap(bin) ==
    LET fits == CacheBytesPerBin \div BlockSize(bin)
        cap  == IF fits > CacheCapBlockLimit THEN CacheCapBlockLimit ELSE fits
    IN  IF cap < CacheCapMinBlocks THEN 0 ELSE cap

Batch(bin) ==
    IF CacheCap(bin) >= CacheCapMinBlocks
    THEN CacheCap(bin) \div BatchesPerCache ELSE 1

BlocksPerSegment(bin) ==
    LET fits == SegmentTargetBytes \div Stride(bin)
        two  == IF fits < 2 * Batch(bin) THEN 2 * Batch(bin) ELSE fits
    IN  IF two < 2 THEN 2 ELSE two

(* BinTable::BinOf: the position of the highest bit of (size - 1) | minMask*)
(* counts the doublings of the smallest block that size needs.  A result   *)
(* outside Bins is a request over the largest bin.                         *)
BinOf(size) ==
    CHOOSE bin \in 0 .. size :
        /\ size <= BlockSize(bin)
        /\ \A smaller \in 0 .. bin - 1 : size > BlockSize(smaller)
=============================================================================
