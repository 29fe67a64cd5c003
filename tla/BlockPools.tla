----------------------------- MODULE BlockPools -----------------------------
(***************************************************************************)
(* The two-level memory pool of the engine (TlsMemoryPool).                *)
(*                                                                         *)
(* Acquire takes a block from the free list of the calling thread, Release *)
(* puts one onto the list of whichever thread calls it; neither locks.     *)
(* Whole chunks of blocks travel between these caches and the lists of the *)
(* GlobalBlockPool, lock-free stacks of chunks, and a segment is mapped,   *)
(* under the lock of its bin, when a stack is empty.  ThreadCacheRegistry  *)
(* knows the caches.  A cache is taken apart by its thread on exit (the    *)
(* callback of the FLS slot), or by Finalize, whoever marks it first.      *)
(* Finalize returns the segments to the system only if the counters say    *)
(* that no block is out; the same pool may then be initialized again.      *)
(*                                                                         *)
(* A step is one interlocked operation, one critical section or a stretch  *)
(* on data of the own thread.  Left out: statistics, the requests over the *)
(* largest bin (a HeapAlloc and a HeapFree each), and the magic of a block *)
(* (a thread never gives back what it does not have).                      *)
(***************************************************************************)
EXTENDS SizeBins, Sequences, FiniteSets, SequencesExt, Functions

CONSTANTS
    Users,        \* threads that use the pool
    Main,         \* the thread that initializes and finalizes it
    Sizes,        \* sizes that are asked for
    Initial,      \* BinConfig::blockCount of each bin
    CommitLimit,  \* SetCommitLimit, 0 for none
    SlotsOfLife,  \* what AcquireSlot may find in each life: fast slots, NoSlot
    NoSlot,       \* UINT32_MAX, and the tag POOL_ID_NONE
    NoThread,     \* no lock owner, no cache to detach
    MaxSegments,  \* bound: segments that one life of the pool maps
    MaxBalance,   \* bound: acquires of a cache minus its releases
    MaxLives      \* bound: calls of Initialize

Threads == Users \cup {Main}

ASSUME ThreadsAssumption == Main \notin Users /\ NoThread \notin Threads
ASSUME PoolAssumption ==
    /\ Initial \in [Bins -> Nat] /\ CommitLimit \in Nat
    /\ MaxSegments \in Nat /\ MaxBalance \in Nat /\ MaxLives \in Nat
    /\ DOMAIN SlotsOfLife = 1 .. MaxLives
    /\ \A size \in Sizes : BinOf(size) \in Bins

VARIABLES
    (* GlobalBlockPool *)
    blocks,     \* every block ever carved: its bin and the life of its segment
    stock,      \* the chunks in the list of each bin, the last pushed first
    growLock,   \* who holds the growLock of each bin
    committed,  \* m_committedBytes
    segments,   \* segments mapped in this life
    (* ThreadCacheRegistry *)
    life,       \* the generation counter of the process
    generation, \* m_generation, 0 when not initialized
    tags,       \* m_slotIndex of each life, and with it the tag of its blocks
    registered, \* the list from m_head
    retired,    \* m_retiredAcquire - m_retiredRelease
    flsOpen,    \* the callback is registered
    (* the cache of each thread, the last one it had *)
    cache,      \* "none", "live", "marked" (m_detached) or "freed"
    list,       \* m_lists
    balance,    \* m_acquireCount - m_releaseCount
    slot,       \* the generation in t_slots
    fls,        \* the FLS value is set
    (* the threads *)
    pc, ret,    \* where a thread is, and where it goes on after Detach
    bin,        \* the bin it works on
    todo,       \* chunks of a new segment not yet pushed
    victim,     \* the cache it detaches
    (* ghosts *)
    out,        \* blocks that callers have
    lost,       \* blocks whose release was refused
    buried,     \* blocks that were in the pool when it was finalized
    unmapped    \* lives whose segments went back to the system

global   == <<blocks, stock, growLock, committed, segments>>
registry == <<life, generation, tags, registered, retired, flsOpen>>
caches   == <<cache, list, balance, slot, fls>>
locals   == <<pc, ret, bin, todo, victim>>
ghosts   == <<out, lost, buried, unmapped>>
vars     == <<global, registry, caches, locals, ghosts>>

Ids == 1 .. Len(blocks)
EmptyLists == [b \in Bins |-> <<>>]
InUse == pc[Main] = "open"
Tag(b) == tags[blocks[b].life]
BytesOf(b, count) == Stride(b) * count

PCs == {"idle", "gone", "pop", "lock", "grow", "map", "carve", "last", "orphan",
        "detach", "flush", "free", "closed", "open", "fls", "sweep", "close"}

(* All fields hold what they are for; a cache never keeps more blocks than *)
(* the limit of its bin (ThreadBlockCache::Push).                          *)
TypeOK ==
    /\ \A b \in Ids : blocks[b] \in [bin : Bins, life : 1 .. life]
    /\ \A b \in Bins : stock[b] \in Seq(Seq(Ids) \ {<<>>})
    /\ growLock \in [Bins -> Users \cup {NoThread}]
    /\ committed \in Nat /\ segments \in 0 .. MaxSegments
    /\ life \in 0 .. MaxLives /\ generation \in {0, life}
    /\ tags \in Seq((UNION Range(SlotsOfLife)) \cup {NoSlot}) /\ Len(tags) = life
    /\ registered \in Seq(Users) /\ retired \in Int /\ flsOpen \in BOOLEAN
    /\ cache \in [Users -> {"none", "live", "marked", "freed"}]
    /\ \A t \in Users, b \in Bins :
          list[t][b] \in Seq(Ids) /\ Len(list[t][b]) <= CacheCap(b)
    /\ balance \in [Users -> Int] /\ slot \in [Users -> 0 .. life]
    /\ fls \in [Users -> BOOLEAN]
    /\ pc \in [Threads -> PCs] /\ ret \in [Threads -> PCs]
    /\ bin \in [Threads -> Bins]
    /\ \A t \in Users : todo[t] \in Seq(Seq(Ids))
    /\ victim \in [Threads -> Users \cup {NoThread}]
    /\ out \subseteq Ids /\ lost \subseteq Ids /\ buried \subseteq Ids
    /\ unmapped \subseteq 1 .. life

Init ==
    /\ blocks = <<>> /\ stock = EmptyLists /\ committed = 0 /\ segments = 0
    /\ growLock = [b \in Bins |-> NoThread]
    /\ life = 0 /\ generation = 0 /\ tags = <<>> /\ registered = <<>>
    /\ retired = 0 /\ flsOpen = FALSE
    /\ cache = [t \in Users |-> "none"] /\ list = [t \in Users |-> EmptyLists]
    /\ balance = [t \in Users |-> 0] /\ slot = [t \in Users |-> 0]
    /\ fls = [t \in Users |-> FALSE]
    /\ pc = [t \in Threads |-> IF t = Main THEN "closed" ELSE "idle"]
    /\ ret = [t \in Threads |-> "idle"] /\ bin = [t \in Threads |-> 0]
    /\ todo = [t \in Threads |-> <<>>]
    /\ victim = [t \in Threads |-> NoThread]
    /\ out = {} /\ lost = {} /\ buried = {} /\ unmapped = {}

Goto(t, to) == pc' = [pc EXCEPT ![t] = to]

-----------------------------------------------------------------------------
(* The calling thread's cache.                                             *)

(* GetOrCreate finds a cache in the thread's slot when the generation is   *)
(* the registry's; a pool without a slot asks FLS.                         *)
Found(t) ==
    IF tags[life] # NoSlot THEN slot[t] = generation ELSE fls[t]

(* Attach, on the first use of the pool by the thread.                     *)
Attach(t) ==
    /\ cache' = [cache EXCEPT ![t] = "live"]
    /\ registered' = <<t>> \o registered
    /\ slot' = IF tags[life] = NoSlot THEN slot
               ELSE [slot EXCEPT ![t] = generation]
    /\ fls' = [fls EXCEPT ![t] = TRUE]

GetOrCreate(t) ==
    \/ Found(t) /\ UNCHANGED <<cache, registered, slot, fls>>
    \/ ~Found(t) /\ Attach(t)

(* The head of chunk goes to the caller, the rest is the thread's list: it *)
(* was that list before, or Refill has just put it there.                  *)
HandOut(t, b, chunk) ==
    /\ list' = [list EXCEPT ![t][b] = Tail(chunk)]
    /\ balance' = [balance EXCEPT ![t] = @ + 1]
    /\ out' = out \cup {Head(chunk)}

-----------------------------------------------------------------------------
(* Acquire.                                                                *)

(* From the thread's own list, or on to the global pool.  When no cache    *)
(* can be made Acquire fails and changes nothing.                          *)
Acquire(t, size) ==
    LET b == BinOf(size) IN
    /\ InUse /\ pc[t] = "idle" /\ balance[t] < MaxBalance
    /\ GetOrCreate(t)
    /\ \/ /\ list[t][b] # <<>>
          /\ HandOut(t, b, list[t][b])
          /\ UNCHANGED <<bin, pc>>
       \/ /\ list[t][b] = <<>>
          /\ bin' = [bin EXCEPT ![t] = b]
          /\ Goto(t, "pop")
          /\ UNCHANGED <<list, balance, out>>
    /\ UNCHANGED <<global, life, generation, tags, retired, flsOpen, ret, todo,
                   victim, lost, buried, unmapped>>

(* PopChunk takes a chunk from the stack of the bin without a lock.        *)
PopChunk(t) ==
    LET b == bin[t] IN
    /\ pc[t] = "pop"
    /\ \/ /\ stock[b] # <<>>
          /\ stock' = [stock EXCEPT ![b] = Tail(@)]
          /\ HandOut(t, b, Head(stock[b]))
          /\ Goto(t, "idle")
       \/ /\ stock[b] = <<>>
          /\ Goto(t, "lock")
          /\ UNCHANGED <<stock, list, balance, out>>
    /\ UNCHANGED <<blocks, growLock, committed, segments, registry, cache, slot,
                   fls, ret, bin, todo, victim, lost, buried, unmapped>>

(* With growLock it looks again, for another thread may have grown the bin *)
(* meanwhile.                                                              *)
PopOrGrow(t) ==
    LET b == bin[t] IN
    /\ pc[t] = "lock" /\ growLock[b] = NoThread
    /\ \/ /\ stock[b] # <<>>
          /\ stock' = [stock EXCEPT ![b] = Tail(@)]
          /\ HandOut(t, b, Head(stock[b]))
          /\ Goto(t, "idle")
          /\ UNCHANGED growLock
       \/ /\ stock[b] = <<>>
          /\ growLock' = [growLock EXCEPT ![b] = t]
          /\ Goto(t, "grow")
          /\ UNCHANGED <<stock, list, balance, out>>
    /\ UNCHANGED <<blocks, committed, segments, registry, cache, slot, fls, ret,
                   bin, todo, victim, lost, buried, unmapped>>

-----------------------------------------------------------------------------
(* GrowLocked.                                                             *)

(* The commit limit is compared with the bytes of all bins, though the     *)
(* lock held is that of one.                                               *)
CheckLimit(t) ==
    /\ pc[t] = "grow"
    /\ \/ /\ \/ CommitLimit = 0
             \/ committed + BytesOf(bin[t], BlocksPerSegment(bin[t])) <= CommitLimit
          /\ Goto(t, "map")
          /\ UNCHANGED growLock
       \/ /\ CommitLimit # 0
          /\ committed + BytesOf(bin[t], BlocksPerSegment(bin[t])) > CommitLimit
          /\ Goto(t, "idle")
          /\ growLock' = [growLock EXCEPT ![bin[t]] = NoThread]
    /\ UNCHANGED <<blocks, stock, committed, segments, registry, caches, ret,
                   bin, todo, victim, ghosts>>

(* The new ids of a segment, in chunks of a batch, the last maybe shorter. *)
(* CarveAndPush links each block before the one carved before it.          *)
Chunks(first, b, count) ==
    LET size == Batch(b)
        n    == (count + size - 1) \div size
        last(i) == IF i = n THEN count ELSE i * size
    IN  [i \in 1 .. n |->
            [j \in 1 .. last(i) - (i - 1) * size |-> first + last(i) - j]]

NewBlocks(b, count) == [i \in 1 .. count |-> [bin |-> b, life |-> life]]

(* VirtualAlloc gives a segment or not, nor need the array of segments     *)
(* grow; the segment is recorded and counted before it is carved.          *)
MapSegment(t) ==
    LET count == BlocksPerSegment(bin[t]) IN
    /\ pc[t] = "map"
    /\ \/ /\ segments < MaxSegments
          /\ segments' = segments + 1
          /\ committed' = committed + BytesOf(bin[t], count)
          /\ blocks' = blocks \o NewBlocks(bin[t], count)
          /\ todo' = [todo EXCEPT ![t] = Chunks(Len(blocks) + 1, bin[t], count)]
          /\ Goto(t, "carve")
          /\ UNCHANGED growLock
       \/ /\ Goto(t, "idle")
          /\ growLock' = [growLock EXCEPT ![bin[t]] = NoThread]
          /\ UNCHANGED <<segments, committed, blocks, todo>>
    /\ UNCHANGED <<stock, registry, caches, ret, bin, victim, ghosts>>

CarveAndPush(t) ==
    /\ pc[t] = "carve"
    /\ stock' = [stock EXCEPT ![bin[t]] = <<Head(todo[t])>> \o @]
    /\ todo' = [todo EXCEPT ![t] = Tail(@)]
    /\ Goto(t, IF Len(todo[t]) = 1 THEN "last" ELSE "carve")
    /\ UNCHANGED <<blocks, growLock, committed, segments, registry, caches, ret,
                   bin, victim, ghosts>>

(* The last pop before the lock is left.  It fails when threads that need  *)
(* no lock have taken all the new chunks.                                  *)
PopGrown(t) ==
    LET b == bin[t] IN
    /\ pc[t] = "last"
    /\ \/ /\ stock[b] # <<>>
          /\ stock' = [stock EXCEPT ![b] = Tail(@)]
          /\ HandOut(t, b, Head(stock[b]))
       \/ /\ stock[b] = <<>>
          /\ UNCHANGED <<stock, list, balance, out>>
    /\ growLock' = [growLock EXCEPT ![b] = NoThread]
    /\ Goto(t, "idle")
    /\ UNCHANGED <<blocks, committed, segments, registry, cache, slot, fls, ret,
                   bin, todo, victim, lost, buried, unmapped>>

-----------------------------------------------------------------------------
(* Release.                                                                *)

Take(s, n) == SubSeq(s, 1, n)
Drop(s, n) == SubSeq(s, n + 1, Len(s))
PushChunk(b, chunk) == stock' = [stock EXCEPT ![b] = <<chunk>> \o @]

(* Push: the block goes to the front of the thread's list.  A list over    *)
(* the limit sends its first batch to the global pool.                     *)
Push(t, b, block) ==
    LET grown == <<block>> \o list[t][b] IN
    /\ balance' = [balance EXCEPT ![t] = @ - 1]
    /\ \/ /\ Len(grown) <= CacheCap(b)
          /\ list' = [list EXCEPT ![t][b] = grown]
          /\ UNCHANGED stock
       \/ /\ Len(grown) > CacheCap(b)
          /\ list' = [list EXCEPT ![t][b] = Drop(grown, Batch(b))]
          /\ PushChunk(b, Take(grown, Batch(b)))

Accepts(block) == InUse /\ Tag(block) \in {NoSlot, tags[life]}

(* A block comes back.  Without a cache it goes to the global pool as a    *)
(* chunk of its own.                                                       *)
Release(t, block) ==
    LET b == blocks[block].bin IN
    /\ pc[t] = "idle" /\ Accepts(block)
    /\ out' = out \ {block}
    /\ \/ /\ GetOrCreate(t)
          /\ Push(t, b, block)
          /\ UNCHANGED pc
       \/ /\ ~Found(t)
          /\ PushChunk(b, <<block>>)
          /\ Goto(t, "orphan")
          /\ UNCHANGED <<caches, registered>>
    /\ UNCHANGED <<blocks, growLock, committed, segments, life, generation, tags,
                   retired, flsOpen, ret, bin, todo, victim, lost, buried,
                   unmapped>>

(* Faulty variant: the release is not counted anywhere.                    *)
NoteOrphanReleaseUncounted(t) ==
    /\ pc[t] = "orphan"
    /\ Goto(t, "idle")
    /\ UNCHANGED <<global, registry, caches, ret, bin, todo, victim, ghosts>>

NoteOrphanRelease(t) ==
    /\ pc[t] = "orphan"
    /\ retired' = retired - 1
    /\ Goto(t, "idle")
    /\ UNCHANGED <<global, life, generation, tags, registered, flsOpen, caches,
                   ret, bin, todo, victim, ghosts>>

(* A release is refused, and the block stays out for ever, when the pool   *)
(* is not initialized, or the block bears the tag of another slot.         *)
ReleaseRefused(t, block) ==
    /\ pc[t] = "idle" /\ pc[Main] \in {"open", "closed"} /\ ~Accepts(block)
    /\ out' = out \ {block}
    /\ lost' = lost \cup {block}
    /\ UNCHANGED <<global, registry, caches, locals, buried, unmapped>>

-----------------------------------------------------------------------------
(* Taking a cache apart: Detach, run by the exiting thread and by Main.    *)

(* The thread ends.  The system calls OnThreadExit if the FLS value is     *)
(* set and the slot still registered.                                      *)
ThreadExit(t) ==
    /\ pc[t] = "idle"
    /\ IF fls[t] /\ flsOpen
       THEN /\ victim' = [victim EXCEPT ![t] = t]
            /\ ret' = [ret EXCEPT ![t] = "gone"]
            /\ Goto(t, "detach")
       ELSE Goto(t, "gone") /\ UNCHANGED <<victim, ret>>
    /\ fls' = [fls EXCEPT ![t] = FALSE]
    /\ UNCHANGED <<global, registry, cache, list, balance, slot, bin, todo,
                   ghosts>>

(* Back from Detach.                                                       *)
Leave(t) ==
    /\ Goto(t, ret[t])
    /\ ret' = [ret EXCEPT ![t] = "idle"]
    /\ victim' = [victim EXCEPT ![t] = NoThread]

(* The exchange of m_detached.  Whoever loses leaves the cache alone: a    *)
(* thread is gone, Main looks at the list again.  m_detached of a cache    *)
(* that was freed meanwhile is taken to read 1 still.                      *)
Detach(t) ==
    LET v == victim[t] IN
    /\ pc[t] = "detach"
    /\ \/ /\ cache[v] = "live"
          /\ cache' = [cache EXCEPT ![v] = "marked"]
          /\ Goto(t, "flush")
          /\ UNCHANGED <<ret, victim>>
       \/ /\ cache[v] # "live"
          /\ Leave(t)
          /\ UNCHANGED cache
    /\ UNCHANGED <<global, registry, list, balance, slot, fls, bin, todo,
                   ghosts>>

Cached(v) == {b \in Bins : list[v][b] # <<>>}

(* FlushAll: every list of the cache, a chunk at a time.                   *)
FlushAll(t) ==
    LET v == victim[t]
        b == CHOOSE c \in Cached(v) : \A d \in Cached(v) : c <= d
        n == IF Batch(b) > Len(list[v][b]) THEN Len(list[v][b]) ELSE Batch(b)
    IN
    /\ pc[t] = "flush" /\ Cached(v) # {}
    /\ PushChunk(b, Take(list[v][b], n))
    /\ list' = [list EXCEPT ![v][b] = Drop(@, n)]
    /\ UNCHANGED <<blocks, growLock, committed, segments, registry, cache, balance,
                   slot, fls, locals, ghosts>>

(* Faulty variants: a cache taken off the list with its blocks in it; one  *)
(* that stays on the list.                                                 *)
UnlinkUnflushed(t) ==
    LET v == victim[t] IN
    /\ pc[t] = "flush"
    /\ \E i \in DOMAIN registered :
          registered[i] = v /\ registered' = RemoveAt(registered, i)
    /\ retired' = retired + balance[v]
    /\ balance' = [balance EXCEPT ![v] = 0]
    /\ Goto(t, "free")
    /\ UNCHANGED <<global, life, generation, tags, flsOpen, cache, list, slot, fls,
                   ret, bin, todo, victim, ghosts>>

UnlinkStaying(t) ==
    LET v == victim[t] IN
    /\ pc[t] = "flush" /\ Cached(v) = {}
    /\ retired' = retired + balance[v]
    /\ balance' = [balance EXCEPT ![v] = 0]
    /\ Goto(t, "free")
    /\ UNCHANGED <<global, life, generation, tags, registered, flsOpen, cache, list,
                   slot, fls, ret, bin, todo, victim, ghosts>>

(* The cache leaves the list, and what it counted stays with the registry. *)
Unlink(t) ==
    LET v == victim[t] IN
    /\ pc[t] = "flush" /\ Cached(v) = {}
    /\ \E i \in DOMAIN registered :
          registered[i] = v /\ registered' = RemoveAt(registered, i)
    /\ retired' = retired + balance[v]
    /\ balance' = [balance EXCEPT ![v] = 0]
    /\ Goto(t, "free")
    /\ UNCHANGED <<global, life, generation, tags, flsOpen, cache, list, slot, fls,
                   ret, bin, todo, victim, ghosts>>

(* The slot is cleared if it is the own one; then HeapFree.                *)
FreeCache(t) ==
    LET v == victim[t] IN
    /\ pc[t] = "free"
    /\ cache' = [cache EXCEPT ![v] = "freed"]
    /\ slot' = IF v = t THEN [slot EXCEPT ![v] = 0] ELSE slot
    /\ Leave(t)
    /\ UNCHANGED <<global, registry, list, balance, fls, bin, todo, ghosts>>

-----------------------------------------------------------------------------
(* Initialize and Finalize.                                                *)

(* The segments that Preallocate maps, whatever the commit limit.          *)
Preallocated(b) ==
    IF Initial[b] = 0 THEN 0
    ELSE IF Initial[b] > BlocksPerSegment(b) THEN Initial[b]
    ELSE BlocksPerSegment(b)

(* The blocks of the bins follow one another.                              *)
Below(b) ==
    FoldFunctionOnSet(+, 0, [c \in Bins |-> Preallocated(c)], 0 .. b - 1)

FirstOf(b) == Len(blocks) + 1 + Below(b)

InitialBlocks ==
    [i \in 1 .. Below(MaxBinLog - MinBinLog + 1) |->
        [bin  |-> CHOOSE b \in Bins : Below(b) < i /\ i <= Below(b + 1),
         life |-> life + 1]]

(* Neither Finalize nor Initialize touches the counters of the pooled      *)
(* blocks; those of the requests over the largest bin start again.         *)
(* Faulty variant: all of them start again.                                *)
ResetCounters == retired' = 0

KeepCounters == UNCHANGED retired

(* Initialize: a slot if one is free, a new generation, an FLS index, and  *)
(* the configured blocks.  A failure undoes it all.                        *)
Initialize ==
    /\ pc[Main] = "closed" /\ life < MaxLives
    /\ life' = life + 1
    /\ \/ /\ generation' = life + 1
          /\ \E s \in SlotsOfLife[life + 1] : tags' = Append(tags, s)
          /\ flsOpen' = TRUE
          /\ blocks' = blocks \o InitialBlocks
          /\ stock' = [b \in Bins |->
                Reverse(Chunks(FirstOf(b), b, Preallocated(b)))]
          /\ committed' = FoldFunction(+, 0,
                [b \in Bins |-> BytesOf(b, Preallocated(b))])
          /\ Goto(Main, "open")
       \/ /\ tags' = Append(tags, NoSlot)
          /\ UNCHANGED <<generation, flsOpen, blocks, stock, committed, pc>>
    /\ KeepCounters
    /\ UNCHANGED <<growLock, segments, registered, caches, ret, bin, todo,
                   victim, ghosts>>

(* Threads of the next life start with empty slots.                        *)
ThreadStart(t) ==
    /\ pc[Main] = "closed" /\ pc[t] = "gone"
    /\ cache[t] \in {"none", "freed"}
    /\ cache' = [cache EXCEPT ![t] = "none"]
    /\ slot' = [slot EXCEPT ![t] = 0]
    /\ Goto(t, "idle")
    /\ UNCHANGED <<global, registry, list, balance, fls, ret, bin, todo,
                   victim, ghosts>>

(* Finalize is called when nobody allocates any more; threads may be on    *)
(* their way out.                                                          *)
Finalize ==
    /\ InUse
    /\ \A t \in Users :
          pc[t] \in {"idle", "gone", "detach", "flush", "free"}
    /\ Goto(Main, "fls")
    /\ UNCHANGED <<global, registry, caches, ret, bin, todo, victim, ghosts>>

(* FlsFree closes the callback.  The system may call it first for values   *)
(* that are still set; a callback already running goes on.                 *)
FlsFree ==
    /\ pc[Main] = "fls"
    /\ \/ \E t \in Users :
             /\ fls[t]
             /\ fls' = [fls EXCEPT ![t] = FALSE]
             /\ victim' = [victim EXCEPT ![Main] = t]
             /\ ret' = [ret EXCEPT ![Main] = "fls"]
             /\ Goto(Main, "detach")
             /\ UNCHANGED flsOpen
       \/ /\ flsOpen' = FALSE
          /\ fls' = [t \in Users |-> FALSE]
          /\ Goto(Main, "sweep")
          /\ UNCHANGED <<victim, ret>>
    /\ UNCHANGED <<global, life, generation, tags, registered, retired, cache,
                   list, balance, slot, bin, todo, ghosts>>

(* Faulty variant: a cache that another thread takes apart is not waited   *)
(* for.                                                                    *)
SweepUnwaiting ==
    /\ pc[Main] = "sweep"
    /\ IF registered = <<>> \/ cache[Head(registered)] = "marked"
       THEN Goto(Main, "close") /\ UNCHANGED <<victim, ret>>
       ELSE /\ victim' = [victim EXCEPT ![Main] = Head(registered)]
            /\ ret' = [ret EXCEPT ![Main] = "sweep"]
            /\ Goto(Main, "detach")
    /\ UNCHANGED <<global, registry, caches, bin, todo, ghosts>>

(* The loop of ThreadCacheRegistry::Finalize: the head of the list, until  *)
(* there is none.                                                          *)
Sweep ==
    /\ pc[Main] = "sweep"
    /\ \/ /\ registered = <<>>
          /\ Goto(Main, "close")
          /\ UNCHANGED <<victim, ret>>
       \/ /\ registered # <<>>
          /\ victim' = [victim EXCEPT ![Main] = Head(registered)]
          /\ ret' = [ret EXCEPT ![Main] = "sweep"]
          /\ Goto(Main, "detach")
    /\ UNCHANGED <<global, registry, caches, bin, todo, ghosts>>

Pooled == UNION {UNION {Range(c) : c \in Range(stock[b])} : b \in Bins}

(* The segments go back to the system if the counters balance, else they   *)
(* stay mapped and are forgotten.                                          *)
Close ==
    /\ pc[Main] = "close"
    /\ unmapped' = IF retired = 0 THEN unmapped \cup {life} ELSE unmapped
    /\ generation' = 0
    /\ stock' = EmptyLists /\ committed' = 0 /\ segments' = 0
    /\ buried' = buried \cup Pooled
    /\ Goto(Main, "closed")
    /\ UNCHANGED <<blocks, growLock, life, tags, registered, retired, flsOpen,
                   caches, ret, bin, todo, victim, out, lost>>

-----------------------------------------------------------------------------
DetachStep(t) == Detach(t) \/ FlushAll(t) \/ Unlink(t) \/ FreeCache(t)

UserStep(t) ==
    \/ PopChunk(t) \/ PopOrGrow(t) \/ CheckLimit(t) \/ MapSegment(t)
    \/ CarveAndPush(t) \/ PopGrown(t) \/ NoteOrphanRelease(t) \/ DetachStep(t)

MainStep == FlsFree \/ Sweep \/ Close \/ DetachStep(Main)

Next ==
    \/ Initialize \/ Finalize \/ MainStep
    \/ \E t \in Users :
          \/ UserStep(t) \/ ThreadExit(t) \/ ThreadStart(t)
          \/ \E size \in Sizes : Acquire(t, size)
          \/ \E block \in out : Release(t, block) \/ ReleaseRefused(t, block)

(* Threads in the middle of a call, and Main in Finalize, go on.           *)
Fairness == WF_vars(MainStep) /\ \A t \in Users : WF_vars(UserStep(t))

Spec == Init /\ [][Next]_vars
FairSpec == Spec /\ Fairness

-----------------------------------------------------------------------------
(* Properties.                                                             *)

Attached == {t \in Users : cache[t] \in {"live", "marked"}}

(* Where a block can be: with a caller, given up, in a segment that was    *)
(* forgotten or returned, in the stack of a bin, in the cache of a thread, *)
(* or carried by a thread from its new segment to the stack.               *)
Places ==
    ({"out", "lost", "buried"} \X {NoThread}) \cup ({"stock"} \X Bins)
    \cup ({"cache", "carried"} \X Users)

BlocksOf(chunks) == UNION {Range(chunks[i]) : i \in DOMAIN chunks}

At(place) ==
    CASE place[1] = "out"     -> out
      [] place[1] = "lost"    -> lost
      [] place[1] = "buried"  -> buried
      [] place[1] = "stock"   -> BlocksOf(stock[place[2]])
      [] place[1] = "cache"   ->
            IF place[2] \in Attached THEN BlocksOf(list[place[2]]) ELSE {}
      [] place[1] = "carried" -> BlocksOf(todo[place[2]])

(* No block is in two of the chunks, or twice in one.                      *)
NoneTwice(chunks) ==
    \A i, j \in DOMAIN chunks :
        \A k \in DOMAIN chunks[i], l \in DOMAIN chunks[j] :
            chunks[i][k] = chunks[j][l] => i = j /\ k = l

(* No block is in two places and none is nowhere; and no list or stack has *)
(* a block twice.                                                          *)
BlocksConserved ==
    /\ UNION {At(p) : p \in Places} = Ids
    /\ \A p, q \in Places : p # q => At(p) \cap At(q) = {}
    /\ \A b \in Bins : NoneTwice(stock[b])
    /\ \A t \in Users : NoneTwice(list[t]) /\ NoneTwice(todo[t])

(* The sum by which Finalize decides is the number of blocks that have not *)
(* come back, of this life of the pool and of earlier ones.                *)
AccountsBalance ==
    retired + FoldFunctionOnSet(+, 0, balance, Range(registered))
      = Cardinality(out) + Cardinality(lost)
        + Cardinality({t \in Users : pc[t] = "orphan"})

(* Nobody has, keeps or is moving a block whose segment the system has     *)
(* back: a flush at thread exit is over before Finalize unmaps.            *)
UnmapIsSafe ==
    \A b \in Ids : blocks[b].life \in unmapped => b \in lost \cup buried

(* A pool never maps more than the limit, or what its configuration asks.  *)
CommitWithinLimit ==
    CommitLimit # 0 =>
        LET initial == FoldFunction(+, 0,
                           [b \in Bins |-> BytesOf(b, Preallocated(b))])
        IN  committed <= IF initial > CommitLimit THEN initial ELSE CommitLimit

Store == INSTANCE BlockStore WITH
    mapped <- {b \in Ids : blocks[b].life \notin unmapped}
IsBlockStore == Store!Spec

(* Finalize comes to an end, although it waits for threads on the way out. *)
FinalizeEnds == pc[Main] = "fls" ~> pc[Main] = "closed"
=============================================================================
