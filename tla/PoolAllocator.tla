---------------------------- MODULE PoolAllocator ----------------------------
(***************************************************************************)
(* ParlayLib's allocator of buffers of any size                            *)
(* (src/parlay/internal/pool_allocator.h): one pool per power of two, of   *)
(* blocks below large_threshold and of a stack of buffers above it; and    *)
(* p_malloc / p_free (src/parlay/alloc.h), which put a header with the     *)
(* logarithm of the size and the offset before what they hand out.  The    *)
(* pools of small blocks are BlockAllocators, here a count of free ones.   *)
(***************************************************************************)
EXTENDS Naturals, Sequences, FiniteSets

CONSTANTS Sizes,                \* the pool sizes, increasing powers of two
          LargeThreshold, MaxAlignment,
          SizeBits,             \* of a size_t
          Requests, Aligns,     \* sizes and alignments asked for
          MaxOut                \* how many buffers are out at once

HeaderSize == 8
Pow2[k \in Nat] == IF k = 0 THEN 1 ELSE 2 * Pow2[k - 1]

\* Alignments are powers of two (asserted by p_malloc); a size and its padding
\* are added without overflow.
ASSUME PoolAssumption ==
    /\ Sizes \in Seq(Nat) /\ Len(Sizes) > 0 /\ \E k \in 0 .. Sizes[1] : Sizes[1] = Pow2[k]
    /\ \A i \in 2 .. Len(Sizes) : Sizes[i] = 2 * Sizes[i - 1]
    /\ MaxAlignment \in Nat \ {0} /\ MaxAlignment % HeaderSize = 0
    /\ SizeBits \in Nat /\ SizeBits > 6
    /\ Requests \subseteq 0 .. Pow2[SizeBits - 1]
    /\ Aligns \subseteq {Pow2[k] : k \in 0 .. SizeBits - 1}

VARIABLES pool,                 \* of each size, the buffers waiting to be used again
          given                 \* buffers in use: capacity, address, header

poolVars == <<pool, given>>

MaxSize == Sizes[Len(Sizes)]

Larger(x, y) == IF x >= y THEN x ELSE y
RoundUp(n, m) == m * ((n + m - 1) \div m)
\* log2_up: the least k with n <= 2^k
LogUp(n) == CHOOSE k \in 0 .. SizeBits : n <= Pow2[k] /\ (k = 0 \/ n > Pow2[k - 1])

Bucket(n) == CHOOSE i \in DOMAIN Sizes : n <= Sizes[i] /\ \A j \in 1 .. i - 1 : n > Sizes[j]

PaddingSize(n) ==
    IF n >= 1024 THEN 64
    ELSE IF n % 16 # 0 THEN 8 ELSE IF n % 64 # 0 THEN 16 ELSE 64

PoolInit ==
    /\ pool = [i \in DOMAIN Sizes |-> <<>>]
    /\ given = {}

\* The buffers that n bytes may get, at an address known modulo 256: from their
\* pool, or from the system when the pool is empty or n above all pools.
Waiting(n) == n <= MaxSize /\ pool[Bucket(n)] # <<>>
FromSystem(cap) == {[cap |-> cap, addr |-> a] : a \in {0, MaxAlignment}}
Obtained(n) ==
    IF Waiting(n) THEN {Head(pool[Bucket(n)])}
    ELSE IF n > MaxSize THEN FromSystem(RoundUp(n, MaxAlignment))
    ELSE FromSystem(IF Sizes[Bucket(n)] < LargeThreshold THEN Sizes[Bucket(n)]
                    ELSE RoundUp(Sizes[Bucket(n)], MaxAlignment))
Obtain(n) == pool' = IF Waiting(n) THEN [pool EXCEPT ![Bucket(n)] = Tail(@)] ELSE pool

\* n is the size given at deallocation, which selects the pool.
GiveTo(buffer, n) ==
    pool' = IF n > MaxSize THEN pool ELSE [pool EXCEPT ![Bucket(n)] = <<buffer>> \o @]

InUse(buffer, size, log, offset) ==
    [cap |-> buffer.cap, addr |-> buffer.addr, size |-> size, log |-> log, offset |-> offset]

Allocate ==                     \* allocator<T>::allocate, without a header
    /\ Cardinality(given) < MaxOut
    /\ \E n \in Requests : \E buffer \in Obtained(n) :
         Obtain(n) /\ given' = given \cup {InUse(buffer, n, 0, 0)}

PMallocPadded(size, pad) ==
    \E buffer \in Obtained(size + pad) :
       /\ Obtain(size + pad)
       /\ LET start == RoundUp(buffer.addr + HeaderSize, pad) - buffer.addr    \* std::align
          IN  given' = given \cup {InUse(buffer, size, LogUp(size + pad), start)}

PMalloc ==
    /\ Cardinality(given) < MaxOut
    /\ \E size \in Requests, align \in Aligns :
         PMallocPadded(size, Larger(PaddingSize(size), align))

DeallocateBySize ==             \* mutant: a header's logarithm is not looked at
    \E b \in given :
       /\ given' = given \ {b}
       /\ GiveTo([cap |-> b.cap, addr |-> b.addr], b.size)

Deallocate ==
    \E b \in given :
       /\ given' = given \ {b}
       /\ GiveTo([cap |-> b.cap, addr |-> b.addr], IF b.offset = 0 THEN b.size ELSE Pow2[b.log])

ClearPools == pool' = [i \in DOMAIN Sizes |-> IF Sizes[i] < LargeThreshold THEN pool[i] ELSE <<>>]
              /\ UNCHANGED given

PoolNext == Allocate \/ PMalloc \/ Deallocate \/ ClearPools

PoolSpec == PoolInit /\ [][PoolNext]_poolVars

-----------------------------------------------------------------------------
(* What is handed out fits: header and object lie inside the buffer.  A    *)
(* buffer returns to the pool it came from, although it is put there by    *)
(* the size, or the logarithm in its header, given when it is freed: pools *)
(* of blocks get only blocks of their size, others buffers large enough.   *)
BuffersFit ==
    /\ \A b \in given : /\ b.offset + b.size <= b.cap
                      /\ b.offset # 0 => b.offset >= HeaderSize
    /\ \A i \in DOMAIN Sizes : \A k \in DOMAIN pool[i] : 
          IF Sizes[i] < LargeThreshold THEN pool[i][k].cap = Sizes[i] ELSE pool[i][k].cap >= Sizes[i]
=============================================================================
