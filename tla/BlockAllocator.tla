--------------------------- MODULE BlockAllocator ---------------------------
(***************************************************************************)
(* ParlayLib's allocator of equal blocks                                   *)
(* (src/parlay/internal/block_allocator.h): a free list per thread, whole  *)
(* lists of L blocks moved between the threads through a global stack,     *)
(* new lists cut from buffers of the system.  The stack is hazptr_stack,   *)
(* used here as the atomic stack that HazptrStack shows it to be; all else *)
(* is local to a thread, so that an operation is split only at the stack.  *)
(* A block handed out belongs to the caller: its next is gone, and blocks  *)
(* out are interchangeable, so that the least of them is the one freed.    *)
(***************************************************************************)
EXTENDS Naturals, Sequences, FiniteSets

CONSTANTS NumThreadIds,         \* my_local_list has a list for each
          L,                    \* list_length, at least 2
          MaxLists, Nil

Block == 0 .. MaxLists * L - 1
ThreadId == 0 .. NumThreadIds - 1

ASSUME BlockAssumption ==
    /\ NumThreadIds \in Nat /\ MaxLists \in Nat
    /\ L \in Nat /\ L >= 2 /\ Nil \notin Block

VARIABLES nextBlock,            \* block::next of each free block
          local,                \* my_local_list
          global,               \* global_stack: the first block of each list
          buffers,              \* number of buffers allocated, blocks_allocated / L
          held,                 \* the blocks handed out
          fetched               \* the list a thread brings back from get_list

blockVars == <<nextBlock, local, global, buffers, held, fetched>>

BlockInit ==
    /\ nextBlock = [b \in Block |-> Nil]
    /\ local = [o \in ThreadId |-> [sz |-> 0, head |-> Nil, mid |-> Nil]]
    /\ global = <<>>
    /\ buffers = 0
    /\ held = {}
    /\ fetched = [o \in ThreadId |-> Nil]

(* A list without its first block.  Lists are read by count, and mid above *)
(* L + 1 blocks only: the stale head of an empty list and a stale mid,     *)
(* which the code keeps, are Nil here, so that TLC stops if one is used.  *)
Popped(l) == [head |-> IF l.sz = 1 THEN Nil ELSE nextBlock[l.head], sz |-> l.sz - 1,
              mid |-> IF l.sz - 1 > L + 1 THEN l.mid ELSE Nil]

\* alloc with a block at hand
Take(o) ==
    /\ fetched[o] = Nil /\ local[o].sz > 0
    /\ held' = held \cup {local[o].head}
    /\ local' = [local EXCEPT ![o] = Popped(@)]
    /\ nextBlock' = [nextBlock EXCEPT ![local[o].head] = Nil]
    /\ UNCHANGED <<global, buffers, fetched>>

\* alloc with an empty list: get_list takes one from the stack or cuts a buffer
GetList(o) ==
    /\ fetched[o] = Nil /\ local[o].sz = 0
    /\ \/ /\ global # <<>>
          /\ fetched' = [fetched EXCEPT ![o] = Head(global)] /\ global' = Tail(global)
          /\ UNCHANGED <<nextBlock, buffers>>
       \/ /\ global = <<>> /\ buffers < MaxLists
          /\ buffers' = buffers + 1
          /\ LET first == buffers * L
                 cut == first .. first + L - 1
             IN  /\ nextBlock' = [b \in Block |->
                        IF b \in cut THEN IF b + 1 \in cut THEN b + 1 ELSE Nil
                        ELSE nextBlock[b]]
                 /\ fetched' = [fetched EXCEPT ![o] = first]
          /\ UNCHANGED global
    /\ UNCHANGED <<local, held>>

(* "If this task got stolen during get_list(), the running thread may have *)
(* changed": the list is used by whoever runs the task now, and put on the *)
(* stack when that thread has blocks of its own.                           *)
UseList(o) ==
    /\ fetched[o] # Nil
    /\ fetched' = [fetched EXCEPT ![o] = Nil]
    /\ \E u \in ThreadId :
         LET l == IF local[u].sz = 0 THEN [local[u] EXCEPT !.head = fetched[o], !.sz = L]
                                     ELSE local[u]
         IN  /\ u = o \/ fetched[u] = Nil
             /\ global' = IF local[u].sz = 0 THEN global ELSE <<fetched[o]>> \o global
             /\ held' = held \cup {l.head}
             /\ local' = [local EXCEPT ![u] = Popped(l)]
             /\ nextBlock' = [nextBlock EXCEPT ![l.head] = Nil]
    /\ UNCHANGED buffers

(* free: the (L+1)-th block is remembered as mid; at 2L blocks those after *)
(* mid go to the stack.                                                    *)
FreeMarkingLate(o, b) ==        \* mutant: mid is the L-th block
    /\ fetched[o] = Nil /\ b \in held /\ \A c \in held : b <= c
    /\ LET l == local[o]
           mid == IF l.sz = L THEN l.head ELSE l.mid
           spill == l.sz = 2 * L
       IN  /\ nextBlock' = [c \in Block |-> IF c = b THEN l.head
                                            ELSE IF spill /\ c = mid THEN Nil
                                            ELSE nextBlock[c]]
           /\ global' = IF spill THEN <<nextBlock[mid]>> \o global ELSE global
           /\ local' = [local EXCEPT ![o] =
                          [head |-> b, mid |-> IF spill THEN Nil ELSE mid,
                           sz |-> (IF spill THEN L ELSE l.sz) + 1]]
    /\ held' = held \ {b}
    /\ UNCHANGED <<buffers, fetched>>

Free(o, b) ==
    /\ fetched[o] = Nil /\ b \in held /\ \A c \in held : b <= c
    /\ LET l == local[o]
           mid == IF l.sz = L + 1 THEN l.head ELSE l.mid
           spill == l.sz = 2 * L
       IN  /\ nextBlock' = [c \in Block |-> IF c = b THEN l.head
                                            ELSE IF spill /\ c = mid THEN Nil
                                            ELSE nextBlock[c]]
           /\ global' = IF spill THEN <<nextBlock[mid]>> \o global ELSE global
           /\ local' = [local EXCEPT ![o] =
                          [head |-> b, mid |-> IF spill THEN Nil ELSE mid,
                           sz |-> (IF spill THEN L ELSE l.sz) + 1]]
    /\ held' = held \ {b}
    /\ UNCHANGED <<buffers, fetched>>

SizesTo(n) ==                   \* of the first n threads' lists
    LET s[k \in 0 .. n] == IF k = 0 THEN 0 ELSE s[k - 1] + local[k - 1].sz
    IN  s[n]

NumUsedBlocks == buffers * L - (Len(global) * L + SizesTo(NumThreadIds))

(* clear: not concurrent with other operations; refused while blocks are   *)
(* out.  Of the local lists only sz is reset; what is left is stale.       *)
Clear ==
    /\ \A o \in ThreadId : fetched[o] = Nil
    /\ NumUsedBlocks = 0 /\ buffers > 0
    /\ local' = [o \in ThreadId |-> [sz |-> 0, head |-> Nil, mid |-> Nil]]
    /\ global' = <<>> /\ buffers' = 0
    /\ nextBlock' = [b \in Block |-> Nil]
    /\ UNCHANGED <<held, fetched>>

BlockNext ==
    \/ \E o \in ThreadId : Take(o) \/ GetList(o) \/ UseList(o) \/ \E b \in Block : Free(o, b)
    \/ Clear

BlockSpec == BlockInit /\ [][BlockNext]_blockVars
-----------------------------------------------------------------------------
\* The lists there may be, those of the stack numbered from its bottom; and those that
\* are not empty.
AnyListId == ({"local", "fetched"} \X ThreadId) \cup ({"global"} \X (1 .. Len(global)))

First(x) == CASE x[1] = "local"   -> local[x[2]].head
              [] x[1] = "fetched" -> fetched[x[2]]
              [] x[1] = "global"  -> global[Len(global) + 1 - x[2]]

SizeOf(x) == CASE x[1] = "local"   -> local[x[2]].sz
               [] x[1] = "fetched" -> IF fetched[x[2]] = Nil THEN 0 ELSE L
               [] x[1] = "global"  -> L

ListId == {x \in AnyListId : SizeOf(x) # 0}

\* The blocks met from b in n steps.
Walk(b, n) ==
    LET at[k \in 0 .. n] == IF k = 0 THEN b ELSE IF at[k - 1] = Nil THEN Nil ELSE nextBlock[at[k - 1]]
    IN  {at[k] : k \in 0 .. n - 1} \ {Nil}

\* Local lists are read by count, all others to their end.
On(x) == Walk(First(x), IF x[1] = "local" THEN SizeOf(x) ELSE L + 1)

(* No block is lost or in two places: it is handed out, on one thread's    *)
(* list, on one list of the stack, or on a list being brought back, and    *)
(* every list on the stack has exactly L blocks.  So used and free blocks  *)
(* add up to those allocated.                                              *)
BlocksAccounted ==
    /\ \A x \in ListId : /\ Cardinality(On(x)) = SizeOf(x)
                         /\ On(x) \cap held = {}
                         /\ \A y \in ListId \ {x} : On(x) \cap On(y) = {}
    /\ held \cup UNION {On(x) : x \in ListId} = 0 .. buffers * L - 1
=============================================================================
