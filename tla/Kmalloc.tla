------------------------------- MODULE Kmalloc -------------------------------
(***************************************************************************)
(* The kernel heap (kernel/kmalloc.cpp): memory cut into blocks of 32      *)
(* bytes and a chain of nodes, each a header block followed by its         *)
(* subblocks.  A node is found by walking from the first one; allocation   *)
(* takes the first free node that is big enough and splits it, freeing     *)
(* merges neighbours.  An address is the number of the block it lies in.   *)
(***************************************************************************)
EXTENDS Integers

CONSTANTS
  BlockCount,  (* block_count: the blocks in the heap area                 *)
  Requests     (* the sizes, in bytes, that callers ask for                *)

ASSUME HeapAssumption ==
  /\ BlockCount \in Nat \ {0}
  /\ Requests \subseteq Nat

VARIABLES
  blocks,  (* the chain: header position -> its free flag and subblocks    *)
  live,    (* what callers hold: position given out -> bytes asked for     *)
  panic    (* "none", or why the kernel stopped                            *)

vars == <<blocks, live, panic>>

BLOCK_SIZE           == 32
FIRST_BLOCK_CAPACITY == 16  (* BLOCK_SIZE - offsetof(AlignedBlock, align)  *)
SIZEOF_BLOCK         == 8   (* sizeof(Block): a bool and a 32-bit usize    *)

Index == 0..(BlockCount - 1)

Node == [free : BOOLEAN, subblocks : Index]

(* m_last_block = m_first_block + block_count: the sum counts in headers   *)
(* of 8 bytes, not in blocks of 32, and next_block gives null behind it.   *)
PastLastBlock(i) == BLOCK_SIZE * i > SIZEOF_BLOCK * BlockCount

(* Where next_block looks for the node behind b.                           *)
NextIndex(chain, b) == b + chain[b].subblocks + 1

(* Mutant: the last, incomplete block is not counted.                      *)
ExtraSubblocksRoundedDown(size) ==
  IF size < FIRST_BLOCK_CAPACITY THEN 0
  ELSE (size - FIRST_BLOCK_CAPACITY) \div BLOCK_SIZE

(* The blocks that a request needs behind the header's own 16 bytes.       *)
ExtraSubblocks(size) ==
  LET rest == size - FIRST_BLOCK_CAPACITY IN
  IF size < FIRST_BLOCK_CAPACITY THEN 0
  ELSE rest \div BLOCK_SIZE + (IF rest % BLOCK_SIZE # 0 THEN 1 ELSE 0)

Init ==
  /\ blocks = [b \in {0} |-> [free |-> TRUE, subblocks |-> BlockCount - 1]]
  /\ live = [p \in {} |-> 0]
  /\ panic = "none"

Fits(b, extra) == blocks[b].free /\ blocks[b].subblocks >= extra

FirstFit(b, extra) ==
  /\ Fits(b, extra)
  /\ \A c \in DOMAIN blocks : c < b => ~Fits(c, extra)

(* split, with the block then marked used.  A rest that would begin behind *)
(* m_last_block is left with the block.                                    *)
TakeBlock(b, extra) ==
  LET next  == b + extra + 1
      total == blocks[b].subblocks
      whole == [blocks EXCEPT ![b].free = FALSE]
      cut   == [i \in DOMAIN blocks \cup {next} |->
                  CASE i = b    -> [free |-> FALSE, subblocks |-> extra]
                    [] i = next -> [free |-> TRUE, subblocks |-> total - 1 - extra]
                    [] OTHER    -> blocks[i]]
  IN IF total = extra \/ PastLastBlock(next) THEN whole ELSE cut

Give(p, size) == [q \in DOMAIN live \cup {p} |-> IF q = p THEN size ELSE live[q]]

allocate(size) ==
  /\ panic = "none"
  /\ \E b \in DOMAIN blocks :
       /\ FirstFit(b, ExtraSubblocks(size))
       /\ blocks' = TakeBlock(b, ExtraSubblocks(size))
       /\ live' = Give(b, size)
  /\ UNCHANGED panic

AllocateNoSpace(size) ==
  /\ panic = "none"
  /\ \A b \in DOMAIN blocks : ~Fits(b, ExtraSubblocks(size))
  /\ panic' = "not enough heap space"
  /\ UNCHANGED <<blocks, live>>

(* Mutant: the node before is never merged with.                           *)
MergeFromSelf(first, p) == first = p

(* Where merging starts: at the node before p if that one is free.         *)
MergeFrom(first, p) ==
  \/ NextIndex(blocks, first) = p /\ blocks[first].free
  \/ /\ first = p
     /\ ~ \E q \in DOMAIN blocks : NextIndex(blocks, q) = p /\ blocks[q].free

(* Mutant: one node is absorbed at most.                                   *)
EndsAfterOne(chain, first, last) ==
  LET e == NextIndex(chain, first) IN
  last = IF ~PastLastBlock(e) /\ chain[e].free THEN e ELSE first

(* The last node that the loop of merge_blocks absorbs into first.         *)
EndsRun(chain, first, last) ==
  LET e == NextIndex(chain, last) IN
  /\ first <= last
  /\ \A d \in DOMAIN chain : first < d /\ d <= last => chain[d].free
  /\ ~PastLastBlock(e) => ~chain[e].free

(* Mutant: the header of the absorbed node is lost.                        *)
MergeLosingHeader(chain, first, last) ==
  [i \in {d \in DOMAIN chain : d <= first \/ d > last} |->
     IF i = first /\ first # last
     THEN [free |-> chain[i].free, subblocks |-> NextIndex(chain, last) - first - 2]
     ELSE chain[i]]

merge_blocks(chain, first, last) ==
  [i \in {d \in DOMAIN chain : d <= first \/ d > last} |->
     IF i = first
     THEN [free |-> chain[i].free, subblocks |-> NextIndex(chain, last) - first - 1]
     ELSE chain[i]]

(* Callers free what they were given and have not freed yet.               *)
deallocate(p) ==
  LET freed == [blocks EXCEPT ![p].free = TRUE] IN
  /\ panic = "none"
  /\ p \in DOMAIN live
  /\ p \in DOMAIN blocks
  /\ \E first, last \in DOMAIN blocks :
       /\ MergeFrom(first, p)
       /\ EndsRun(freed, first, last)
       /\ blocks' = merge_blocks(freed, first, last)
  /\ live' = [q \in DOMAIN live \ {p} |-> live[q]]
  /\ UNCHANGED panic

(* An address that the walk does not find stops the kernel.                *)
DeallocateUnknown(p) ==
  /\ panic = "none"
  /\ p \notin DOMAIN blocks
  /\ panic' = "deallocate unallocated address"
  /\ UNCHANGED <<blocks, live>>

(* KERNEL_PANIC does not return.                                           *)
Halted == panic # "none" /\ UNCHANGED vars

Next ==
  \/ \E size \in Requests : allocate(size) \/ AllocateNoSpace(size)
  \/ \E p \in Index : deallocate(p) \/ DeallocateUnknown(p)
  \/ Halted

Spec == Init /\ [][Next]_vars

-----------------------------------------------------------------------------

(* Headers lie in the heap and no node reaches out of it.                  *)
TypeOK ==
  /\ DOMAIN blocks \subseteq Index
  /\ blocks = [b \in DOMAIN blocks |-> blocks[b]]
  /\ \A b \in DOMAIN blocks : blocks[b] \in Node
  /\ DOMAIN live \subseteq Index
  /\ live = [p \in DOMAIN live |-> live[p]]
  /\ \A p \in DOMAIN live : live[p] \in Nat
  /\ panic \in {"none", "not enough heap space", "deallocate unallocated address"}

(* The chain that next_block walks covers the heap without a gap or an     *)
(* overlap: each node is followed by the header of the next one, and the   *)
(* walk stops exactly at the end of the heap, although m_last_block lies   *)
(* in its first quarter.                                                   *)
ChainTiles ==
  /\ 0 \in DOMAIN blocks
  /\ \A b \in DOMAIN blocks :
       LET next == NextIndex(blocks, b) IN
       IF PastLastBlock(next) THEN next = BlockCount ELSE next \in DOMAIN blocks
  /\ \A b, c \in DOMAIN blocks : b < c => NextIndex(blocks, b) <= c

(* deallocate leaves no two free nodes in a row (kmalloc.cpp:133).         *)
NoTwoFreeInARow ==
  \A b, c \in DOMAIN blocks :
    NextIndex(blocks, b) = c => ~(blocks[b].free /\ blocks[c].free)

(* The nodes in use are those callers hold, each big enough for what was   *)
(* asked: no caller's node is ever merged away or handed out again.        *)
UsedIsLive ==
  /\ DOMAIN live = {b \in DOMAIN blocks : ~blocks[b].free}
  /\ \A p \in DOMAIN live : ExtraSubblocks(live[p]) <= blocks[p].subblocks

(* allocate gives out no address that a caller still holds.                *)
NeverGivenTwice ==
  [][\A size \in Requests : allocate(size) => DOMAIN live' # DOMAIN live]_vars

DataStart(p) == BLOCK_SIZE * p + BLOCK_SIZE - FIRST_BLOCK_CAPACITY

(* What allocate promises its callers: the bytes of two allocations never  *)
(* overlap, none overlaps a header, and all lie in the heap.               *)
AllocationsDisjoint ==
  \A p \in DOMAIN live :
    /\ DataStart(p) + live[p] <= BLOCK_SIZE * BlockCount
    /\ \A q \in DOMAIN blocks : p < q => DataStart(p) + live[p] <= BLOCK_SIZE * q

(* test_kmalloc.cpp:12-26 asserts it after each of its sequences: once all *)
(* is freed, the heap is one free node again, in whatever order the        *)
(* allocations were freed.                                                 *)
AllFreedRestores ==
  DOMAIN live = {} =>
    blocks = [b \in {0} |-> [free |-> TRUE, subblocks |-> BlockCount - 1]]

=============================================================================
