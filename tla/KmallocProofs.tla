---------------------------- MODULE KmallocProofs ----------------------------
(***************************************************************************)
(* For every heap size and every set of requests: the chain of nodes       *)
(* covers the heap, free neighbours are always merged, and what callers    *)
(* hold is never handed out twice.                                         *)
(***************************************************************************)
EXTENDS Kmalloc, TLAPS

(* The inductive invariant: merging is right only because the chain tiles  *)
(* the heap, and the chain keeps tiling it only because merging stops at   *)
(* used nodes and because those are the nodes that callers hold.           *)
HeapInv == TypeOK /\ ChainTiles /\ NoTwoFreeInARow /\ UsedIsLive

-----------------------------------------------------------------------------
(* Arithmetic.                                                             *)

(* The blocks computed for a request are enough for its bytes.             *)
LEMMA ExtraIsEnough ==
  ASSUME NEW size \in Nat
  PROVE  /\ ExtraSubblocks(size) \in Nat
         /\ size <= FIRST_BLOCK_CAPACITY + BLOCK_SIZE * ExtraSubblocks(size)
<1> DEFINE rest == size - 16
           quot == rest \div 32
           rem  == rest % 32
<1>1. CASE size < 16
  BY <1>1 DEF ExtraSubblocks, FIRST_BLOCK_CAPACITY, BLOCK_SIZE
<1>2. CASE ~(size < 16)
  <2>1. rest \in Nat
    BY <1>2
  <2>2. quot \in Nat /\ rem \in 0..31 /\ rest = 32 * quot + rem
    BY <2>1
  <2>3. ExtraSubblocks(size) = quot + (IF rem # 0 THEN 1 ELSE 0)
    BY <1>2 DEF ExtraSubblocks, FIRST_BLOCK_CAPACITY, BLOCK_SIZE
  <2>4. size = 16 + rest
    OBVIOUS
  <2> HIDE DEF rest, quot, rem
  <2> QED
    BY <2>1, <2>2, <2>3, <2>4 DEF FIRST_BLOCK_CAPACITY, BLOCK_SIZE
<1> QED
  BY <1>1, <1>2

(* The end of the heap lies behind m_last_block.                           *)
LEMMA EndIsPast == PastLastBlock(BlockCount) /\ BlockCount \in Nat /\ BlockCount > 0
BY HeapAssumption DEF PastLastBlock, BLOCK_SIZE, SIZEOF_BLOCK

-----------------------------------------------------------------------------
(* The shape of the chain.                                                 *)

(* Positions are numbers, a node ends at the end of the heap or where the  *)
(* next one begins, and only a node's successor can follow it.             *)
LEMMA ChainShape ==
  ASSUME TypeOK, ChainTiles, NEW b \in DOMAIN blocks
  PROVE  /\ b \in Nat /\ b < BlockCount
         /\ NextIndex(blocks, b) \in Nat
         /\ NextIndex(blocks, b) = b + blocks[b].subblocks + 1
         /\ blocks[b].subblocks \in Nat /\ blocks[b].free \in BOOLEAN
         /\ b < NextIndex(blocks, b) /\ NextIndex(blocks, b) <= BlockCount
         /\ NextIndex(blocks, b) = BlockCount \/ NextIndex(blocks, b) \in DOMAIN blocks
         /\ \A c \in DOMAIN blocks : b < c => NextIndex(blocks, b) <= c
<1>1. b \in Nat /\ b < BlockCount /\ blocks[b].subblocks \in Nat /\ blocks[b].free \in BOOLEAN
  <2>1. b \in Index /\ blocks[b] \in Node
    BY Zenon DEF TypeOK
  <2>2. blocks[b].subblocks \in Index /\ blocks[b].free \in BOOLEAN
    BY <2>1 DEF Node
  <2> QED
    BY <2>1, <2>2, EndIsPast DEF Index
<1>2. NextIndex(blocks, b) = b + blocks[b].subblocks + 1
  BY DEF NextIndex
<1>3. NextIndex(blocks, b) = BlockCount \/ NextIndex(blocks, b) \in DOMAIN blocks
  BY DEF ChainTiles
<1>4. NextIndex(blocks, b) <= BlockCount
  <2>1. DOMAIN blocks \subseteq Index
    BY DEF TypeOK
  <2> QED
    BY <1>1, <1>2, <1>3, <2>1, EndIsPast DEF Index
<1>5. \A c \in DOMAIN blocks : b < c => NextIndex(blocks, b) <= c
  BY DEF ChainTiles
<1> QED
  BY <1>1, <1>2, <1>3, <1>4, <1>5

-----------------------------------------------------------------------------
(* Initial states.                                                         *)

LEMMA HeapInit == Init => HeapInv
<1> SUFFICES ASSUME Init
             PROVE  HeapInv
  OBVIOUS
<1>1. /\ DOMAIN blocks = {0}
      /\ blocks[0] = [free |-> TRUE, subblocks |-> BlockCount - 1]
      /\ blocks = [b \in DOMAIN blocks |-> blocks[b]]
      /\ DOMAIN live = {} /\ live = [p \in DOMAIN live |-> live[p]]
  BY DEF Init
<1>2. NextIndex(blocks, 0) = BlockCount
  BY <1>1, EndIsPast DEF NextIndex
<1>3. TypeOK
  BY <1>1, EndIsPast DEF Init, TypeOK, Index, Node
<1>4. ChainTiles
  BY <1>1, <1>2, EndIsPast DEF ChainTiles
<1>5. NoTwoFreeInARow
  BY <1>1, <1>2, EndIsPast DEF NoTwoFreeInARow
<1>6. UsedIsLive
  BY <1>1 DEF UsedIsLive
<1> QED
  BY <1>3, <1>4, <1>5, <1>6 DEF HeapInv

-----------------------------------------------------------------------------
(* Allocation.                                                             *)

(* Taking a node whole only clears its free flag.                          *)
LEMMA TakeWhole ==
  ASSUME HeapInv, NEW size \in Nat, NEW b \in DOMAIN blocks,
         Fits(b, ExtraSubblocks(size)),
         blocks' = [blocks EXCEPT ![b].free = FALSE],
         live' = Give(b, size), panic' = panic
  PROVE  HeapInv'
<1>1. TypeOK /\ ChainTiles /\ NoTwoFreeInARow /\ UsedIsLive
  BY DEF HeapInv
<1>2. b \in Index /\ blocks[b] \in Node
  BY <1>1, Zenon DEF TypeOK
<1>3. /\ DOMAIN blocks' = DOMAIN blocks
      /\ blocks' = [d \in DOMAIN blocks' |-> blocks'[d]]
      /\ blocks'[b] = [free |-> FALSE, subblocks |-> blocks[b].subblocks]
      /\ \A d \in DOMAIN blocks : d # b => blocks'[d] = blocks[d]
  BY <1>1, <1>2 DEF TypeOK, Node
<1>4. /\ \A d \in DOMAIN blocks : blocks'[d].subblocks = blocks[d].subblocks
      /\ \A d \in DOMAIN blocks : NextIndex(blocks, d)' = NextIndex(blocks, d)
      /\ \A d \in DOMAIN blocks : ~blocks[d].free => ~blocks'[d].free
  BY <1>3, ZenonT(60) DEF NextIndex
<1>5. /\ DOMAIN live' = DOMAIN live \cup {b}
      /\ live' = [p \in DOMAIN live' |-> live'[p]]
      /\ live'[b] = size
      /\ \A p \in DOMAIN live : p # b => live'[p] = live[p]
  BY DEF Give
<1>6. TypeOK'
  <2>1. \A d \in DOMAIN blocks' : blocks'[d] \in Node
    BY <1>1, <1>2, <1>3 DEF TypeOK, Node
  <2>2. \A p \in DOMAIN live' : live'[p] \in Nat
    BY <1>1, <1>5 DEF TypeOK
  <2>3. DOMAIN blocks' \subseteq Index /\ DOMAIN live' \subseteq Index
    BY <1>1, <1>2, <1>3, <1>5 DEF TypeOK
  <2>4. panic' \in {"none", "not enough heap space", "deallocate unallocated address"}
    BY <1>1 DEF TypeOK
  <2> QED
    BY <1>3, <1>5, <2>1, <2>2, <2>3, <2>4 DEF TypeOK
<1>7. ChainTiles'
  BY <1>1, <1>3, <1>4 DEF ChainTiles
<1>8. NoTwoFreeInARow'
  <2> SUFFICES ASSUME NEW d \in DOMAIN blocks, NEW c \in DOMAIN blocks,
                      NextIndex(blocks, d)' = c, blocks'[d].free, blocks'[c].free
               PROVE  FALSE
    BY <1>3 DEF NoTwoFreeInARow
  <2>1. NextIndex(blocks, d) = c /\ blocks[d].free /\ blocks[c].free
    BY <1>4
  <2> QED
    BY <1>1, <2>1 DEF NoTwoFreeInARow
<1>9. UsedIsLive'
  <2>1. DOMAIN live' = {d \in DOMAIN blocks' : ~blocks'[d].free}
    BY <1>1, <1>3, <1>5 DEF UsedIsLive
  <2>2. ExtraSubblocks(size) <= blocks[b].subblocks
    BY <1>2, ExtraIsEnough DEF Fits, Node, Index
  <2>3. \A p \in DOMAIN live' : ExtraSubblocks(live'[p]) <= blocks'[p].subblocks
    BY <1>1, <1>3, <1>4, <1>5, <2>2 DEF UsedIsLive
  <2> QED
    BY <2>1, <2>3 DEF UsedIsLive
<1> QED
  BY <1>6, <1>7, <1>8, <1>9 DEF HeapInv

(* Cutting a node in two puts a free node between it and the used node, or *)
(* the end of the heap, that followed it.                                  *)
LEMMA TakeCut ==
  ASSUME HeapInv, NEW size \in Nat, NEW b \in DOMAIN blocks,
         Fits(b, ExtraSubblocks(size)),
         blocks[b].subblocks # ExtraSubblocks(size),
         ~PastLastBlock(b + ExtraSubblocks(size) + 1),
         blocks' = [i \in DOMAIN blocks \cup {b + ExtraSubblocks(size) + 1} |->
                      CASE i = b -> [free |-> FALSE, subblocks |-> ExtraSubblocks(size)]
                        [] i = b + ExtraSubblocks(size) + 1 ->
                             [free |-> TRUE,
                              subblocks |-> blocks[b].subblocks - 1 - ExtraSubblocks(size)]
                        [] OTHER -> blocks[i]],
         live' = Give(b, size), panic' = panic
  PROVE  HeapInv'
<1> DEFINE extra == ExtraSubblocks(size)
           next  == b + extra + 1
           old   == NextIndex(blocks, b)
<1>1. TypeOK /\ ChainTiles /\ NoTwoFreeInARow /\ UsedIsLive
  BY DEF HeapInv
<1>2. /\ b \in Nat /\ extra \in Nat /\ blocks[b].subblocks \in Nat
      /\ blocks[b].free /\ blocks[b].subblocks > extra
      /\ old = b + blocks[b].subblocks + 1
      /\ old \in Nat /\ old <= BlockCount /\ BlockCount \in Nat
      /\ old = BlockCount \/ old \in DOMAIN blocks
      /\ \A c \in DOMAIN blocks : b < c => old <= c
  BY <1>1, ExtraIsEnough, ChainShape, EndIsPast DEF Fits
<1>3. next \in Nat /\ b < next /\ next < old /\ next # b
  BY <1>2
<1>4. next \notin DOMAIN blocks
  BY <1>2, <1>3
<1>5. /\ DOMAIN blocks' = DOMAIN blocks \cup {next}
      /\ blocks' = [d \in DOMAIN blocks' |-> blocks'[d]]
      /\ blocks'[b] = [free |-> FALSE, subblocks |-> extra]
      /\ blocks'[next] = [free |-> TRUE, subblocks |-> blocks[b].subblocks - 1 - extra]
      /\ \A d \in DOMAIN blocks : d # b => blocks'[d] = blocks[d]
  <2> HIDE DEF extra
  <2> QED
    BY <1>3, <1>4 DEF extra
<1> HIDE DEF extra
<1>6. /\ NextIndex(blocks, b)' = next
      /\ NextIndex(blocks, next)' = old
      /\ \A d \in DOMAIN blocks : d # b => NextIndex(blocks, d)' = NextIndex(blocks, d)
  <2>1. NextIndex(blocks, b)' = next
    BY <1>2, <1>5 DEF NextIndex
  <2>2. NextIndex(blocks, next)' = old
    BY <1>2, <1>3, <1>5 DEF NextIndex
  <2>3. \A d \in DOMAIN blocks : d # b => NextIndex(blocks, d)' = NextIndex(blocks, d)
    BY <1>5 DEF NextIndex
  <2> QED
    BY <2>1, <2>2, <2>3
<1> HIDE DEF next, old
<1>7. /\ DOMAIN live' = DOMAIN live \cup {b}
      /\ live' = [p \in DOMAIN live' |-> live'[p]]
      /\ live'[b] = size
      /\ \A p \in DOMAIN live : p # b => live'[p] = live[p]
  BY DEF Give
<1>8. TypeOK'
  <2>1. b \in Index /\ next \in Index
    BY <1>2, <1>3 DEF Index
  <2>2. blocks'[b] \in Node /\ blocks'[next] \in Node
    BY <1>2, <1>3, <1>5 DEF Node, Index, old, next
  <2>3. \A d \in DOMAIN blocks' : blocks'[d] \in Node
    BY <1>1, <1>5, <2>2 DEF TypeOK
  <2>4. \A p \in DOMAIN live' : live'[p] \in Nat
    BY <1>1, <1>7 DEF TypeOK
  <2>5. DOMAIN blocks' \subseteq Index /\ DOMAIN live' \subseteq Index
    BY <1>1, <1>5, <1>7, <2>1 DEF TypeOK
  <2>6. panic' \in {"none", "not enough heap space", "deallocate unallocated address"}
    BY <1>1 DEF TypeOK
  <2> QED
    BY <1>5, <1>7, <2>3, <2>4, <2>5, <2>6 DEF TypeOK
<1>9. ChainTiles'
  <2>1. 0 \in DOMAIN blocks'
    BY <1>1, <1>5 DEF ChainTiles
  <2>2. ASSUME NEW d \in DOMAIN blocks'
        PROVE  IF PastLastBlock(NextIndex(blocks, d)') THEN NextIndex(blocks, d)' = BlockCount
               ELSE NextIndex(blocks, d)' \in DOMAIN blocks'
    <3>1. CASE d = b
      BY <1>5, <1>6, <3>1 DEF next, extra
    <3>2. CASE d = next
      BY <1>1, <1>5, <1>6, <3>2 DEF ChainTiles, old
    <3>3. CASE d \in DOMAIN blocks /\ d # b
      BY <1>1, <1>5, <1>6, <3>3 DEF ChainTiles
    <3> QED
      BY <1>5, <3>1, <3>2, <3>3
  <2>3. ASSUME NEW d \in DOMAIN blocks', NEW c \in DOMAIN blocks', d < c
        PROVE  NextIndex(blocks, d)' <= c
    <3>0. c = next \/ (c \in DOMAIN blocks /\ c \in Nat)
      BY <1>1, <1>5, ChainShape
    <3>1. CASE d = b
      <4>1. NextIndex(blocks, d)' = next
        BY <1>6, <3>1
      <4> QED
        BY <1>2, <1>3, <2>3, <3>0, <3>1, <4>1
    <3>2. CASE d = next
      <4>1. NextIndex(blocks, d)' = old
        BY <1>6, <3>2
      <4>2. b < c /\ c # next
        BY <1>2, <1>3, <2>3, <3>0, <3>2
      <4> QED
        BY <1>2, <3>0, <4>1, <4>2
    <3>3. CASE d \in DOMAIN blocks /\ d # b /\ c \in DOMAIN blocks
      BY <1>1, <1>6, <2>3, <3>3 DEF ChainTiles
    <3>4. CASE d \in DOMAIN blocks /\ d # b /\ c = next
      <4>1. d \in Nat /\ (d < b => NextIndex(blocks, d) <= b) /\ (b < d => old <= d)
        BY <1>1, <1>2, <3>4, ChainShape
      <4>2. NextIndex(blocks, d) \in Nat /\ NextIndex(blocks, d)' = NextIndex(blocks, d)
        BY <1>1, <1>6, <3>4, ChainShape
      <4>3. d < b
        BY <1>2, <1>3, <2>3, <3>4, <4>1
      <4> QED
        BY <1>2, <1>3, <3>4, <4>1, <4>2, <4>3
    <3> QED
      BY <1>5, <3>1, <3>2, <3>3, <3>4
  <2> QED
    BY <2>1, <2>2, <2>3 DEF ChainTiles
<1>10. NoTwoFreeInARow'
  <2> SUFFICES ASSUME NEW d \in DOMAIN blocks', NEW c \in DOMAIN blocks',
                      NextIndex(blocks, d)' = c, blocks'[d].free, blocks'[c].free
               PROVE  FALSE
    BY DEF NoTwoFreeInARow
  <2>1. d # b /\ c # b
    BY <1>5
  <2>2. CASE d = next
    <3>1. c = old /\ c \in DOMAIN blocks
      BY <1>2, <1>3, <1>5, <1>6, <2>2
    <3>2. blocks[c].free
      BY <1>5, <2>1, <3>1
    <3> QED
      BY <1>1, <1>2, <3>1, <3>2 DEF NoTwoFreeInARow, old
  <2>3. CASE d \in DOMAIN blocks /\ c = next
    <3>1. /\ d \in Nat /\ d < NextIndex(blocks, d)
          /\ (d < b => NextIndex(blocks, d) <= b) /\ (b < d => old <= d)
          /\ NextIndex(blocks, d) \in Nat
      BY <1>1, <1>2, <2>3, ChainShape
    <3> QED
      BY <1>2, <1>3, <1>6, <2>1, <2>3, <3>1
  <2>4. CASE d \in DOMAIN blocks /\ c \in DOMAIN blocks
    BY <1>1, <1>5, <1>6, <2>1, <2>4 DEF NoTwoFreeInARow
  <2> QED
    BY <1>5, <2>2, <2>3, <2>4
<1>11. UsedIsLive'
  <2>1. DOMAIN live' = {d \in DOMAIN blocks' : ~blocks'[d].free}
    BY <1>1, <1>3, <1>5, <1>7 DEF UsedIsLive
  <2>2. ExtraSubblocks(live'[b]) <= blocks'[b].subblocks
    BY <1>2, <1>5, <1>7 DEF extra
  <2>3. \A p \in DOMAIN live : p # b => ExtraSubblocks(live'[p]) <= blocks'[p].subblocks
    BY <1>1, <1>5, <1>7 DEF UsedIsLive
  <2> QED
    BY <1>7, <2>1, <2>2, <2>3 DEF UsedIsLive
<1> QED
  BY <1>8, <1>9, <1>10, <1>11 DEF HeapInv

(* Allocation keeps the invariant.                                         *)
LEMMA AllocateStep ==
  ASSUME HeapInv, NEW size \in Nat, allocate(size)
  PROVE  HeapInv'
<1>1. PICK b \in DOMAIN blocks :
        /\ FirstFit(b, ExtraSubblocks(size))
        /\ blocks' = TakeBlock(b, ExtraSubblocks(size))
        /\ live' = Give(b, size)
  BY DEF allocate
<1>2. Fits(b, ExtraSubblocks(size)) /\ panic' = panic
  BY <1>1 DEF FirstFit, allocate
<1>3. CASE \/ blocks[b].subblocks = ExtraSubblocks(size)
           \/ PastLastBlock(b + ExtraSubblocks(size) + 1)
  <2>1. blocks' = [blocks EXCEPT ![b].free = FALSE]
    BY <1>1, <1>3 DEF TakeBlock
  <2> QED
    BY <1>1, <1>2, <2>1, TakeWhole
<1>4. CASE /\ blocks[b].subblocks # ExtraSubblocks(size)
           /\ ~PastLastBlock(b + ExtraSubblocks(size) + 1)
  BY <1>1, <1>2, <1>4, TakeCut DEF TakeBlock
<1> QED
  BY <1>3, <1>4

-----------------------------------------------------------------------------
(* Freeing.                                                                *)

(* Merging absorbs only free nodes, the freed one among them, and stops in *)
(* front of a used node or at the end of the heap.                         *)
LEMMA DeallocateStep ==
  ASSUME HeapInv, NEW p \in Index, deallocate(p)
  PROVE  HeapInv'
<1> DEFINE freed == [blocks EXCEPT ![p].free = TRUE]
<1>1. TypeOK /\ ChainTiles /\ NoTwoFreeInARow /\ UsedIsLive
  BY DEF HeapInv
<1>2. PICK first \in DOMAIN blocks, last \in DOMAIN blocks :
        /\ MergeFrom(first, p)
        /\ EndsRun(freed, first, last)
        /\ blocks' = merge_blocks(freed, first, last)
  BY DEF deallocate
<1>3. /\ p \in DOMAIN live /\ p \in DOMAIN blocks /\ panic' = panic
      /\ DOMAIN live' = DOMAIN live \ {p}
      /\ live' = [q \in DOMAIN live' |-> live'[q]]
      /\ \A q \in DOMAIN live : q # p => live'[q] = live[q]
  BY DEF deallocate
<1>4. /\ DOMAIN freed = DOMAIN blocks
      /\ freed[p].free
      /\ \A d \in DOMAIN blocks : d # p => freed[d] = blocks[d]
      /\ \A d \in DOMAIN blocks : freed[d] \in Node
      /\ \A d \in DOMAIN blocks : NextIndex(freed, d) = NextIndex(blocks, d)
  <2>1. \A d \in DOMAIN blocks : blocks[d] \in Node
    BY <1>1, Zenon DEF TypeOK
  <2>2. freed[p] = [free |-> TRUE, subblocks |-> blocks[p].subblocks]
    BY <1>3, <2>1 DEF Node
  <2>3. DOMAIN freed = DOMAIN blocks /\ \A d \in DOMAIN blocks : d # p => freed[d] = blocks[d]
    OBVIOUS
  <2>4. \A d \in DOMAIN blocks : freed[d] \in Node
    BY <1>3, <2>1, <2>2, <2>3 DEF Node
  <2>5. \A d \in DOMAIN blocks : freed[d].subblocks = blocks[d].subblocks
    BY <2>2, <2>3
  <2>6. freed[p].free
    BY <2>2
  <2> HIDE DEF freed
  <2>7. \A d \in DOMAIN blocks : NextIndex(freed, d) = NextIndex(blocks, d)
    BY <2>5 DEF NextIndex
  <2> QED
    BY <2>3, <2>4, <2>6, <2>7
<1> HIDE DEF freed
<1> DEFINE e    == NextIndex(blocks, last)
           kept == {d \in DOMAIN blocks : d <= first \/ d > last}
<1>5. /\ first \in Nat /\ last \in Nat /\ first <= last
      /\ e \in Nat /\ last < e /\ e <= BlockCount /\ BlockCount \in Nat
      /\ e = BlockCount \/ e \in DOMAIN blocks
      /\ \A c \in DOMAIN blocks : last < c => e <= c
  BY <1>1, <1>2, ChainShape, EndIsPast DEF EndsRun
<1>6. /\ \A d \in DOMAIN blocks : first < d /\ d <= last => freed[d].free
      /\ e \in DOMAIN blocks => ~freed[e].free
  <2>1. \A d \in DOMAIN blocks : first < d /\ d <= last => freed[d].free
    BY <1>2, <1>4 DEF EndsRun
  <2>2. ~PastLastBlock(e) => ~freed[e].free
    BY <1>2, <1>4 DEF EndsRun
  <2>3. e \in DOMAIN blocks => e # BlockCount
    BY <1>1, ChainShape
  <2>4. PastLastBlock(e) => e = BlockCount
    BY <1>1 DEF ChainTiles
  <2> QED
    BY <2>1, <2>2, <2>3, <2>4
<1>7. /\ \A d \in DOMAIN blocks :
           /\ d \in Nat /\ d < BlockCount
           /\ NextIndex(blocks, d) \in Nat /\ d < NextIndex(blocks, d)
           /\ NextIndex(blocks, d) = BlockCount \/ NextIndex(blocks, d) \in DOMAIN blocks
      /\ \A d, c \in DOMAIN blocks : d < c => NextIndex(blocks, d) <= c
  BY <1>1, ChainShape
<1>8. /\ DOMAIN blocks' = kept
      /\ blocks' = [d \in DOMAIN blocks' |-> blocks'[d]]
      /\ first \in kept
      /\ blocks'[first] = [free |-> freed[first].free, subblocks |-> e - first - 1]
      /\ \A d \in kept : d # first => blocks'[d] = freed[d]
  BY <1>2, <1>4, <1>5 DEF merge_blocks
<1>9. /\ NextIndex(blocks, first)' = e
      /\ \A d \in kept : d # first => NextIndex(blocks, d)' = NextIndex(blocks, d)
  <2>1. NextIndex(blocks, first)' = first + (e - first - 1) + 1
    BY <1>8 DEF NextIndex
  <2>2. ASSUME NEW d \in kept, d # first
        PROVE  NextIndex(blocks, d)' = NextIndex(freed, d)
    BY <1>8, <2>2 DEF NextIndex
  <2> QED
    BY <1>4, <1>5, <2>1, <2>2
<1> HIDE DEF e
(* The freed node lies in the merged run, and the run begins behind a used *)
(* node or at the start of the heap.                                       *)
<1>10. /\ first <= p /\ p <= last
       /\ freed[first].free
       /\ \A q \in DOMAIN blocks : NextIndex(blocks, q) = first => ~blocks[q].free /\ q # p
  <2>1. CASE NextIndex(blocks, first) = p /\ blocks[first].free
    <3>1. first < p /\ p \in Nat
      BY <1>3, <1>7, <2>1
    <3>2. p <= last
      <4>1. SUFFICES ASSUME last < p
                     PROVE  FALSE
        BY <1>5, <3>1
      <4>2. ~(first < last)
        BY <1>5, <1>7, <2>1, <3>1, <4>1
      <4>3. first = last
        BY <1>5, <4>2
      <4> QED
        BY <1>3, <1>4, <1>6, <2>1, <4>3 DEF e
    <3>3. freed[first].free
      BY <1>4, <2>1, <3>1
    <3>4. ASSUME NEW q \in DOMAIN blocks, NextIndex(blocks, q) = first
          PROVE  ~blocks[q].free /\ q # p
      <4>1. ~blocks[q].free
        BY <1>1, <2>1, <3>4 DEF NoTwoFreeInARow
      <4>2. q # p
        BY <1>5, <1>7, <3>1, <3>4
      <4> QED
        BY <4>1, <4>2
    <3> QED
      BY <1>5, <3>1, <3>2, <3>3, <3>4
  <2>2. CASE /\ first = p
             /\ ~ \E q \in DOMAIN blocks : NextIndex(blocks, q) = p /\ blocks[q].free
    <3>1. \A q \in DOMAIN blocks : NextIndex(blocks, q) = first => ~blocks[q].free /\ q # p
      BY <1>5, <1>7, <2>2
    <3> QED
      BY <1>4, <1>5, <2>2, <3>1
  <2> QED
    BY <1>2, <2>1, <2>2 DEF MergeFrom
<1>11. p \in Nat /\ \A q \in kept : q = first \/ q # p
  BY <1>3, <1>5, <1>7, <1>10
<1>12. TypeOK'
  <2>1. blocks'[first] \in Node
    <3>1. e - first - 1 \in Index
      BY <1>5 DEF Index
    <3>2. freed[first].free \in BOOLEAN
      BY <1>4 DEF Node
    <3> QED
      BY <1>8, <3>1, <3>2 DEF Node
  <2>2. \A d \in DOMAIN blocks' : blocks'[d] \in Node
    BY <1>4, <1>8, <2>1
  <2>3. \A q \in DOMAIN live' : live'[q] \in Nat
    BY <1>1, <1>3 DEF TypeOK
  <2>4. DOMAIN blocks' \subseteq Index /\ DOMAIN live' \subseteq Index
    BY <1>1, <1>3, <1>8 DEF TypeOK
  <2>5. panic' \in {"none", "not enough heap space", "deallocate unallocated address"}
    BY <1>1, <1>3 DEF TypeOK
  <2> QED
    BY <1>3, <1>8, <2>2, <2>3, <2>4, <2>5 DEF TypeOK
<1>13. ChainTiles'
  <2>1. 0 \in DOMAIN blocks'
    BY <1>1, <1>5, <1>8 DEF ChainTiles
  <2>2. ASSUME NEW d \in kept
        PROVE  IF PastLastBlock(NextIndex(blocks, d)') THEN NextIndex(blocks, d)' = BlockCount
               ELSE NextIndex(blocks, d)' \in DOMAIN blocks'
    <3>1. CASE d = first
      <4>1. IF PastLastBlock(e) THEN e = BlockCount ELSE e \in DOMAIN blocks
        BY <1>1 DEF ChainTiles, e
      <4>2. e \in DOMAIN blocks => e \in kept
        BY <1>5
      <4> QED
        BY <1>8, <1>9, <3>1, <4>1, <4>2
    <3>2. CASE d # first
      <4>1. NextIndex(blocks, d)' = NextIndex(blocks, d)
        BY <1>9, <3>2
      <4>2. IF PastLastBlock(NextIndex(blocks, d)) THEN NextIndex(blocks, d) = BlockCount
            ELSE NextIndex(blocks, d) \in DOMAIN blocks
        BY <1>1 DEF ChainTiles
      <4>3. NextIndex(blocks, d) \in DOMAIN blocks => NextIndex(blocks, d) \in kept
        BY <1>5, <1>7, <3>2
      <4> QED
        BY <1>8, <4>1, <4>2, <4>3
    <3> QED
      BY <3>1, <3>2
  <2>3. ASSUME NEW d \in kept, NEW c \in kept, d < c
        PROVE  NextIndex(blocks, d)' <= c
    <3>1. CASE d = first
      BY <1>5, <1>7, <1>9, <2>3, <3>1
    <3>2. CASE d # first
      BY <1>7, <1>9, <2>3, <3>2
    <3> QED
      BY <3>1, <3>2
  <2> QED
    BY <1>8, <2>1, <2>2, <2>3 DEF ChainTiles
<1>14. NoTwoFreeInARow'
  <2> SUFFICES ASSUME NEW d \in kept, NEW c \in kept,
                      NextIndex(blocks, d)' = c, blocks'[d].free, blocks'[c].free
               PROVE  FALSE
    BY <1>8 DEF NoTwoFreeInARow
  <2>1. CASE d = first
    <3>1. c = e /\ c \in DOMAIN blocks /\ c # first
      BY <1>5, <1>9, <2>1
    <3> QED
      BY <1>6, <1>8, <3>1
  <2>2. CASE d # first
    <3>1. NextIndex(blocks, d) = c /\ freed[d].free /\ d # p
      BY <1>8, <1>9, <1>11, <2>2
    <3>2. blocks[d].free
      BY <1>4, <3>1
    <3>3. c # first
      BY <1>10, <3>1, <3>2
    <3>4. blocks[c].free
      BY <1>4, <1>8, <1>11, <3>3
    <3> QED
      BY <1>1, <3>1, <3>2, <3>4 DEF NoTwoFreeInARow
  <2> QED
    BY <2>1, <2>2
<1>15. UsedIsLive'
  <2>1. \A d \in kept : ~blocks'[d].free <=> (~blocks[d].free /\ d # p)
    <3> SUFFICES ASSUME NEW d \in kept
                 PROVE  ~blocks'[d].free <=> (~blocks[d].free /\ d # p)
      OBVIOUS
    <3>1. CASE d = first
      BY <1>4, <1>8, <1>10, <3>1
    <3>2. CASE d # first
      BY <1>4, <1>8, <1>11, <3>2
    <3> QED
      BY <3>1, <3>2
  <2>2. \A d \in DOMAIN blocks \ kept : blocks[d].free \/ d = p
    BY <1>4, <1>5, <1>6, <1>7
  <2>3. DOMAIN live' = {d \in DOMAIN blocks' : ~blocks'[d].free}
    BY <1>1, <1>3, <1>8, <2>1, <2>2 DEF UsedIsLive
  <2>4. ASSUME NEW q \in DOMAIN live'
        PROVE  ExtraSubblocks(live'[q]) <= blocks'[q].subblocks
    <3>1. q \in DOMAIN live /\ q # p /\ live'[q] = live[q] /\ q \in kept
      BY <1>3, <1>8, <2>3
    <3>2. q # first
      BY <1>8, <1>10, <2>3
    <3>3. blocks'[q] = blocks[q]
      BY <1>4, <1>8, <3>1, <3>2
    <3> QED
      BY <1>1, <3>1, <3>3 DEF UsedIsLive
  <2> QED
    BY <2>3, <2>4 DEF UsedIsLive
<1> QED
  BY <1>12, <1>13, <1>14, <1>15 DEF HeapInv

-----------------------------------------------------------------------------
(* The theorems.                                                           *)

LEMMA HeapStep == HeapInv /\ [Next]_vars => HeapInv'
<1> SUFFICES ASSUME HeapInv, [Next]_vars
             PROVE  HeapInv'
  OBVIOUS
<1>1. ASSUME NEW size \in Requests, allocate(size)
      PROVE  HeapInv'
  BY <1>1, AllocateStep, HeapAssumption
<1>2. ASSUME NEW p \in Index, deallocate(p)
      PROVE  HeapInv'
  BY <1>2, DeallocateStep
<1>3. CASE UNCHANGED <<blocks, live>> /\ panic' \in {"none", "not enough heap space",
                                                     "deallocate unallocated address"}
  BY <1>3 DEF HeapInv, TypeOK, ChainTiles, NoTwoFreeInARow, UsedIsLive, NextIndex
<1>4. CASE UNCHANGED vars
  BY <1>4 DEF vars, HeapInv, TypeOK, ChainTiles, NoTwoFreeInARow, UsedIsLive, NextIndex
<1> QED
  BY <1>1, <1>2, <1>3, <1>4 DEF Next, AllocateNoSpace, DeallocateUnknown, Halted

(* The chain covers the heap, no two free nodes are neighbours, and the    *)
(* nodes in use are exactly those callers hold, each big enough.           *)
THEOREM HeapCorrect == Spec => [](TypeOK /\ ChainTiles /\ NoTwoFreeInARow /\ UsedIsLive)
<1>1. HeapInv => TypeOK /\ ChainTiles /\ NoTwoFreeInARow /\ UsedIsLive
  BY DEF HeapInv
<1> QED
  BY <1>1, HeapInit, HeapStep, PTL DEF Spec

(* The bytes of two allocations never overlap, never lie under a header    *)
(* and never reach out of the heap.                                        *)
THEOREM HeapDisjoint == Spec => []AllocationsDisjoint
<1>1. HeapInv => AllocationsDisjoint
  <2> SUFFICES ASSUME HeapInv, NEW p \in DOMAIN live
               PROVE  /\ DataStart(p) + live[p] <= BLOCK_SIZE * BlockCount
                      /\ \A q \in DOMAIN blocks : p < q => DataStart(p) + live[p] <= BLOCK_SIZE * q
    BY DEF AllocationsDisjoint
  <2>1. p \in DOMAIN blocks /\ live[p] \in Nat
        /\ ExtraSubblocks(live[p]) <= blocks[p].subblocks
    BY DEF HeapInv, UsedIsLive, TypeOK
  <2>2. /\ p \in Nat /\ blocks[p].subblocks \in Nat
        /\ p + blocks[p].subblocks + 1 <= BlockCount
        /\ \A q \in DOMAIN blocks : p < q => p + blocks[p].subblocks + 1 <= q
    BY <2>1, ChainShape DEF HeapInv
  <2>3. ExtraSubblocks(live[p]) \in Nat /\ live[p] <= 16 + 32 * ExtraSubblocks(live[p])
    BY <2>1, ExtraIsEnough DEF FIRST_BLOCK_CAPACITY, BLOCK_SIZE
  <2>4. DataStart(p) + live[p] <= 32 * (p + blocks[p].subblocks + 1)
    BY <2>1, <2>2, <2>3 DEF DataStart, FIRST_BLOCK_CAPACITY, BLOCK_SIZE
  <2>5. DataStart(p) \in Nat
    BY <2>2 DEF DataStart, FIRST_BLOCK_CAPACITY, BLOCK_SIZE
  <2>6. \A q \in DOMAIN blocks : q \in Nat
    BY ChainShape DEF HeapInv
  <2> QED
    BY <2>1, <2>2, <2>4, <2>5, <2>6, EndIsPast DEF BLOCK_SIZE
<1> QED
  BY <1>1, HeapInit, HeapStep, PTL DEF Spec

(* Once every allocation is freed the heap is one free node again.         *)
THEOREM HeapRestored == Spec => []AllFreedRestores
<1>1. HeapInv => AllFreedRestores
  <2> SUFFICES ASSUME HeapInv, DOMAIN live = {}
               PROVE  blocks = [b \in {0} |-> [free |-> TRUE, subblocks |-> BlockCount - 1]]
    BY DEF AllFreedRestores
  <2>1. \A b \in DOMAIN blocks : blocks[b].free
    BY DEF HeapInv, UsedIsLive
  <2>2. 0 \in DOMAIN blocks
    BY DEF HeapInv, ChainTiles
  <2>3. NextIndex(blocks, 0) = BlockCount
    <3>1. NextIndex(blocks, 0) = BlockCount \/ NextIndex(blocks, 0) \in DOMAIN blocks
      BY <2>2, ChainShape DEF HeapInv
    <3> QED
      BY <2>1, <2>2, <3>1 DEF HeapInv, NoTwoFreeInARow
  <2>4. DOMAIN blocks = {0}
    <3>1. \A b \in DOMAIN blocks : b \in Nat /\ b < BlockCount /\ (0 < b => BlockCount <= b)
      BY <2>2, <2>3, ChainShape DEF HeapInv
    <3> QED
      BY <2>2, <3>1, EndIsPast
  <2>5. blocks[0] = [free |-> TRUE, subblocks |-> BlockCount - 1]
    <3>1. blocks[0] \in Node
      BY <2>2, Zenon DEF HeapInv, TypeOK
    <3>2. blocks[0].subblocks = BlockCount - 1
      BY <2>2, <2>3, ChainShape, EndIsPast DEF HeapInv
    <3> QED
      BY <2>1, <2>2, <3>1, <3>2 DEF Node
  <2>6. blocks = [b \in DOMAIN blocks |-> blocks[b]]
    BY Zenon DEF HeapInv, TypeOK
  <2> QED
    BY <2>4, <2>5, <2>6
<1> QED
  BY <1>1, HeapInit, HeapStep, PTL DEF Spec

(* Freed nodes are merged with free neighbours on both sides, in whatever  *)
(* order frees come (kmalloc.cpp:144).                                     *)
THEOREM HeapNoFragments == Spec => []NoTwoFreeInARow
BY HeapCorrect, PTL

(* An allocation adds an address: it never returns one that is held.       *)
THEOREM HeapNeverGivesTwice == Spec => NeverGivenTwice
<1>1. HeapInv => \A size \in Requests : allocate(size) => DOMAIN live' # DOMAIN live
  <2> SUFFICES ASSUME HeapInv, NEW size \in Requests, allocate(size)
               PROVE  DOMAIN live' # DOMAIN live
    OBVIOUS
  <2>1. PICK b \in DOMAIN blocks :
          FirstFit(b, ExtraSubblocks(size)) /\ live' = Give(b, size)
    BY Zenon DEF allocate
  <2>2. b \notin DOMAIN live
    BY <2>1 DEF HeapInv, UsedIsLive, FirstFit, Fits
  <2>3. DOMAIN live' = DOMAIN live \cup {b}
    BY <2>1 DEF Give
  <2> QED
    BY <2>2, <2>3
<1> QED
  BY <1>1, HeapInit, HeapStep, PTL DEF Spec, NeverGivenTwice

=============================================================================
