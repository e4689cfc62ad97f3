------------------------------- MODULE Malloc -------------------------------
(***************************************************************************)
(* The block allocator of lib/malloc.c, on top of the page allocator.      *)
(*                                                                         *)
(* A page is an arena of equal blocks of one descriptor, or the first of   *)
(* the pages of a big block.  A descriptor is named by its block_size.     *)
(* The functions below take the state of the heap, the record h, and give  *)
(* the one they leave; the actions are the calls clients make.             *)
(***************************************************************************)
EXTENDS Palloc, SequencesExt

CONSTANTS
  sizeof_arena,  \* the header of an arena: 12 bytes on the target
  MinBlock,      \* the smallest block_size: 16 on the target
  Sizes,         \* the sizes clients ask malloc and realloc for
  Factors        \* the arguments clients call calloc with

ASSUME MallocAssumption ==
  /\ sizeof_arena \in Nat \ {0} /\ MinBlock \in Nat \ {0}
  /\ sizeof_arena <= PGSIZE \div 2
  /\ Sizes \cup Factors \subseteq 0 .. WORD - 1
  /\ NULL \notin [desc : Int \cup {NULL}, free_cnt : Nat]

VARIABLES
  heap,     \* used_map; arena: the header in each page, NULL where there is
            \* none; free_list of each descriptor; ok: every ASSERT held
  granted   \* history: address and size of each block clients have

vars == <<heap, granted>>

(* malloc_init: one descriptor for each power of 2 from MinBlock on. *)
Desc == {d \in MinBlock .. PGSIZE \div 2 : \E k \in 0 .. PGSIZE : d = MinBlock * 2^k}

blocks_per_arena(d) == (PGSIZE - sizeof_arena) \div d

Init ==
  /\ ~NoMemory
  /\ heap \in [used_map  : {bitmap_create_in_buf(page_cnt, junk) : junk \in Words(page_cnt)},
              arena     : {[a \in Pages |-> NULL]},
              free_list : {[d \in Desc |-> <<>>]},
              ok        : {TRUE}]
  /\ granted = {}

---------------------------------------------------------------------------
arena_to_block(a, d, i) == a + sizeof_arena + i * d

(* The ASSERTs of block_to_arena(b); the arena it returns is the page of b.*)
MayLookUp(h, b) ==
  LET a == pg_round_down(b)
  IN /\ a \in Pages
     /\ h.arena[a] # NULL
     /\ IF h.arena[a].desc = NULL
        THEN pg_ofs(b) = sizeof_arena
        ELSE (pg_ofs(b) - sizeof_arena) % h.arena[a].desc = 0

(* A page from the page allocator becomes an arena of d, all of it free; h *)
(* itself when no page is left.                                            *)
new_arena(h, d) ==
  LET got == palloc_get_multiple(h.used_map, 1)
  IN IF got.pages = NULL THEN h
     ELSE [h EXCEPT
       !.used_map = got.used_map,
       !.arena[got.pages] = [desc |-> d, free_cnt |-> blocks_per_arena(d)],
       !.free_list[d] = [i \in 1 .. blocks_per_arena(d) |->
                           arena_to_block(got.pages, d, i - 1)]]

(* The front block of the free list, refilled first when it is empty. *)
malloc_block(h, d) ==
  LET h1 == IF h.free_list[d] = <<>> THEN new_arena(h, d) ELSE h
      b  == Head(h1.free_list[d])
  IN IF h1.free_list[d] = <<>>
     THEN [block |-> NULL, heap |-> h]
     ELSE [block |-> b,
           heap  |-> [h1 EXCEPT !.free_list[d] = Tail(@),
                                !.arena[pg_round_down(b)].free_cnt = @ - 1,
                                !.ok = @ /\ MayLookUp(h1, b)]]

(* Pages of their own for a block too big for any descriptor. *)
malloc_big(h, size) ==
  LET n   == ((size + sizeof_arena + PGSIZE - 1) % WORD) \div PGSIZE
      got == palloc_get_multiple(h.used_map, n)
  IN IF got.pages = NULL
     THEN [block |-> NULL, heap |-> h]
     ELSE [block |-> got.pages + sizeof_arena,
           heap  |-> [h EXCEPT !.used_map = got.used_map,
                               !.arena[got.pages] = [desc |-> NULL, free_cnt |-> n]]]

malloc(h, size) ==
  LET fits == {d \in Desc : d >= size}
  IN IF size = 0 THEN [block |-> NULL, heap |-> h]
     ELSE IF fits # {} THEN malloc_block(h, Min(fits))
                       ELSE malloc_big(h, size)

(* block_size(b): the bytes there are in the block for the client. *)
block_size(h, b) ==
  LET a == h.arena[pg_round_down(b)]
  IN IF a.desc # NULL THEN a.desc ELSE PGSIZE * a.free_cnt - pg_ofs(b)

(* Slip: the blocks of the emptied arena stay on the free list. *)
free_block_keeps_blocks(h, b) ==
  LET a == pg_round_down(b)
      d == h.arena[a].desc
      n == h.arena[a].free_cnt + 1
      h1 == [h EXCEPT !.free_list[d] = <<b>> \o @, !.arena[a].free_cnt = n]
  IN IF n < blocks_per_arena(d) THEN h1
     ELSE [h1 EXCEPT !.arena[a] = NULL,
                     !.used_map = palloc_free_multiple(@, a, 1)]

(* Slip: the page of an arena without blocks in use is kept. *)
free_block_keeps_page(h, b) ==
  LET a == pg_round_down(b)
      d == h.arena[a].desc
  IN [h EXCEPT !.free_list[d] = <<b>> \o @, !.arena[a].free_cnt = @ + 1]

(* list_remove of each element of S: the others stay in their order. *)
list_remove(s, S) ==
  LET kept == {i \in DOMAIN s : s[i] \notin S}
      place(k) == CHOOSE i \in kept : Cardinality({j \in kept : j <= i}) = k
  IN [k \in 1 .. Cardinality(kept) |-> s[place(k)]]

(* The block goes to the front of its free list; when all the arena's are  *)
(* there, they come off and the page, header filled with 0xcc, goes back.  *)
free_block(h, b) ==
  LET a  == pg_round_down(b)
      d  == h.arena[a].desc
      n  == h.arena[a].free_cnt + 1
      h1 == [h EXCEPT !.free_list[d] = <<b>> \o @, !.arena[a].free_cnt = n]
      in_arena == {arena_to_block(a, d, i) : i \in 0 .. blocks_per_arena(d) - 1}
  IN IF n < blocks_per_arena(d) THEN h1
     ELSE [h1 EXCEPT
       !.free_list[d] = list_remove(@, in_arena),
       !.arena[a] = NULL,
       !.used_map = palloc_free_multiple(@, a, 1),
       !.ok = @ /\ n = blocks_per_arena(d) /\ in_arena \subseteq ToSet(h1.free_list[d])
                /\ MayFree(h.used_map, a, 1)]

free(h, b) ==
  LET a == pg_round_down(b)
      n == h.arena[a].free_cnt
  IN IF b = NULL THEN h
     ELSE IF ~MayLookUp(h, b) THEN [h EXCEPT !.ok = FALSE]
     ELSE IF h.arena[a].desc # NULL THEN free_block(h, b)
     ELSE [h EXCEPT !.arena[a] = NULL,
                    !.used_map = palloc_free_multiple(@, a, n),
                    !.ok = @ /\ MayFree(h.used_map, a, n)]

---------------------------------------------------------------------------
(* The call leaves the heap r.heap and gives a client the block, or NULL.  *)
Returns(r, size, before) ==
  /\ heap.ok
  /\ heap' = r.heap
  /\ granted' = IF r.block = NULL THEN before
                ELSE before \cup {[addr |-> r.block, size |-> size]}

Malloc(size) == Returns(malloc(heap, size), size, granted)

(* A block of A times B bytes; the product is computed in a size_t. *)
Calloc(a, b) ==
  LET size == (a * b) % WORD
  IN IF size < a \/ size < b
     THEN Returns([block |-> NULL, heap |-> heap], 0, granted)
     ELSE Returns(malloc(heap, size), a * b, granted)

(* Slip: the old block is freed before the new one is allocated. *)
Realloc_free_first(g, size) ==
  Returns(malloc(free(heap, g.addr), size), size, granted \ {g})

(* realloc of the block g to size bytes. *)
Realloc(g, size) ==
  LET r == malloc(heap, size)
  IN IF size = 0
     THEN Returns([block |-> NULL, heap |-> free(heap, g.addr)], 0, granted \ {g})
     ELSE IF r.block = NULL
     THEN Returns(r, size, granted)
     ELSE Returns([r EXCEPT !.heap = free(@, g.addr)], size, granted \ {g})

Free(g) == Returns([block |-> NULL, heap |-> free(heap, g.addr)], 0, granted \ {g})

Next ==
  \/ \E size \in Sizes : Malloc(size)
  \/ \E a, b \in Factors : Calloc(a, b)
  \/ \E g \in granted, size \in Sizes : Realloc(g, size)
  \/ \E g \in granted : Free(g)

Spec == Init /\ [][Next]_vars

---------------------------------------------------------------------------
(* Properties. *)

Used == {i \in 0 .. page_cnt - 1 : bitmap_test(heap.used_map, i)}

(* No ASSERT of malloc.c or palloc.c fails while clients free only what    *)
(* they were given, once.                                                  *)
HeapAssertsHold == heap.ok

(* The blocks of an arena are each handed out or on its descriptor's free  *)
(* list, once, and free_cnt counts the latter; free lists hold no others.  *)
FreeListsExact ==
  \A d \in Desc :
    LET arenas == {a \in Pages : heap.arena[a] # NULL /\ heap.arena[a].desc = d}
        blocks(a) == {arena_to_block(a, d, i) : i \in 0 .. blocks_per_arena(d) - 1}
        unused == ToSet(heap.free_list[d])
        inUse  == {g.addr : g \in granted}
    IN /\ IsInjective(heap.free_list[d])
       /\ unused \subseteq UNION {blocks(a) : a \in arenas}
       /\ \A a \in arenas :
            /\ blocks(a) \ unused = inUse \cap (a .. a + PGSIZE - 1)
            /\ heap.arena[a].free_cnt = Cardinality(blocks(a) \cap unused)

(* No page is leaked: a page is used only if it is an arena some block of  *)
(* which is handed out, or one of the pages of a big block handed out.     *)
NoPageLeak ==
  Used = {i \in 0 .. page_cnt - 1 : \E g \in granted :
            pg_round_down(g.addr) <= Page(i) /\ Page(i) < g.addr + block_size(heap, g.addr)}

(* Every page handed out is memory the boot loader told of, outside of the *)
(* kernel image.                                                           *)
PagesInMemory ==
  \A i \in Used :
    /\ Page(i) >= mem.start /\ Page(i) + PGSIZE <= mem.start + mem.size
    /\ Page(i) >= kernel.end \/ Page(i) + PGSIZE <= kernel.start

(* What lies below __end in a chunk that holds the kernel.                 *)
BelowEnd ==
  IF mem.start <= kernel.start /\ kernel.start < mem.start + mem.size
  THEN kernel.end - mem.start ELSE 0

(* Wherever the kernel is, in the chunk too, no page of it is handed out   *)
(* and none from below the chunk; and pages reach past the end of memory   *)
(* by no more than palloc_init forgets to take off the size of the chunk.  *)
PagesNearMemory ==
  \A i \in Used :
    /\ Page(i) >= mem.start
    /\ Page(i) + PGSIZE <= mem.start + mem.size + BelowEnd
    /\ Page(i) >= kernel.end \/ Page(i) + PGSIZE <= kernel.start

(* A block has room for at least the bytes that were asked for.            *)
BlocksFit == \A g \in granted : g.size <= block_size(heap, g.addr)

(* malloc returns NULL only if memory is not available: there is no run of *)
(* pages without a handed out block in it that the request would fit into. *)
RefusesOnlyWhenFull ==
  \A size \in Sizes \ {0} :
    malloc(heap, size).block = NULL =>
      LET n == DIV_ROUND_UP(size + sizeof_arena, PGSIZE)
      IN \A i \in 0 .. page_cnt - n : \E g \in granted :
           /\ g.addr < Page(i) + n * PGSIZE
           /\ g.addr + block_size(heap, g.addr) > Page(i)

---------------------------------------------------------------------------
(* Heap, which this specification implements with the bytes of the pool,   *)
(* all behind its bitmap.                                                  *)
Promise == INSTANCE Heap WITH Byte <- base .. base + PGSIZE * page_cnt - 1

(* The allocator keeps the promise of Heap: no byte is given to two        *)
(* clients, none lies outside of the pool or in its bitmap, and realloc    *)
(* copies between blocks that do not overlap.                              *)
KeepsHeap == Promise!Spec
============================================================================
