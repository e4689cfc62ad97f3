------------------------------- MODULE Palloc -------------------------------
(***************************************************************************)
(* The page allocator of lib/palloc.c: a bitmap of used pages over the     *)
(* first chunk of memory the boot loader tells of in its tags (atags.c).   *)
(*                                                                         *)
(* Each call takes and leaves pool.lock with the processor kept all along, *)
(* so the lock is free whenever a call begins and is left out here; so is  *)
(* the lock of each descriptor in Malloc.                                  *)
(***************************************************************************)
EXTENDS Bitmap, Sequences

CONSTANTS
  PGSIZE,
  WORD,           \* values of a size_t: arithmetic on sizes is modulo WORD
  sizeof_bitmap, sizeof_elem,
  atags,          \* the tags up to ATAG_NONE; start and size are u.mem
  ATAG_MEM, ATAG_CORE,
  kernel,         \* the addresses __start and __end of the kernel image
  NULL

ASSUME PallocAssumption ==
  /\ PGSIZE \in Nat \ {0} /\ WORD \in Nat \ {0}
  /\ sizeof_bitmap \in Nat /\ sizeof_elem \in Nat \ {0}
  /\ atags \in Seq([value : {ATAG_MEM, ATAG_CORE}, start : Nat, size : Nat])
  /\ kernel \in [start : Nat, end : Nat] /\ kernel.start <= kernel.end
  /\ kernel.end % PGSIZE = 0
  /\ \A i \in DOMAIN atags :
       /\ atags[i].start + atags[i].size < WORD
       /\ atags[i].start % PGSIZE = 0
  /\ NULL \notin Int

(* get_atag: the place of the first tag with the value from place next on, *)
(* or NULL; the next call goes on behind it.                               *)
get_atag(value, next) ==
  LET found == {i \in next .. Len(atags) : atags[i].value = value}
  IN IF found = {} THEN NULL ELSE Min(found)

tag == get_atag(ATAG_MEM, 1)

(* The chunk of the pool, the only one that is used. *)
mem == atags[tag]

(* Slip: the chunk gets shorter and begins where it did. *)
AdjustedMem_size_only ==
  IF kernel.start >= mem.start /\ kernel.start < mem.start + mem.size
  THEN [start |-> mem.start, size |-> (mem.start + mem.size - kernel.end) % WORD]
  ELSE mem

(* palloc_init: the tag, adjusted if the kernel is in the chunk.  The size *)
(* is computed from the start that has just been assigned.                 *)
AdjustedMem ==
  IF kernel.start >= mem.start /\ kernel.start < mem.start + mem.size
  THEN LET start == kernel.end
       IN [start |-> start, size |-> (start + mem.size - kernel.end) % WORD]
  ELSE mem

free_pages == AdjustedMem.size \div PGSIZE

bitmap_buf_size(n) == sizeof_bitmap + sizeof_elem * elem_cnt(n)

(* init_pool: the bitmap is put into the first pages of the pool. *)
bm_pages == DIV_ROUND_UP(bitmap_buf_size(free_pages), PGSIZE)

(* The PANICs of palloc_init and of init_pool. *)
NoMemory == tag = NULL \/ AdjustedMem.size < PGSIZE \/ bm_pages > free_pages

page_cnt == free_pages - bm_pages

base == AdjustedMem.start + bm_pages * PGSIZE

pg_ofs(a) == a % PGSIZE

pg_round_down(a) == a - pg_ofs(a)

Page(i) == base + PGSIZE * i

Pages == {Page(i) : i \in 0 .. page_cnt - 1}

(* Slip: one page of the n is marked used. *)
palloc_get_marks_first(used_map, n) ==
  LET i == bitmap_scan(used_map, 0, n, FALSE)
  IN IF n = 0 \/ i = BITMAP_ERROR
     THEN [pages |-> NULL, used_map |-> used_map]
     ELSE [pages |-> Page(i), used_map |-> bitmap_set_multiple(used_map, i, 1, TRUE)]

(* The pages got, and the bitmap. *)
palloc_get_multiple(used_map, n) ==
  LET r == bitmap_scan_and_flip(used_map, 0, n, FALSE)
  IN IF n = 0 \/ r.idx = BITMAP_ERROR
     THEN [pages |-> NULL, used_map |-> used_map]
     ELSE [pages |-> Page(r.idx), used_map |-> r.bitmap]

page_idx(a) == (a - base) \div PGSIZE

palloc_free_multiple(used_map, a, n) ==
  bitmap_set_multiple(used_map, page_idx(a), n, FALSE)

(* The ASSERTs a call of palloc_free_multiple meets. *)
MayFree(used_map, a, n) ==
  /\ pg_ofs(a) = 0
  /\ page_idx(a) + n <= used_map.bit_cnt
  /\ bitmap_all(used_map, page_idx(a), n)
============================================================================
