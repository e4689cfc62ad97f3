SPECIFICATION Spec
CONSTANTS
  ELEM_BITS = 2
  BITMAP_ERROR = BITMAP_ERROR
  PGSIZE = 8
  WORD = 64
  sizeof_bitmap = 2
  sizeof_elem = 1
  atags <- TagsAroundKernel
  ATAG_MEM = ATAG_MEM
  ATAG_CORE = ATAG_CORE
  kernel <- KernelInChunk
  NULL = NULL
  sizeof_arena = 2
  MinBlock = 2
  Sizes = {2, 7}
  Factors = {}
INVARIANTS
  PagesInMemory
