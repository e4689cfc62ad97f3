------------------------------ MODULE MCMalloc ------------------------------
(* Malloc on a small instance: pages of 8 bytes, an arena header of 2, and *)
(* descriptors for blocks of 2 (three to an arena) and of 4 (one).         *)
EXTENDS Malloc

CoreTag == [value |-> ATAG_CORE, start |-> 0, size |-> 0]

MemTag(start, size) == [value |-> ATAG_MEM, start |-> start, size |-> size]

(* The first of two chunks begins where the kernel ends, as in             *)
(* test_atags.S.                                                           *)
TagsAfterKernel == <<CoreTag, MemTag(8, 32), MemTag(40, 16)>>

(* The chunk holds the kernel, as on the target, which also has memory     *)
(* below it.                                                               *)
TagsAroundKernel == <<CoreTag, MemTag(0, 32)>>

Kernel == [start |-> 0, end |-> 8]

KernelInChunk == [start |-> 8, end |-> 16]
============================================================================
