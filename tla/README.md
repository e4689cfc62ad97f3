# A TLA+ development of pithread

pithread runs cooperative threads on a bare Raspberry Pi 2: a scheduler with
semaphores, locks, condition variables and channels (`src/thread.c`), the page
and block allocators below it (`src/lib/palloc.c`, `malloc.c`, `bitmap.c`), a
small C library (`string.c`, `stdio.c`), and three client programs that
exercise it. These modules model that code, TLC
checks them on small instances, and TLAPS proves the main invariants of the
scheduler, semaphores, locks, condition variables, channels and allocators, that
the parallel quicksort sorts and the sieve finds the primes, and that scheduler, channels
and heap implement what they promise, for any number of threads, objects, pages, sizes and elements.

Contents: 1 the system · 2 the modules and the code · 3 conventions ·
4 the runs · 5 fairness · 6 the proofs · 7 findings · 8 what is not modelled ·
9 the plan.

## 1. The system

One core, one address space, no interrupts: `boot.S` parks three cores, nothing
enables interrupts, and `thread_init` refuses preemption. A thread runs until it
calls `run()` (`thread.c:60`), so whatever it does between two calls of `run()`
is atomic for the others, and *every* interleaving comes from where in the API a
thread gives the processor up.

| component | state | operations | talks to | what makes it correct |
|---|---|---|---|---|
| Scheduler and threads (`thread.c:1-256`, `swtch.S`) | `current`, `num_thrs`, `ready_list`, `free_list`, `join_list`; in each `struct thread` `handle`, `code`, `in_list`, `join_list` | `thread_init`, `thread_new`, `thread_exit`, `thread_join`, `thread_pause`, `thread_self` | malloc for the struct and its stack; intrusive lists | a thread is on one list at a time; a live thread is never lost; the stack in use is never freed and a dead one always is; a join gets the exit code of the thread it named; join-all returns alone |
| Semaphores (`thread.c:258-324`) | `value`, `waiters` | `sem_init`, `sem_down`, `sem_try_down`, `sem_up` | `put`/`get`/`run` | no lost wakeup, `value` never below 0, although a unit may be taken before the woken thread runs |
| Locks, conditions (`thread.c:326-473`) | `holder`; `cond->waiters`, and a semaphore in the frame of each `cond_wait` | `lock_*`, `cond_*` | semaphores | mutual exclusion; no lost signal; no list element outlives its frame |
| Channels (`thread.c:475-535`) | three semaphores; `ptr` and `size` into the sender's frame | `chan_init`, `chan_send`, `chan_recv` | semaphores | rendezvous: a message is taken once, from a live frame, before the send returns |
| Bitmaps (`lib/bitmap.c`) | words | set, reset, flip, test, count, scan | used by palloc | a bitmap is a set of numbers, whatever words it is spread over; the first run of free bits is found |
| ATAGs (`atags.c`) | a list of tags in memory | `get_atag` | used by palloc | the pool is the first memory chunk |
| Page allocator (`lib/palloc.c`) | `used_map` | `palloc_init`, `get`, `free` | ATAGs for the memory chunk | pages lie in memory and outside of the kernel, are given once, and come back |
| Block allocator (`lib/malloc.c`) | arenas in the pages, a free list per descriptor | `malloc`, `calloc`, `realloc`, `free` | palloc | blocks are disjoint and large enough; counts, lists and pages agree; NULL only when nothing fits |
| Parallel quicksort (`sort_test.c`) | an array, and `args` and the calls of `quick()` on each thread's stack | `quick`, `sort` | `thread_new`, `thread_join(NULL)` | threads work on disjoint ranges; the array is sorted when join-all returns |
| Prime sieve (`sieve_test.c`) | a channel in each thread's frame of `sink()`, its primes, the primes found | `source`, `sink`, `filter`, `sieve_test` | channels, `thread_new`, `thread_join` | the primes come out in order; a channel has one sender and one receiver; the shutdown reaches every thread |
| Strings (`lib/string.c`) | the memory of the caller | `mem*`, `str*` | used by stdio and channels | copies stay in their target and are right when blocks overlap; searches find the first place |
| Formatted output (`lib/stdio.c`) | the arguments left, the text printed | `printf` with flags, width, precision and type of each conversion | UART | a number reads back as its value; a field has its width; `buf` is large enough |
| Counters, UART, random numbers, boot, panic (`spin_test.c`, `uart.c`, `rand.c`, `boot.S`, `debug.c`) | – | – | – | see section 8 |

Shared state is reached through pointers: a thread's stack and struct are one
malloc block; `cond_wait` and `chan_send` publish addresses in their own frame.
The hard behaviours are therefore the order in which blocked threads resume, the
lifetime of what a pointer leads to, and long sequences of legal calls
that bring counts and lists out of step. Nothing is persisted, no message is
lost, and there are no timeouts. The hazards, each at its line, are listed in
`PROJECT.json` with the properties that would catch them.

## 2. The modules and the code

| module | models | state |
|---|---|---|
| `Threads` | the scheduler | `q` (contents of each list, `in_list`, and `ok`: every ASSERT met so far held), `current`, `num_thrs`, `heap` (addresses malloc has handed out), `handle`, `code`, `pc` (where a thread will resume), `status` |
| `Semaphores` (extends `Threads`) | `sem_*` | `value`, `waits_on` |
| `Monitors` (extends `Semaphores`) | `lock_*`, `cond_*` | `holder`, `cond_waiters`, `call_cond`; history `inside` |
| `Channels` (extends `Semaphores`) | `chan_*` | `ptr`, `chan`, `size`; history `received` |
| `Bitmap`, `Palloc` | the operators of bitmaps, of the page allocator and of `get_atag`, no state of their own | – |
| `Malloc` (extends `Palloc`) | the block allocator | `heap` (`used_map`, `arena`, `free_list`, `ok`); history `granted` |
| `Sort` (extends `Threads`) | the parallel quicksort, a step of `quick()` between two calls per action | `nums`, `args`, `calls` (the frames on each stack), `joined`; history `given`, `refused` |
| `Sieve` (extends `Channels`) | the prime sieve; a line between two calls is an action, a call those of `Channels` | `at` (the line a thread is at), `input`, `number`, `primes`, `child`, `actual`; history `refused` |
| `Strings`, `Stdio` (extends `Strings`) | the functions of `string.c` on a memory of bytes; the conversions of `printf` on the items of a format | – |
| `BitmapClient` (extends `Bitmap`) | a client that keeps a set of numbers in a bitmap | `bitmap`; history `on` |
| `StringsClient` (extends `Strings`) | clients that move or fill a block, copy or append a string, or break one into tokens | `mem`, `call`, `save_ptr`, `tokens`; history `before` |
| `MCLibrary` (extends `Stdio`, `StringsClient`, `BitmapClient`) | a bounded client of `printf`, next to those of `Strings` and `Bitmap`, and what its calls must have printed | `part` (of the library: which client runs), `printed`, `out` |
| `AbstractThreads`, `Rendezvous`, `Heap` | abstract specifications: creation, exit and join without a scheduler; what a channel promises; what an allocator promises. `Threads`, `Channels` and `Malloc` end with the refinement mappings (`KeepsPromise`, `KeepsRendezvous`, `KeepsHeap`) | |
| `MC*` | small instances and symmetry | |
| `ThreadsProofs`, `SemaphoresProofs`, `MonitorsProofs`, `ChannelsProofs`, `MallocProofs` (with those about bitmaps), `SortProofs`, `SieveProofs`, `StringsProofs` | the theorems, each module on those below it (section 6) | |

How the code is mapped:

- *Atomicity.* In `Threads` an action is one API call up to its return or
  through its call of `run()`; the rest of a blocked call is an action named
  `..._return` or `..._resume`. `Monitors` and `Channels` split a call at each
  semaphore operation; between two that do not block the caller keeps the
  processor (`pc` says which action is next), so this adds states and not
  interleavings.
- *`run()`* pops `ready_list` without a test. The model makes that visible: with
  an empty list `status` becomes `"stuck"`, and properties say when that may be.
  `"halt"` is the call of `halt()` by the last exit. `swtch` and
  `setup_initial_stack` are the change of `current` and a `pc` of `"user"`.
- *Memory of threads.* A thread is named by its address. `thread_new` may choose
  any address malloc does not hold, so an address freed by `release()` is used
  again. Freed memory is filled with 0xcc (a thread's, which takes whole pages, at `palloc.c:142`; blocks of
  arenas at `malloc.c:237`): `handle` reads `FREED`, which is why
  `thread_join` on a handle that is stale but not in use again returns -1.
- *Lists.* `list.c` is not in the repository. `put`, `get` and the free lists use
  `push_back`, `push_front`, `pop_front`, `remove` and `empty`: a sequence.
- *Callers.* Calls an ASSERT of the callee forbids outright (joining oneself, a
  second thread in `thread_join(NULL)`, releasing a lock one does not hold, a lock
  acquired again by its holder) are not made. ASSERTs about the library's own
  state are evaluated into `q.ok` and `heap.ok`, after which no action is
  enabled, and are properties (`AssertsHold`, `HeapAssertsHold`). Clients free what
  they were given, once. No client exits while it holds a lock.
- *Memory allocator.* `pool.lock` and the lock of each descriptor are left out: no call
  of the allocator gives the processor up while it holds one. (That
  `palloc_free_multiple` takes no lock makes no difference for the same reason.)
  A word of the bitmap is the set of its bits that are on; sizes are computed
  modulo `WORD`.
- *Memory chunks.* `atags` is the list of tags the boot loader left, and walking it by
  the sizes of the tags is the order of that sequence. `palloc_init` takes the
  first memory tag; its PANICs and that of `init_pool` are
  `NoMemory`, under which the heap never starts.
- *Sieve.* Each thread has its own variables `i`, `x`, `primes`, `thread` and,
  in its frame of `sink()`, a channel. `chan_recv` copies the number in the sender's
  variable into the receiver's through the pointers `Channels` keeps: a receive
  of 0 bytes copies nothing and makes the send return 0. The source's `N` is `PER`.
  A `sink()` has always exited when its creator joins it, so `sink_join` has no part
  that waits: if it had to, the model would stop there and `SieveEnds` fail.
- *Library.* Strings are addresses in a memory of bytes, and loops over them are
  functions of the passes or the first place that stops the loop. Integers of `printf` have the width of
  their type in bits (`bits`); a format is a sequence of characters and of
  conversions as they have been read, so the digits of a width or precision are
  one number. ASSERTs of `string.c` that a pointer is not NULL are kept by the callers.
- `interrupts_disable`/`interrupts_set_level` change nothing anyone could see.

## 3. Conventions

Names are the source's: `thread_join`, `sem_down`, `in_list`. An operator
commented *Slip* is a plausible mistake in the code (a lost `put`, an `if` for a
`while`, a missing reset); `PROJECT.json` pairs each checked property with a slip
that violates it, so that no property is true for want of anything that could go wrong. No
specification uses a slip.

`CHECK_DEADLOCK FALSE` appears in the runs of the thread modules because the system does stop: after
the last exit, or when every thread waits. When it may stop is stated by
`StuckOnlyInDeadlock`, `StuckMeansNothingAvailable` and `StuckMonitors`, which
are stronger than TLC's deadlock check. The runs of the heap check deadlock.

## 4. The runs

| run | question |
|---|---|
| `Threads_safety` | Over every order of creation, failed creation, exit, join and pause: does an ASSERT fail, is a thread lost, leaked or freed early? Does the scheduler implement `AbstractThreads` (`KeepsPromise`): the right exit code, even when the address of the joined thread is in use again? Does join-all return alone? |
| `Semaphores_all` | Is a wakeup ever lost, when threads that did not wait may take units (`sem_try_down`, or `sem_down` before the woken thread runs)? Does a ready thread run, and is a unit beside a waiter claimed? |
| `Monitors_safety` | Mutual exclusion; no signal lost when several threads wait, are signalled and come back in any order, others taking the lock in between; no dangling element on `cond->waiters`. |
| `Channels_liveness` | With any number of senders: one message at a time, and a posted one is received while someone waits. |
| `Sort_test` | For every array: do two threads ever work on one element, is every element no thread will touch any more in its place, is the array sorted and complete when `thread_join(NULL)` returns, and does the program end? |
| `Sieve_test` | Are the primes found, in order and completely (`PrimesInOrder`)? Does each channel have one sender and one receiver at a time (`SoleUsers`), and is it then a rendezvous (`KeepsRendezvous`), with the sender's frame alive when it is read (`FramesAlive`), although threads exit and their frames go? Does the receive of 0 bytes end every thread (`SieveEnds`), whichever address malloc chose for each, and what if a `thread_new` fails? |
| `Library_calls` | Do the functions of `string.c` leave in memory, and find there, what their comments say (`MovesBytes`, `BoundedCopies`, `TokensAreFields`, `SearchesAgree`), but for finding 4 and what section 7 says of `memmove`? Does `printf` print numbers that read back as their values, in fields as wide as asked for (`NumbersReadBack`, `FieldsFilled`)? Is a bitmap a set (`BitmapIsSet`)? |
| `Heap_safety` | malloc, calloc, realloc and free in every order: `FreeListsExact`, `NoPageLeak`, `RefusesOnlyWhenFull`, the implementation of `Heap`. The kernel is inside the only chunk, as on the target: is a page of it ever given out, or one below the chunk, or further behind it than finding 3 explains (`PagesNearMemory`)? |
| `Channels_two_senders`, `Heap_calloc`, `Heap_around_kernel`, `Library_strlcat` | four statements of the source's comments that the code does not keep (section 7). |

Bounds, and why they are enough:

- *Threads*: `root` and three others, two exit codes. A joiner of a thread that exits
  and whose address is used by a third one while a fourth waits for all needs four threads; two
  codes tell whose code a join got. Addresses are used again without end, so the
  number of creations is not bounded.
- *Semaphores, Monitors, Channels*: three threads and `MaxValue` = 2: an up, a waiter and
  a thread that takes the unit first. Clients are kept from raising `value`
  above `MaxValue`. One semaphore, initially 1: threads meet only at the same one, and `Monitors`,
  `Channels` and `Sieve` have several. One lock and one condition; one channel, of which two threads may
  be the senders or the receivers. Sizes do not matter to `Channels_liveness`, and are 0; in
  `Sieve_test` and `Channels_two_senders` they are 0 or 1: a number, and the size 0 that shuts the sieve down, which is also the
  case in which a receiver takes less than was sent.
- *Sort*: five elements of three values, all 243 arrays, and `CUTOFF` = 1: both parts of a
  range may be long enough for a thread, either may be sorted by a nested call, and either
  may be empty. Three addresses for threads, which are used again; `thread_new` may fail at any call.
- *Sieve*: the primes up to 20 with filters of three, so the eight of them take three
  sinks in a row (`PER` and `LAST` are 3 and 1000 in the source), and the shutdown passes two filters. Four
  addresses for the threads, in any order, and any `thread_new` may fail.
- *Library*: seven bytes hold every pair of a text and a set of delimiters of up to three
  characters each, with two characters to tell hits from misses; blocks of all sizes and
  places for the copies. Types of 3, 5, 12 and 20 bits keep the order of widths of the target, with arguments
  at the ends of the ranges; `sizeof_buf` is 10, so that a precision of 11 exceeds it
  while 20 bits in octal fit, as 22 digits and 7 separators fit in 64. Bitmaps of 0 to 5 bits lie in words of 2,
  begun from any contents.
- *Heap*: pages of 8 bytes with a header of 2, descriptors of 2 (three blocks to an
  arena) and 4 (one block), a pool of three pages whose bitmap spans two words
  of 2 bits. An arena fills, is refilled, empties and gives its page to a big
  block of one or two pages, and three pages are enough for the pool to fragment. Sizes 0, 2 and 7 are none, a
  block, and two pages; a word has 64 values. The kernel is the second page of the only chunk, so that there is memory
  below it, as on the target; in `Heap_calloc` it is below the first of two chunks.

Symmetry among the threads other than `root` is used where only safety is
checked and nothing names them.

## 5. Fairness

`Sort_test` and `Sieve_test` assume only that the processor goes on executing the one
program: weak fairness of the whole next-state relation, of which one disjunct is
enabled at a time.
`Semaphores_all` and `Channels_liveness` assume weak fairness of two kinds only.
(1) The running thread hands the processor on in the end: it exits, pauses or
makes a call that blocks (`Yield`, `SemYield`). The bodies in the repository are
finite loops or loops over blocking calls, and without it nothing can be promised
on a cooperative scheduler. (2) A call that has been resumed goes on. Nothing is assumed
about *which* thread runs: that follows from `ready_list` being first in, first
out (`ReadyRuns`). That a given waiter gets a unit in the end is not checked because it
is false: a woken thread that finds the unit taken goes to the back of the queue.

## 6. The proofs

`tlapm` proves the theorems `PROJECT.json` lists for every value of the constants, from
the assumptions named `...Assumption` in the modules and from nothing else, unless a theorem says so. Each
safety invariant follows from an inductive one, to which the checked properties had to be
strengthened:

| module | inductive invariant | what it adds, and why it is needed |
|---|---|---|
| `ThreadsProofs` | `ThreadsInv` | That an ASSERT of `get` holds needs `in_list` to agree with the lists (`Sound(q)`: each list is injective, `in_list` says which one); that the stack in use is not freed needs every thread to be where its state says (`Scheduled`, `Placed`); that `release()` frees only the dead needs `Owned` (heap = live threads and those on `free_list`); `ExitLists` needs `num_thrs` to be the number of live threads |
| `SemaphoresProofs` | `SemInv` | `Waiting` (a thread on a semaphore's list is in a `sem_down` on it, and `waits_on` says on which) and `UnitsCovered` (`NoLostWakeup` for the steps between) |
| `MonitorsProofs` | `MonitorInv` | `Holding`: a thread about to release a lock inside `cond_wait` holds it and none that waits for it does, which `MutualExclusion` needs; `Calls`: nobody but its owner waits on the semaphore in a frame of `cond_wait`, which `NoLostSignal` needs. With these the three properties are inductive together |
| `ChannelsProofs` | `ChanInv`, and with a sole sender `SoleInv` and `ReturnInv` | `OneMessage` is inductive for any number of senders once `Calls` says which of the three semaphores each call waits on. It is not enough for `FramesAlive`: `sync` does not say for whom its unit is, which is finding 1. Under `SoleSender`, `SyncAfterCopy` ties that unit to the one sender whose message has been copied, and `FramesAlive` and the refinement follow; `SizeTaken` gives what a send returns |
| `MallocProofs` | `BitmapInv` | The words of the bitmap are words (`IsBitmap`), and the set of the bits that are on is the one the client has built |
| `MallocProofs` | `HeapInv` | `SpansApart`: the spans of pages that headers claim are disjoint and make up the bits of `used_map` that are on; `InArena`: a block lies where the header of its page says; `ListsExact` and `CountsExact`: free lists and counts are what the headers and the blocks clients have imply; `Occupied`: no arena is without a block in use |
| `SortProofs` | `SortInv` | `Todo`, the ranges the calls of `quick()` on all stacks have not dealt with, as triples of thread, height of the call and range. `RangesDisjoint` is not inductive: a suspended call still has the part behind its pivot to hand on, so the parts of all calls must be apart, not only those of different threads; and only the innermost call may use `args` (`Suspended`), at "left" with `args->end` just before the pivot. `Ordered` (two elements are in order or in a common part) is what `FinalPlaces` needs, and it makes the array sorted when `Todo` is empty; that it is when `sort()` returns takes `Phases` and `LastOne` of the scheduler |
| `SieveProofs` | `UseInv`, and with the numbers `DataInv` | `SoleUsers` speaks of threads inside calls; that it stays true depends on where every other thread is. `Roles` says who is the source, who the tail of the chain, and that no two threads read from one channel. It needs a second part for the time in which the chain still grows (`Growing`, `Grows`): no number is refused then, so no thread is on its way out, and the channel in the frame of a thread that is no filter is as new, which is what a filter needs that is about to use it. `PrimesInOrder` needs, for each thread, how far it is done with the numbers (`Done`); between a thread and the one it feeds, that none is overtaken and no prime is lost (`Ahead`) and that the larger primes have been tried before (`Sifted`); and for the tail that it has found all primes up to where it is (`LastLink`) |
| `StringsProofs` | `CallInv`, and for tokens `TokensInv` | The properties speak of one call, but for `TokensAreFields`, which is about many. It needs to know where `strtok_r` goes on and that the string is still what it was from there (`TokensSeen`): every field in front of that place has been returned, and no character that is kept lies just before it, unless the string is at its end |

How the arguments go:

- *Scheduler.* Lemmas state once what `Put`, `Get`, `MoveAll`, `Release` and `run` do to a sound
  `q`; the step theorem then has a step per action. `Semaphores`, `Monitors` and `Channels`
  are layers: each step of the layer below keeps the invariant above because it moves nobody
  from or to the objects above.
- *Refinements.* `ThreadsKeepPromise` maps each action to a step of
  `AbstractThreads` or a stutter, from `ThreadsInv`; `Joins`, whom a thread waits for, is read off its place
  on a list. `ChanRendezvous` maps a send that posts, a receive that copies and the
  return of the send. `HeapKeepsPromise` maps malloc and calloc to `Grant`, free to
  `Release` and realloc to `Resize`.
- *Bitmaps.* The first part of `MallocProofs` shows once that setting a range of bits over words of any width is
  the union or difference of sets (`SetMultiple`) and that a scan finds the first
  run (`ScanFindsFirst`); `BitmapStaysSet` adds the single bits, the counts and the tests. With that, `GetPages` and `FreePages` are facts about sets of pages, and every function of
  `malloc.c` has a lemma that says what it does to a consistent heap.
- *Quicksort.* The loop of `partition()` is a recursive function over its passes (`Divide`, `Pass`).
  What a pass keeps (`PassKeeps`) holds up to the last one by the choice of
  a least counterexample, with `WFMin` of the library (`InductionTo`); hence `PartitionSplits`: the range
  is rearranged, with smaller elements before the pivot and the others behind. A step of `quick()` then splits
  a part in two, hands one to another thread or call, or drops one of at most one element; each keeps
  the parts apart and the order of what they do not share. `StepsOfScheduler` shows that to
  the scheduler each step is one of its client, so that `ThreadsInv` carries over.
- *Sieve.* The lemmas of `ChannelsProofs` about senders assume of a step only that it leaves each channel with
  one sender (`SendsAlone`), and not the constant `SoleSender`. `UseNextInv` shows of each step of the sieve
  that it is one of a client of `Channels` which has this property, so `SoleInv`, and with it `FramesAlive` and the
  refinement of `Rendezvous`, carry over (`SieveIsClient`, `SieveFramesAlive`, `SieveRendezvous`). Then the numbers: there is a lemma
  for each action; `NextPrime` is the heart of it. A number that comes to the tail is divided by
  none of its primes, and by `Sifted` by none of those before; all smaller primes are found; so the least divisor
  of the number above 1, which is prime (`UndividedIsPrime`, by a least counterexample), is the number
  itself. The source leaves out only even numbers (`OddEven`). When a number is above LAST all
  primes up to LAST are found, and the chain stops growing. If a `thread_new` fails the rest of the primes is lost,
  but what has been found stays the primes up to some number.
- *Strings.* A loop that searches is the first place of a set, so a search is a fact about the least member
  (`FirstOfIs`). A loop that copies is a recursive function over the order of the bytes: after `k` of them the
  target holds `k` bytes of the source as they were (`CopyBytesCopies`, by a least counterexample, `HoldsUpTo`),
  because neither order of `memmove` overwrites a byte it has still to read. `StrtokFinds` says what one call
  of `strtok_r` returns and changes, `AnotherToken` that with it `TokensSeen` goes on to hold.
- *Where a hypothesis is needed.* `HeapInv`, and with it that ASSERTs hold, lists and counts are exact, no page
  leaks and NULL means full, needs none: the allocator's books are right even when
  sizes overflow. That a block has room (`BlocksKeepRoom`), and that the bytes of clients are disjoint
  (`HeapKeepsPromise`), needs `NoWrap`: finding 2 is what happens without it. Where the kernel and the chunk are
  matters to neither: the pool may reach past the memory, but its bytes are given out once. `PagesStayNear` says where the pages are, with the kernel in
  the chunk, as on the target, or apart from it: never in the kernel, never below the chunk, and behind it by at
  most what is below `__end`. Its hypothesis `NotFromBelow` excludes only a kernel that begins below the chunk and ends in
  it, which `palloc_init`, looking where `__start` is, would not see. That the pages do lie in the chunk holds where
  the kernel is apart from it (then the excess is 0); with the kernel inside it never does:
  `PoolOverruns` proves finding 3 for every chunk, kernel and page size.
  `SoleSender` (clients have one thread at a time in `chan_send` on a channel) is the hypothesis
  of `ChanFramesAlive`, `ChanSendAwaits` and `ChanRendezvous`, for clients of any other kind and messages of any size; finding 1 is what
  happens without it. The theorems about the sieve need no such hypothesis, and the run `Sieve_test` makes none: there it is proved, and checked, that the rule is kept.

Only model-checked, and why:

- Liveness (`ReadyRuns`, `SortEnds`, `SieveEnds` and the like) and everything that needs ENABLED.
- `NumbersReadBack` and `FieldsFilled`: the digits of `printf` (`Accumulate` in `Stdio`) are a RECURSIVE operator, and
  that they read back as the number they were made of is an induction over data.

## 7. Findings

1. `Channels_two_senders` – `thread.c:494` says that `chan_send` waits for its
   message to be received. `sync` does not say whose was: a second sender can take
   the unit meant for the first, returns its own size with its message unread, and
   leaves `chan->ptr` into its frame. No client has two senders on one channel.
2. `Heap_calloc` – the overflow test of `calloc` (`malloc.c:169`) misses products that wrap
   to something not smaller than either factor.
3. `Heap_around_kernel` – `palloc_init` (`palloc.c:56-58`) changes `mem.start` before it
   computes the new size from it, so the pool is too long by what lies below `__end`.
4. `Library_strlcat` – `string.c:382-384` says that the result is limited to `size - 1` characters and that a null byte
   is always written unless `size` is 0. When the string in `dst` fills the buffer already
   (`string.c:401`) nothing is written. `BoundedCopies` says nothing of what is in the buffer then.

Seen and not given a run:

- `size + sizeof *a` in `malloc` (`malloc.c:111`) wraps for sizes near SIZE_MAX.
- `memmove` (`string.c:49`) returns the pointer it has moved, which is behind the copy
  when it copied upward and not DST (`:23`). No caller uses it.
- `bitmap_scan_and_flip` with `cnt` 0 returns `start` and not 0 (`bitmap.c:292`). Its one caller starts at 0.
- `palloc_init` looks only where `__start` is (`palloc.c:53`): a kernel that reaches into the chunk from below would not be
  taken off it. The linker script and the boot loader do not make one.
- A negative width given by `*` sets `MINUS` after `ZERO` was cleared for it (`stdio.c:148`), so
  `"%0*d"` fills the field twice; `FieldsFilled` leaves this case out. `%p` drops all flags, `-` too. Separators
  of the `'` flag count as digits of the precision. A format that ends inside a
  conversion is read past its end (`stdio.c:395` and `:370`).
- `sort_test` passes when it cannot allocate its array (`sort_test.c:100`).

`-value` for the least `intmax_t` (`stdio.c:458`) overflows, which C leaves undefined; with the
wrap-around of the target it prints right, and that is what `NumbersReadBack` shows.

## 8. Not modelled

- `spin_test.c`: its threads never give the processor up between two lines of their loops, so
  each is one step, and its lock is never contended (`Monitors` covers a contended one). `kernel_main.c` calls
  the initialisers and the tests in a row.
- The UART, GPIO and random number registers: pure I/O with busy waits.
- `boot.S`, `linker.ld`, `halt.S`; panic, backtrace and `hex_dump`, which is output. That an ASSERT fails is
  modelled, what is printed then is not. `print_atags` is output too.
- `bitmap_create` and `bitmap_destroy`, which nothing calls, and `bitmap_dump`.
- The flags PAL_ZERO and PAL_ASSERT, which no caller passes.
- In `printf`, how the characters of a conversion are scanned, the wording of messages for
  conversions that are not supported, and the number of characters returned.
- Preemption: `thread_init` refuses it. `palloc_free_multiple` would need `pool.lock` under it.

## 9. The plan

Done: every module of section 2, the runs, and the proofs for all of the thread library, for
the heap and the bitmaps below it, for the functions of `string.c`, for the quicksort and the sieve, with the refinements of the three abstract
specifications. Left, should the code change or the provers allow it:

1. The digits and fields of `printf`, for integers of any width.
2. A client with preemption, if `thread_init` is ever to allow it: `palloc_free_multiple` takes no lock.
