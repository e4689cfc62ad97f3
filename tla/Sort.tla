-------------------------------- MODULE Sort --------------------------------
(***************************************************************************)
(* The parallel quicksort of sort_test.c, a client of the scheduler.       *)
(*                                                                         *)
(* quick() sorts a range of nums: it partitions it, hands each part that   *)
(* is longer than CUTOFF to a new thread, with a copy of args, and sorts   *)
(* the others itself, with the same args.  sort() calls it in root and     *)
(* then waits for all threads.  A step of quick() between two calls is an  *)
(* action; none of them gives the processor up before the thread exits.    *)
(***************************************************************************)
EXTENDS Threads

CONSTANTS
  N,        \* length of the array
  CUTOFF,
  Value     \* what the elements may be

ASSUME SortAssumption ==
  /\ N \in Nat \ {0} /\ CUTOFF \in Nat
  /\ Value \subseteq Int
  /\ 0 \in Code

Index == 0 .. N - 1

VARIABLES
  nums,     \* the array
  args,     \* start and end in each thread's args; end may be start - 1
  calls,    \* the calls of quick() on each thread's stack, innermost first:
            \* at, where the call goes on, and its variables pos and end
  joined,   \* whether sort() has returned
  given,    \* history: the array sort() was given
  refused   \* history: whether a thread_new of quick() has returned NULL

arrayVars == <<nums, given>>
callVars == <<args, calls>>
sortVars == <<arrayVars, callVars, joined, refused>>
allVars == <<threadVars, sortVars>>

Entry == [at |-> "quick", pos |-> 0, end |-> 0]

SortInit ==
  /\ ThreadsInit
  /\ nums \in [Index -> Value]
  /\ given = nums
  /\ args = [t \in Thread |-> [start |-> 0, end |-> N - 1]]
  /\ calls = [t \in Thread |-> IF t = root THEN <<Entry>> ELSE <<>>]
  /\ joined = FALSE
  /\ refused = FALSE

---------------------------------------------------------------------------
swap(a, i, j) == [a EXCEPT ![i] = a[j], ![j] = a[i]]

(* One pass of the loop of partition(), in the state s. *)
Pass(s, pivot) ==
  IF s.nums[s.start] < pivot
  THEN [s EXCEPT !.start = @ + 1]
  ELSE [s EXCEPT !.nums = swap(@, s.start, s.end), !.end = @ - 1]

(* The loop: start <= end holds until each element of the range has had    *)
(* its pass.                                                               *)
Divide(a, start, end, pivot) ==
  LET loop[k \in 0 .. end - start + 1] ==
        IF k = 0 THEN [nums |-> a, start |-> start, end |-> end]
                 ELSE Pass(loop[k - 1], pivot)
  IN loop[end - start + 1]

(* Slip: the pivot is not put between the two parts. *)
partition_leaves_pivot(a, start, end, pos) ==
  LET divided == Divide(swap(a, pos, end), start, end - 1, a[pos])
  IN [nums |-> divided.nums, pos |-> divided.start]

(* The array with the pivot a[pos] between the smaller elements and the    *)
(* others, and where the pivot is.                                         *)
partition(a, start, end, pos) ==
  LET divided == Divide(swap(a, pos, end), start, end - 1, a[pos])
  IN [nums |-> swap(divided.nums, divided.start, pos), pos |-> divided.start]

(* The running thread's innermost call of quick() is at label. *)
QuickAt(label) ==
  /\ At("user")
  /\ calls[current] # <<>> /\ Head(calls[current]).at = label

GoOn(label) == <<[Head(calls[current]) EXCEPT !.at = label]>> \o Tail(calls[current])

(* quick() from its beginning to the assignment args->end = pos - 1. *)
quick ==
  LET a == args[current]
      p == partition(nums, a.start, a.end, a.end)
  IN /\ QuickAt("quick")
     /\ IF a.start < a.end
        THEN /\ nums' = p.nums
             /\ args' = [args EXCEPT ![current].end = p.pos - 1]
             /\ calls' = [calls EXCEPT ![current] =
                  <<[at |-> "left", pos |-> p.pos, end |-> a.end]>> \o Tail(@)]
        ELSE /\ calls' = [calls EXCEPT ![current] = GoOn("return")]
             /\ UNCHANGED <<nums, args>>
     /\ UNCHANGED <<threadVars, given, joined, refused>>

(* args describes the range: a new thread sorts it, or a call. *)
Delegate(range, label) ==
  \/ /\ range.end - range.start + 1 > CUTOFF
     /\ \/ /\ \E t \in Thread :
                /\ thread_new(t)
                /\ args' = [args EXCEPT ![current] = range, ![t] = range]
                /\ calls' = [calls EXCEPT ![current] = GoOn(label), ![t] = <<Entry>>]
           /\ UNCHANGED refused
        \/ /\ thread_new_fails
           /\ args' = [args EXCEPT ![current] = range]
           /\ calls' = [calls EXCEPT ![current] = GoOn(label)]
           /\ refused' = TRUE
  \/ /\ range.end - range.start + 1 <= CUTOFF
     /\ args' = [args EXCEPT ![current] = range]
     /\ calls' = [calls EXCEPT ![current] = <<Entry>> \o GoOn(label)]
     /\ UNCHANGED <<threadVars, refused>>

quick_left ==
  /\ QuickAt("left")
  /\ Delegate(args[current], "right")
  /\ UNCHANGED <<arrayVars, joined>>

(* Slip: args->start is not moved behind the pivot. *)
quick_right_keeps_start ==
  /\ QuickAt("right")
  /\ Delegate([args[current] EXCEPT !.end = Head(calls[current]).end], "return")
  /\ UNCHANGED <<arrayVars, joined>>

quick_right ==
  LET frame == Head(calls[current])
  IN /\ QuickAt("right")
     /\ Delegate([start |-> frame.pos + 1, end |-> frame.end], "return")
     /\ UNCHANGED <<arrayVars, joined>>

quick_return ==
  /\ QuickAt("return")
  /\ calls' = [calls EXCEPT ![current] = Tail(@)]
  /\ UNCHANGED <<threadVars, arrayVars, args, joined, refused>>

(* A thread whose quick() has returned 0 exits, root after sort(). *)
finish ==
  /\ calls[current] = <<>>
  /\ current = root => joined
  /\ thread_exit(0)
  /\ UNCHANGED sortVars

(* The call thread_join(NULL) of sort(), and its return. *)
sort_join ==
  /\ current = root /\ calls[root] = <<>> /\ ~joined
  /\ thread_join_all
  /\ joined' = (num_thrs = 1)
  /\ UNCHANGED <<arrayVars, callVars, refused>>

sort_join_return ==
  /\ thread_join_all_return
  /\ joined' = TRUE
  /\ UNCHANGED <<arrayVars, callVars, refused>>

SortNext ==
  \/ quick
  \/ quick_left
  \/ quick_right
  \/ quick_return
  \/ finish
  \/ sort_join
  \/ sort_join_return

SortSpec == SortInit /\ [][SortNext]_allVars

(* The processor goes on executing the program. *)
SortFairSpec == SortSpec /\ WF_allVars(SortNext)

---------------------------------------------------------------------------
(* Properties. *)

(* The indices a call of quick() may still read or write itself or have    *)
(* sorted by others; the parts it has handed on are not among them.        *)
Pending(t, frame) ==
  CASE frame.at = "quick"  -> args[t].start .. args[t].end
    [] frame.at = "left"   -> (args[t].start .. args[t].end) \cup (frame.pos + 1 .. frame.end)
    [] frame.at = "right"  -> frame.pos + 1 .. frame.end
    [] frame.at = "return" -> {}

Mine(t) == UNION {Pending(t, frame) : frame \in Range(calls[t])}

(* No two threads work on the same element: although a thread changes args *)
(* after it has given them to another, the parts stay disjoint.            *)
RangesDisjoint == \A t, u \in Live : t # u => Mine(t) \cap Mine(u) = {}

(* An element no thread will touch any more is where it belongs, unless a  *)
(* part of the array has been dropped because thread_new failed.           *)
FinalPlaces ==
  ~refused =>
    \A i \in Index \ UNION {Mine(t) : t \in Live}, j \in Index :
      (i < j => nums[i] <= nums[j]) /\ (j < i => nums[j] <= nums[i])

(* How often v occurs in the array a. *)
Occurrences(a, v) == Cardinality({i \in Index : a[i] = v})

(* When sort() returns the array is sorted, and it is a rearrangement of   *)
(* the one sort() was given, even if threads could not be created.         *)
SortTestPasses ==
  joined =>
    /\ \A v \in Value : Occurrences(nums, v) = Occurrences(given, v)
    /\ ~refused => \A i \in 0 .. N - 2 : nums[i] <= nums[i + 1]

(* The program ends with the exit of root, the last thread. *)
SortEnds == <>(status = "halt")
=============================================================================
