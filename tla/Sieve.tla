------------------------------- MODULE Sieve -------------------------------
(***************************************************************************)
(* The prime sieve of sieve_test.c, a client of channels and threads.      *)
(*                                                                         *)
(* source() sends 2, 3, 5, 7, 9, ... down a chain of channels.  A thread   *)
(* in sink() keeps the numbers none of its primes divides; once it has PER *)
(* primes it makes a channel in its own frame and a new sink() to read     *)
(* from it, and becomes a filter().  The sink() that sees a number above   *)
(* LAST receives 0 bytes instead of the next one: the send of 0 bytes      *)
(* tells its sender to do the same, and so on up to source().              *)
(***************************************************************************)
EXTENDS Channels, SequencesExt

CONSTANTS
  PER,        \* N in the source: how many primes a filter divides by
  LAST,
  frame_chan  \* the variable chan in each thread's frame of sink(), and in
              \* root's frame of sieve_test()

ASSUME SieveAssumption ==
  /\ PER \in Nat \ {0} /\ LAST \in Nat
  /\ frame_chan \in [Thread -> Chan] /\ IsInjective(frame_chan)
  /\ 0 \in Code /\ MaxSize = 1

first_chan == frame_chan[root]

VARIABLES
  at,       \* where a thread is in its own program
  input,    \* the channel a thread was created with
  number,   \* i of source() and x of sink() and filter()
  primes,   \* the array primes of sink()
  child,    \* thread of sink()
  actual,   \* the primes found
  refused   \* history: whether a thread_new has returned NULL

sieveVars == <<at, input, number, primes, child, actual, refused>>
sieveAll == <<allVars, sieveVars>>

SieveInit ==
  /\ ChanInit
  /\ at = [t \in Thread |-> IF t = root THEN "new_source" ELSE "return"]
  /\ input = [t \in Thread |-> first_chan]
  /\ number = [t \in Thread |-> 0]
  /\ primes = [t \in Thread |-> <<>>]
  /\ child = [t \in Thread |-> NULL]
  /\ actual = <<>>
  /\ refused = FALSE

(* The running thread is in its own program, at label. *)
SieveAt(label) == At("user") /\ at[current] = label

GoTo(label) == at' = [at EXCEPT ![current] = label]

OwnStep == UNCHANGED <<threadVars, semVars, chanVars>>

---------------------------------------------------------------------------
(* Channels: the program waits at the label after while a call goes on.    *)

Send(c, label) ==
  /\ chan_send(c, 1)
  /\ GoTo(label)
  /\ UNCHANGED <<input, number, primes, child, actual, refused>>

(* chan_recv with a buffer of the size of an int, or of 0 bytes. *)
Recv(c, n, label) ==
  /\ chan_recv(c, n)
  /\ GoTo(label)
  /\ UNCHANGED <<input, number, primes, child, actual, refused>>

(* The memcpy of chan_recv: the int goes from the sender's variable to the *)
(* receiver's if its buffer has room for it.                               *)
RecvCopy ==
  \E n \in Size :
    /\ chan_recv_copy(n)
    /\ number' = IF n = 0 THEN number
                 ELSE [number EXCEPT ![current] = number[ptr[chan[current]]]]
    /\ UNCHANGED <<at, input, primes, child, actual, refused>>

InCall ==
  \/ RecvCopy
  \/ /\ \/ chan_send_resume \/ chan_send_post \/ chan_send_sync
        \/ chan_recv_resume \/ chan_recv_return
     /\ UNCHANGED sieveVars

(* thread_new(...) of a thread that begins at body, with the channel c. *)
Spawn(body, c, label) ==
  /\ UNCHANGED <<ptr, chan, size, received, actual>>
  /\ \/ \E t \in Thread :
          /\ thread_new(t)
          /\ at' = [at EXCEPT ![current] = label, ![t] = body]
          /\ input' = [input EXCEPT ![t] = c]
          /\ primes' = [primes EXCEPT ![t] = <<>>]
          /\ child' = [child EXCEPT ![current] = t, ![t] = NULL]
          /\ UNCHANGED refused
     \/ /\ thread_new_fails
        /\ GoTo(label)
        /\ child' = [child EXCEPT ![current] = NULL]
        /\ refused' = TRUE
        /\ UNCHANGED <<input, primes>>

---------------------------------------------------------------------------
(* sieve_test() in root. *)

sieve_test_new ==
  \/ SieveAt("new_source") /\ Spawn("source", first_chan, "new_sink")
                           /\ UNCHANGED <<semVars, number>>
  \/ SieveAt("new_sink") /\ Spawn("sink", first_chan, "join_all")
                         /\ UNCHANGED <<semVars, number>>

sieve_test_join ==
  \/ /\ SieveAt("join_all")
     /\ thread_join_all
     /\ GoTo("return")
     /\ UNCHANGED <<semVars, chanVars, input, number, primes, child, actual, refused>>
  \/ /\ thread_join_all_return
     /\ UNCHANGED <<semVars, chanVars, sieveVars>>

---------------------------------------------------------------------------
(* source(): 2 first, then the odd numbers until a send returns 0. *)

source_begin ==
  /\ SieveAt("source")
  /\ number' = [number EXCEPT ![current] = 2]
  /\ GoTo("source_send")
  /\ OwnStep
  /\ UNCHANGED <<input, primes, child, actual, refused>>

source_send == SieveAt("source_send") /\ Send(input[current], "source_sent")

(* Slip: the result of chan_send is not looked at. *)
source_sent_always ==
  /\ SieveAt("source_sent")
  /\ number' = [number EXCEPT ![current] = IF @ = 2 THEN 3 ELSE @ + 2]
  /\ number[current] <= 2 * LAST
  /\ GoTo("source_send")
  /\ OwnStep
  /\ UNCHANGED <<input, primes, child, actual, refused>>

source_sent ==
  /\ SieveAt("source_sent")
  /\ IF size[current] = 0
     THEN GoTo("return") /\ UNCHANGED number
     ELSE /\ number' = [number EXCEPT ![current] = IF @ = 2 THEN 3 ELSE @ + 2]
          /\ GoTo("source_send")
  /\ OwnStep
  /\ UNCHANGED <<input, primes, child, actual, refused>>

---------------------------------------------------------------------------
(* sink() and filter(). *)

(* Slip: only the last of the primes is tried. *)
IsMultipleOfLast(t) == primes[t] # <<>> /\ number[t] % Last(primes[t]) = 0

IsMultiple(t) == \E p \in Range(primes[t]) : number[t] % p = 0

sink_recv == SieveAt("sink") /\ Recv(input[current], 1, "sink_received")

sink_received ==
  /\ SieveAt("sink_received")
  /\ IF IsMultiple(current)
     THEN GoTo("sink") /\ UNCHANGED <<primes, actual>>
     ELSE IF number[current] > LAST
     THEN GoTo("stop") /\ UNCHANGED <<primes, actual>>
     ELSE /\ actual' = Append(actual, number[current])
          /\ primes' = [primes EXCEPT ![current] = Append(@, number[current])]
          /\ GoTo(IF Len(primes'[current]) = PER THEN "new_filter" ELSE "sink")
  /\ OwnStep
  /\ UNCHANGED <<input, number, child, refused>>

(* chan_init(&chan) and thread_new(sink, &chan, 0).  Nobody waits on the   *)
(* channel then, and chan_send sets ptr before a receiver reads it.        *)
sink_new_filter ==
  LET c == frame_chan[current]
  IN /\ SieveAt("new_filter")
     /\ Spawn("sink", c, "filter")
     /\ value' = [value EXCEPT ![send[c]] = 1, ![recv[c]] = 0, ![sync[c]] = 0]
     /\ UNCHANGED <<waits_on, number>>

filter_recv == SieveAt("filter") /\ Recv(input[current], 1, "filter_received")

filter_received ==
  /\ SieveAt("filter_received")
  /\ GoTo(IF IsMultiple(current) THEN "filter" ELSE "filter_send")
  /\ OwnStep
  /\ UNCHANGED <<input, number, primes, child, actual, refused>>

(* Slip: the wrong one of the two channels. *)
filter_send_upstream ==
  SieveAt("filter_send") /\ Send(input[current], "filter_sent")

filter_send == SieveAt("filter_send") /\ Send(frame_chan[current], "filter_sent")

filter_sent ==
  /\ SieveAt("filter_sent")
  /\ GoTo(IF size[current] = 0 THEN "filter_stop" ELSE "filter")
  /\ OwnStep
  /\ UNCHANGED <<input, number, primes, child, actual, refused>>

(* chan_recv(input, &x, 0), at the end of filter() or of sink(). *)
stop_recv ==
  \/ SieveAt("filter_stop") /\ Recv(input[current], 0, "join")
  \/ SieveAt("stop") /\ Recv(input[current], 0, "return")

(* thread_join(thread) of the sink() it created, which has exited: it goes *)
(* on from its last receive to its end before the filter can run, so that  *)
(* the call never blocks.                                                  *)
sink_join ==
  /\ SieveAt("join")
  /\ thread_join(child[current])
  /\ GoTo("return")
  /\ UNCHANGED <<semVars, chanVars, input, number, primes, child, actual, refused>>

finish ==
  /\ SieveAt("return")
  /\ thread_exit(0)
  /\ UNCHANGED <<semVars, chanVars, sieveVars>>

SieveNext ==
  \/ InCall
  \/ sieve_test_new
  \/ sieve_test_join
  \/ source_begin
  \/ source_send
  \/ source_sent
  \/ sink_recv
  \/ sink_received
  \/ sink_new_filter
  \/ filter_recv
  \/ filter_received
  \/ filter_send
  \/ filter_sent
  \/ stop_recv
  \/ sink_join
  \/ finish

(* The processor goes on executing the program. *)
SieveSpec == SieveInit /\ [][SieveNext]_sieveAll /\ WF_sieveAll(SieveNext)

---------------------------------------------------------------------------
(* Properties. *)

IsPrime(n) == n > 1 /\ \A d \in 2 .. n - 1 : n % d # 0

PrimesUpTo(n) == {p \in 1 .. n : IsPrime(p)}

(* The primes are found in order, none is left out and no other number is  *)
(* among them; when the program ends all those up to LAST have been found. *)
PrimesInOrder ==
  /\ \A i, j \in DOMAIN actual : i < j => actual[i] < actual[j]
  /\ \E n \in 0 .. LAST : Range(actual) = PrimesUpTo(n)
  /\ status = "halt" /\ ~refused => Range(actual) = PrimesUpTo(LAST)

(* The rule that channels work under: one thread at a time sends on a      *)
(* channel, and here one thread at a time receives on it.                  *)
SoleUsers ==
  \A c \in Chan :
    /\ Cardinality({t \in Thread : chan[t] = c /\ InSend(t)}) <= 1
    /\ Cardinality(Reached(c, {"recv_down", "recv_copy", "recv_up"})) <= 1

(* The receive of 0 bytes travels up the chain: every thread ends, none is *)
(* left waiting on a channel, if all the threads could be created.         *)
SieveEnds == <>(status = "halt" \/ refused)
=============================================================================
