---------------------------- MODULE Rendezvous -----------------------------
(***************************************************************************)
(* What a channel promises: a message is received once, by one receiver,   *)
(* who takes what fits in its buffer; the send returns after that, with    *)
(* the number of bytes taken.                                              *)
(***************************************************************************)
EXTENDS Integers

CONSTANTS Thread, Chan, Size, NULL

VARIABLES
  message,  \* the channel and size of the message a thread is sending, or
            \* NULL; the size is what the send returns once it is taken
  taken     \* the bytes a receiver took of that message, or NULL

vars == <<message, taken>>

Init ==
  /\ message = [t \in Thread |-> NULL]
  /\ taken = [t \in Thread |-> NULL]

Send(t, c, n) ==
  /\ message[t] = NULL
  /\ message' = [message EXCEPT ![t] = [chan |-> c, size |-> n]]
  /\ UNCHANGED taken

(* A receiver with a buffer of n bytes takes the message of t. *)
Receive(t, n) ==
  LET bytes == IF n < message[t].size THEN n ELSE message[t].size
  IN /\ message[t] # NULL /\ taken[t] = NULL
     /\ message' = [message EXCEPT ![t].size = bytes]
     /\ taken' = [taken EXCEPT ![t] = bytes]

SendReturns(t) ==
  /\ taken[t] # NULL
  /\ message' = [message EXCEPT ![t] = NULL]
  /\ taken' = [taken EXCEPT ![t] = NULL]

Next ==
  \E t \in Thread :
    \/ \E c \in Chan, n \in Size : Send(t, c, n)
    \/ \E n \in Size : Receive(t, n)
    \/ SendReturns(t)

Spec == Init /\ [][Next]_vars
============================================================================
