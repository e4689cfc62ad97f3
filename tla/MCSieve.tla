------------------------------ MODULE MCSieve ------------------------------
(* The sieve up to LAST, with filters of PER primes.  A semaphore is named *)
(* by its channel and its field, a channel by the thread whose frame of    *)
(* sink() it is in; that of sieve_test() is in the frame of root.          *)
EXTENDS Sieve

FrameChan == [t \in Thread |-> <<t, "chan">>]
Channel == Range(FrameChan)
FieldOf(field) == [c \in Channel |-> <<c, field>>]
SendField == FieldOf("send")
RecvField == FieldOf("recv")
SyncField == FieldOf("sync")
Semaphore == Range(SendField) \cup Range(RecvField) \cup Range(SyncField)
Start == [s \in Semaphore |-> IF s[2] = "send" THEN 1 ELSE 0]
=============================================================================
