----------------------------- MODULE Channels ------------------------------
(***************************************************************************)
(* The synchronous channels of thread.c, on top of its semaphores.         *)
(*                                                                         *)
(* chan_send publishes pointers into its own frame (chan->ptr, chan->size) *)
(* and waits on sync; chan_recv copies through them, writes the number of  *)
(* bytes it copied to *chan->size, and ups sync and then send.  A call is  *)
(* one action per semaphore operation; between two of them the caller      *)
(* keeps the processor.                                                    *)
(*                                                                         *)
(* sync does not say for whom a unit is.  With SoleSender the clients keep *)
(* to what those in the repository do: a thread sends on a channel only    *)
(* while no other thread is in chan_send on it.                            *)
(***************************************************************************)
EXTENDS Semaphores, FiniteSetsExt

CONSTANTS
  Chan,
  send, recv, sync,  \* the three semaphores of each channel
  MaxSize,           \* bound on the sizes of messages and of buffers
  SoleSender

Size == 0 .. MaxSize

ASSUME ChannelsAssumption ==
  /\ {send, recv, sync} \subseteq [Chan -> Sem]
  /\ \A c, d \in Chan :
       /\ {send[c]} \cap {recv[d], sync[d]} = {} /\ recv[c] # sync[d]
       /\ c # d => send[c] # send[d] /\ recv[c] # recv[d] /\ sync[c] # sync[d]
  /\ \A c \in Chan : Initial[send[c]] = 1 /\ Initial[recv[c]] = 0
                                          /\ Initial[sync[c]] = 0
  /\ MaxSize \in Nat
  /\ NULL \notin Chan /\ NULL \notin Size /\ NULL \notin [chan : Chan, size : Size]
  /\ SoleSender \in BOOLEAN

VARIABLES
  ptr,       \* whose frame chan->ptr and chan->size point into
  chan,      \* the channel of the call a thread is in, or NULL
  size,      \* the size argument of that call, then what it returns
  received   \* history: the bytes a receiver copied of the message a thread
             \* is sending; NULL until then

chanVars == <<ptr, chan, size, received>>
allVars == <<threadVars, semVars, chanVars>>

ChanInit ==
  /\ SemInit
  /\ ptr = [c \in Chan |-> NULL]
  /\ chan = [t \in Thread |-> NULL]
  /\ size = [t \in Thread |-> 0]
  /\ received = [t \in Thread |-> NULL]

InSend(t) == pc[t] \in {"send_down", "send_post", "send_sync"}

(* The running thread is in no call any more. *)
Returns == chan' = [chan EXCEPT ![current] = NULL]

---------------------------------------------------------------------------
(* Slip: sem_down(&chan->send) is left out. *)
chan_send_at_once(c, n) ==
  /\ At("user")
  /\ SoleSender => \A t \in Thread : ~(InSend(t) /\ chan[t] = c)
  /\ pc' = [pc EXCEPT ![current] = "send_post"]
  /\ chan' = [chan EXCEPT ![current] = c]
  /\ size' = [size EXCEPT ![current] = n]
  /\ received' = [received EXCEPT ![current] = NULL]
  /\ UNCHANGED <<q, current, num_thrs, heap, handle, code, status, semVars, ptr>>

(* chan_send(c, ptr, n): sem_down(&chan->send), once ... *)
chan_send(c, n) ==
  /\ At("user")
  /\ SoleSender => \A t \in Thread : ~(InSend(t) /\ chan[t] = c)
  /\ Down(send[c], "send_down", "send_post")
  /\ chan' = [chan EXCEPT ![current] = c]
  /\ size' = [size EXCEPT ![current] = n]
  /\ received' = [received EXCEPT ![current] = NULL]
  /\ UNCHANGED ptr

(* ... or again after a wakeup, ... *)
chan_send_resume ==
  /\ At("send_down")
  /\ Down(send[chan[current]], "send_down", "send_post")
  /\ UNCHANGED chanVars

(* ... then the pointers and sem_up(&chan->recv), ... *)
chan_send_post ==
  /\ At("send_post")
  /\ ptr' = [ptr EXCEPT ![chan[current]] = current]
  /\ Up(recv[chan[current]], "send_sync")
  /\ UNCHANGED <<chan, size, received>>

(* Slip: the sender does not wait for the receiver. *)
chan_send_no_sync ==
  /\ At("send_sync")
  /\ pc' = [pc EXCEPT ![current] = "user"]
  /\ Returns
  /\ UNCHANGED <<q, current, num_thrs, heap, handle, code, status, semVars,
                 ptr, size, received>>

(* ... and sem_down(&chan->sync), after which size is returned. *)
chan_send_sync ==
  /\ At("send_sync")
  /\ Down(sync[chan[current]], "send_sync", "user")
  /\ IF value[sync[chan[current]]] = 0 THEN UNCHANGED chan ELSE Returns
  /\ UNCHANGED <<ptr, size, received>>

(* chan_recv(c, ptr, n): sem_down(&chan->recv), once or again, ... *)
chan_recv(c, n) ==
  /\ At("user")
  /\ Down(recv[c], "recv_down", "recv_copy")
  /\ chan' = [chan EXCEPT ![current] = c]
  /\ size' = [size EXCEPT ![current] = n]
  /\ UNCHANGED <<ptr, received>>

chan_recv_resume ==
  /\ At("recv_down")
  /\ Down(recv[chan[current]], "recv_down", "recv_copy")
  /\ UNCHANGED chanVars

(* Slip: *chan->size is not written. *)
chan_recv_copy_silent(n) ==
  LET s == ptr[chan[current]]
  IN /\ At("recv_copy")
     /\ Up(sync[chan[current]], "recv_up")
     /\ n = Min({size[s], size[current]})
     /\ size' = [size EXCEPT ![current] = n]
     /\ received' = [received EXCEPT ![s] = n]
     /\ UNCHANGED <<ptr, chan>>

(* ... the copy and sem_up(&chan->sync), ...  When the sender has returned *)
(* its frame is gone: any size may be read, and the size written there may *)
(* or may not change that of a later call.                                 *)
chan_recv_copy(n) ==
  LET s == ptr[chan[current]]
  IN /\ At("recv_copy")
     /\ Up(sync[chan[current]], "recv_up")
     /\ IF pc[s] = "send_sync" /\ chan[s] = chan[current]
        THEN /\ n = Min({size[s], size[current]})
             /\ size' = [size EXCEPT ![s] = n, ![current] = n]
             /\ received' = [received EXCEPT ![s] = n]
        ELSE /\ n <= size[current]
             /\ \E m \in {size[s], n} :
                  size' = [size EXCEPT ![s] = m, ![current] = n]
             /\ UNCHANGED received
     /\ UNCHANGED <<ptr, chan>>

(* ... and sem_up(&chan->send). *)
chan_recv_return ==
  /\ At("recv_up")
  /\ Up(send[chan[current]], "user")
  /\ Returns
  /\ UNCHANGED <<ptr, size, received>>

ChanNext ==
  \/ ThreadsNext /\ UNCHANGED <<semVars, chanVars>>
  \/ \E c \in Chan, n \in Size : chan_send(c, n) \/ chan_recv(c, n)
  \/ chan_send_resume
  \/ chan_send_post
  \/ chan_send_sync
  \/ chan_recv_resume
  \/ \E n \in Size : chan_recv_copy(n)
  \/ chan_recv_return

ChanSpec == ChanInit /\ [][ChanNext]_allVars

(* Fairness as in Semaphores: a thread yields in the end, and a call that  *)
(* has the processor goes on.                                              *)
ChanFairSpec ==
  /\ ChanSpec
  /\ WF_allVars(Yield /\ UNCHANGED <<semVars, chanVars>>)
  /\ WF_allVars((thread_join_return \/ thread_join_all_return)
                  /\ UNCHANGED <<semVars, chanVars>>)
  /\ WF_allVars(chan_send_resume \/ chan_send_post \/ chan_send_sync)
  /\ WF_allVars(chan_recv_resume \/ chan_recv_return
                  \/ \E n \in Size : chan_recv_copy(n))

---------------------------------------------------------------------------
(* Properties. *)

ChanTypeOK ==
  /\ SemTypeOK
  /\ ptr \in [Chan -> Thread \cup {NULL}]
  /\ chan \in [Thread -> Chan \cup {NULL}]
  /\ size \in [Thread -> Size]
  /\ received \in [Thread -> Size \cup {NULL}]

(* The threads in a call on c that have reached one of the labels. *)
Reached(c, labels) == {t \in Thread : chan[t] = c /\ pc[t] \in labels}

(* A channel carries one message at a time: the right to use it is in send *)
(* or recv as a unit, or with one thread between the downs and ups.        *)
OneMessage ==
  \A c \in Chan :
    value[send[c]] + value[recv[c]]
      + Cardinality(Reached(c, {"send_post", "recv_copy", "recv_up"})) = 1

(* A receiver never follows a pointer into a frame that is gone: when it   *)
(* may read *chan->size, the sender is still in chan_send, and no receiver *)
(* has copied this message before.                                         *)
FramesAlive ==
  \A c \in Chan :
    value[recv[c]] = 1 \/ Reached(c, {"recv_copy"}) # {} =>
      /\ ptr[c] \in Reached(c, {"send_sync"})
      /\ received[ptr[c]] = NULL

(* chan_send waits for the receiver to receive the message before it       *)
(* returns the number of bytes the receiver copied.                        *)
SendAwaitsReceiver ==
  [][\A t \in Thread :
       pc[t] = "send_sync" /\ pc'[t] = "user" => size'[t] = received[t]]_allVars

(* A message that has been posted and a thread that waits for one do not   *)
(* stay side by side.                                                      *)
MessagesArrive ==
  \A c \in Chan :
    value[recv[c]] = 1 /\ Reached(c, {"recv_down"}) # {} ~> value[recv[c]] = 0

(* The message of a thread is the size argument in its frame of chan_send, *)
(* which the receiver overwrites with the number of bytes it took.         *)
Message ==
  [t \in Thread |-> IF InSend(t) THEN [chan |-> chan[t], size |-> size[t]] ELSE NULL]

Taken == [t \in Thread |-> IF InSend(t) THEN received[t] ELSE NULL]

Promise == INSTANCE Rendezvous WITH message <- Message, taken <- Taken

(* Channels keep the promise of Rendezvous: no message is received twice,  *)
(* and a send returns after its message has been received, with the number *)
(* of bytes its receiver took.                                             *)
KeepsRendezvous == Promise!Spec
============================================================================
