----------------------------- MODULE SieveProofs -----------------------------
(***************************************************************************)
(* Proofs about Sieve, for any number of threads, any PER and any LAST:    *)
(* every step of the sieve is one of Channels that keeps the rule for      *)
(* senders, no channel is ever sent on or received from by two threads,    *)
(* and the primes are found in order and completely.                       *)
(***************************************************************************)
EXTENDS Sieve, ChannelsProofs, WellFoundedInduction

---------------------------------------------------------------------------
(* Where the threads are. *)

SourceAt == {"source", "source_send", "source_sent"}
TailAt == {"sink", "sink_received", "new_filter"}
FilterAt == {"filter", "filter_received", "filter_send", "filter_sent"}
StopAt == {"stop", "filter_stop", "join"}
BeginAt == {"new_source", "new_sink"}
Places == SourceAt \cup TailAt \cup FilterAt \cup StopAt \cup BeginAt \cup {"join_all", "return"}

Receiving(t) == pc[t] \in {"recv_down", "recv_copy", "recv_up"}

(* The thread may receive on its input, now or later. *)
Reads(t) == at[t] \in TailAt \cup FilterAt \cup {"stop", "filter_stop"} \/ Receiving(t)

(* The channel is as chan_init leaves it. *)
Unused(c) == value[send[c]] = 1 /\ value[recv[c]] = 0 /\ value[sync[c]] = 0

(* What the thread is in a call of, where it is. *)
Place(t) ==
  /\ at[t] \in BeginAt \cup {"join_all"} => t = root
  /\ t = root => at[t] \in BeginAt \cup {"join_all", "return"} /\ ~InSend(t) /\ ~Receiving(t)
  /\ t \notin Live => at[t] = "return" /\ pc[t] = "user"
  /\ InSend(t) => \/ at[t] = "source_sent" /\ chan[t] = first_chan
                  \/ at[t] = "filter_sent" /\ chan[t] = frame_chan[t]
  /\ Receiving(t) => /\ at[t] \in {"sink_received", "filter_received", "join", "return"}
                     /\ chan[t] = input[t]
  /\ at[t] \in SourceAt => input[t] = first_chan

(* Two threads are not both the source, not both the tail of the chain,    *)
(* and do not read from the same channel.                                  *)
Apart(t, u) ==
  /\ ~(at[t] \in SourceAt /\ at[u] \in SourceAt)
  /\ ~(at[t] \in TailAt /\ at[u] \in TailAt)
  /\ Reads(t) /\ Reads(u) => input[t] # input[u]

(* Until it has created the sink, root alone runs. *)
Begins ==
  at[root] \in BeginAt =>
    /\ current = root /\ pc[root] = "user"
    /\ \A t \in Thread \ {root} :
         /\ pc[t] = "user"
         /\ at[t] = "return" \/ (at[root] = "new_sink" /\ at[t] = "source")

(* Threads are still being created: root has not created them all, or the  *)
(* chain has a tail, which may become a filter.                            *)
Growing == at[root] \in BeginAt \/ \E t \in Thread : at[t] \in TailAt

(* Meanwhile no number is refused, every channel read from is fed by the   *)
(* source or by a filter, and the channels of the others are unused.       *)
Grows(t) ==
  /\ at[t] \notin StopAt
  /\ at[t] = "return" => ~Receiving(t)
  /\ InSend(t) \/ Receiving(t) \/ at[t] \in {"source_sent", "filter_sent"} => size[t] = 1
  /\ Reads(t) => \/ input[t] = first_chan
                 \/ \E u \in Thread \ {root} : input[t] = frame_chan[u] /\ at[u] \in FilterAt
  /\ t # root /\ at[t] \notin FilterAt => Unused(frame_chan[t])

Roles ==
  /\ at \in [Thread -> Places] /\ input \in [Thread -> Chan]
  /\ \A t \in Thread : Place(t)
  /\ \A t, u \in Thread : t # u => Apart(t, u)
  /\ Begins
  /\ Growing => \A t \in Thread : Grows(t)

(* The inductive invariant for the use of the channels. *)
UseInv == SoleInv /\ Roles

(* What the assumption says of the constants. *)
LEMMA SieveNames ==
  /\ frame_chan \in [Thread -> Chan] /\ first_chan \in Chan /\ root \in Thread
  /\ \A t, u \in Thread : frame_chan[t] = frame_chan[u] => t = u
  /\ 0 \in Code /\ Size = {0, 1}
  /\ PER \in Nat \ {0} /\ LAST \in Nat
<1>1. /\ frame_chan \in [Thread -> Chan] /\ root \in Thread /\ IsInjective(frame_chan)
      /\ 0 \in Code /\ MaxSize = 1 /\ PER \in Nat \ {0} /\ LAST \in Nat
  BY SieveAssumption, ThreadsAssumption
<1>2. \A t, u \in Thread : frame_chan[t] = frame_chan[u] => t = u
  BY <1>1 DEF IsInjective
<1>3. Size = {0, 1}
  BY <1>1 DEF Size
<1> QED BY <1>1, <1>2, <1>3 DEF first_chan

(* Initially root is about to create the source, and no channel is used. *)
LEMMA UseInit == SieveInit => UseInv
<1> SUFFICES ASSUME SieveInit PROVE UseInv
  OBVIOUS
<1> USE SieveNames, ChanNames, Names
<1>1. /\ SoleInv /\ value = Initial /\ pc = [t \in Thread |-> "user"]
      /\ current = root /\ handle = [t \in Thread |-> IF t = root THEN root ELSE NULL]
      /\ at = [t \in Thread |-> IF t = root THEN "new_source" ELSE "return"]
      /\ input = [t \in Thread |-> first_chan]
  BY SoleInitInv DEF SieveInit, ChanInit, SemInit, ThreadsInit, ThreadsStart
<1>2. /\ \A t \in Thread : pc[t] = "user" /\ ~InSend(t) /\ ~Receiving(t)
      /\ at[root] = "new_source"
      /\ \A t \in Thread \ {root} : at[t] = "return"
  BY <1>1 DEF InSend, Receiving
<1>3. \A t \in Thread : ~Reads(t)
  BY <1>2 DEF Reads, TailAt, FilterAt
<1>4. \A t \in Thread : Unused(frame_chan[t])
  BY <1>1 DEF Unused
<1>5. root \in Live
  BY <1>1 DEF Live
<1>6. at \in [Thread -> Places] /\ input \in [Thread -> Chan]
  BY <1>1 DEF Places, BeginAt
<1>7. \A t \in Thread : Place(t)
  BY <1>2, <1>5 DEF Place, BeginAt, SourceAt
<1>8. \A t, u \in Thread : t # u => Apart(t, u)
  BY <1>2, <1>3 DEF Apart, SourceAt, TailAt
<1>9. Begins
  BY <1>1, <1>2 DEF Begins
<1>10. \A t \in Thread : Grows(t)
  BY <1>2, <1>3, <1>4 DEF Grows, StopAt
<1> QED BY <1>1, <1>6, <1>7, <1>8, <1>9, <1>10 DEF UseInv, Roles

---------------------------------------------------------------------------
(* Steps of the running thread in the role it has. *)

(* What such a step of the thread me may do: it touches no other thread    *)
(* but for the size of a message, and it takes up no role.                 *)
InRole(me) ==
  /\ at' \in [Thread -> Places] /\ input' = input
  /\ \A t \in Thread \ {me} :
       at'[t] = at[t] /\ pc'[t] = pc[t] /\ chan'[t] = chan[t] /\ (t \in Live' <=> t \in Live)
  /\ Place(me)'
  /\ at'[me] \in SourceAt => at[me] \in SourceAt
  /\ at'[me] \in TailAt => at[me] \in TailAt
  /\ Reads(me)' => Reads(me)
  /\ at'[me] \notin BeginAt

(* What it does while the chain grows: nothing ends, and unused channels   *)
(* stay unused.                                                            *)
InGrowth(me) ==
  /\ at'[me] \notin StopAt /\ (at'[me] = "return" => ~Receiving(me)')
  /\ InSend(me)' \/ Receiving(me)' \/ at'[me] \in {"source_sent", "filter_sent"}
       => size'[me] = 1
  /\ at[me] \in FilterAt => at'[me] \in FilterAt
  /\ \A t \in Thread \ {me} : size'[t] = size[t] \/ size'[t] = 1
  /\ \A t \in Thread \ {root} : at[t] \notin FilterAt => Unused(frame_chan[t])'

(* Such a step does not make the chain grow again. *)
LEMMA StillGrowing ==
  ASSUME Roles, NEW me \in Thread, me = current, InRole(me), Growing'
  PROVE  Growing
<1> USE SieveNames
<1>1. at[root] \in BeginAt => me = root
  BY DEF Roles, Begins
<1>2. at'[root] \notin BeginAt
  BY <1>1 DEF InRole
<1>3. \A t \in Thread : at'[t] \in TailAt => at[t] \in TailAt
  BY DEF InRole
<1>4. PICK t \in Thread : at'[t] \in TailAt
  BY <1>2 DEF Growing
<1> QED BY <1>2, <1>3, <1>4 DEF Growing

(* Such a step keeps the roles. *)
LEMMA RolesInRole ==
  ASSUME Roles, NEW me \in Thread, me = current, InRole(me), Growing' => InGrowth(me)
  PROVE  Roles'
<1> USE SieveNames
<1>1. /\ \A t \in Thread \ {me} :
           /\ at'[t] = at[t] /\ pc'[t] = pc[t] /\ chan'[t] = chan[t]
           /\ (InSend(t)' <=> InSend(t)) /\ (Receiving(t)' <=> Receiving(t))
           /\ (Reads(t)' <=> Reads(t))
           /\ (t \in Live' <=> t \in Live)
      /\ input' = input
  BY DEF InRole, InSend, Receiving, Reads
<1>2. at' \in [Thread -> Places] /\ input' \in [Thread -> Chan]
  BY DEF InRole, Roles
<1>3. ASSUME NEW t \in Thread PROVE Place(t)'
  <2>1. CASE t = me
    BY <2>1 DEF InRole
  <2>2. CASE t # me
    <3>1. Place(t)
      BY DEF Roles
    <3> QED BY <1>1, <2>2, <3>1 DEF Place
  <2> QED BY <2>1, <2>2
<1>4. ASSUME NEW t \in Thread, NEW u \in Thread, t # u PROVE Apart(t, u)'
  <2>1. Apart(t, u)
    BY <1>4 DEF Roles
  <2>2. \A v \in {t, u} : /\ at'[v] \in SourceAt => at[v] \in SourceAt
                          /\ at'[v] \in TailAt => at[v] \in TailAt
                          /\ Reads(v)' => Reads(v)
    BY <1>1 DEF InRole
  <2> QED BY <1>1, <2>1, <2>2 DEF Apart
<1>5. Begins'
  <2>1. at[root] \in BeginAt => me = root
    BY DEF Roles, Begins
  <2>2. at'[root] \notin BeginAt
    BY <2>1 DEF InRole
  <2> QED BY <2>2 DEF Begins
<1>6. ASSUME Growing', NEW t \in Thread PROVE Grows(t)'
  <2>1. InGrowth(me) /\ \A u \in Thread : Grows(u)
    BY <1>6, StillGrowing DEF Roles
  <2>2. /\ at'[t] \notin StopAt
        /\ at'[t] = "return" => ~Receiving(t)'
        /\ InSend(t)' \/ Receiving(t)' \/ at'[t] \in {"source_sent", "filter_sent"}
             => size'[t] = 1
    BY <1>1, <2>1 DEF Grows, InGrowth
  <2>3. \A u \in Thread : at[u] \in FilterAt => at'[u] \in FilterAt
    BY <1>1, <2>1 DEF InGrowth
  <2>4. Reads(t)' => \/ input'[t] = first_chan
                     \/ \E u \in Thread \ {root} :
                          input'[t] = frame_chan[u] /\ at'[u] \in FilterAt
    <3>1. Reads(t)' => Reads(t)
      BY <1>1 DEF InRole
    <3> QED BY <1>1, <2>1, <2>3, <3>1 DEF Grows
  <2>5. t # root /\ at'[t] \notin FilterAt => Unused(frame_chan[t])'
    BY <2>1, <2>3 DEF InGrowth
  <2> QED BY <2>2, <2>4, <2>5 DEF Grows
<1> QED BY <1>2, <1>3, <1>4, <1>5, <1>6 DEF Roles

---------------------------------------------------------------------------
(* What the calls leave alone. *)

(* The semaphores of the other channels. *)
Elsewhere(c) ==
  \A d \in Chan \ {c} : /\ value'[send[d]] = value[send[d]]
                        /\ value'[recv[d]] = value[recv[d]]
                        /\ value'[sync[d]] = value[sync[d]]

(* An operation on a semaphore of one channel. *)
LEMMA OneChannel ==
  ASSUME ChanInv, status = "running", NEW c \in Chan,
         NEW s \in {send[c], recv[c], sync[c]}, NEW here, NEW label,
         Down(s, here, label) \/ Up(s, label)
  PROVE  Live' = Live /\ Elsewhere(c)
<1> USE ChanNames
<1>1. SemInv /\ s \in Sem /\ value \in [Sem -> 0 .. MaxValue]
  BY ChanState
<1>2. Live' = Live /\ (value' = value \/ \E n : value' = [value EXCEPT ![s] = n])
  <2>1. CASE Down(s, here, label)
    <3>1. /\ Live' = Live
          /\ value[s] = 0 => value' = value
          /\ value[s] # 0 => value' = [value EXCEPT ![s] = @ - 1]
      BY <1>1, <2>1, DownFrame
    <3> QED BY <3>1
  <2>2. CASE Up(s, label)
    <3>1. SemInv /\ s \in Sem /\ Up(s, label)
      BY <1>1, <2>2
    <3>2. Live' = Live /\ value' = [value EXCEPT ![s] = @ + 1]
      BY ONLY <3>1, UpFrame
    <3> QED BY <3>2
  <2> QED BY <2>1, <2>2
<1>3. \A d \in Chan \ {c} : s \notin {send[d], recv[d], sync[d]}
  OBVIOUS
<1> QED BY <1>1, <1>2, <1>3 DEF Elsewhere

(* chan_send from its start. *)
LEMMA SendCall ==
  ASSUME ChanInv, NEW c \in Chan, NEW n \in Size, chan_send(c, n)
  PROVE  /\ Live' = Live /\ Elsewhere(c)
         /\ pc[current] = "user" /\ chan' = [chan EXCEPT ![current] = c]
         /\ \E label \in {"send_down", "send_post"} : pc' = [pc EXCEPT ![current] = label]
         /\ size' = [size EXCEPT ![current] = n]
         /\ received' = [received EXCEPT ![current] = NULL]
<1>1. status = "running" /\ Down(send[c], "send_down", "send_post")
  BY DEF chan_send, At
<1>2. Live' = Live /\ Elsewhere(c)
  BY <1>1, OneChannel
<1> QED BY <1>2, SendFrame

(* chan_recv from its start. *)
LEMMA RecvCall ==
  ASSUME ChanInv, NEW c \in Chan, NEW n \in Size, chan_recv(c, n)
  PROVE  /\ Live' = Live /\ Elsewhere(c)
         /\ pc[current] = "user" /\ chan' = [chan EXCEPT ![current] = c]
         /\ \E label \in {"recv_down", "recv_copy"} : pc' = [pc EXCEPT ![current] = label]
         /\ size' = [size EXCEPT ![current] = n] /\ received' = received
<1> USE ChanNames
<1>1. /\ status = "running" /\ pc[current] = "user"
      /\ Down(recv[c], "recv_down", "recv_copy")
      /\ chan' = [chan EXCEPT ![current] = c]
      /\ size' = [size EXCEPT ![current] = n] /\ received' = received
  BY DEF chan_recv, At
<1>2. Live' = Live /\ Elsewhere(c)
  BY <1>1, OneChannel
<1>3. SemInv /\ recv[c] \in Sem
  BY ChanState
<1>4. \E label \in {"recv_down", "recv_copy"} : pc' = [pc EXCEPT ![current] = label]
  BY <1>1, <1>3, DownFrame
<1> QED BY <1>1, <1>2, <1>4

(* The rest of a call: the calls it goes on to are on the same channel. *)
LEMMA CallGoesOn ==
  ASSUME ChanInv,
         \/ chan_send_resume \/ chan_send_post \/ chan_send_sync
         \/ chan_recv_resume \/ chan_recv_return
         \/ \E n \in Size : chan_recv_copy(n)
  PROVE  /\ Live' = Live /\ chan[current] \in Chan /\ Elsewhere(chan[current])
         /\ \/ /\ InSend(current)
               /\ \E label \in {"send_down", "send_post", "send_sync"} :
                    pc' = [pc EXCEPT ![current] = label]
               /\ chan' = chan
            \/ /\ Receiving(current)
               /\ \E label \in {"recv_down", "recv_copy", "recv_up"} :
                    pc' = [pc EXCEPT ![current] = label]
               /\ chan' = chan
            \/ /\ InSend(current) \/ Receiving(current)
               /\ pc' = [pc EXCEPT ![current] = "user"]
               /\ chan' = [chan EXCEPT ![current] = NULL]
<1> USE ChanNames
<1>1. Calls /\ SemInv /\ pc \in [Thread -> Label] /\ current \in Thread
  BY ChanState
<1>2. /\ status = "running" /\ (InSend(current) \/ Receiving(current))
      /\ \E s \in {send[chan[current]], recv[chan[current]], sync[chan[current]]},
            here, label \in Label :
           Down(s, here, label) \/ Up(s, label)
  <2>1. CASE chan_send_resume
    BY <2>1 DEF chan_send_resume, At, InSend, Label
  <2>2. CASE chan_send_post
    BY <2>2 DEF chan_send_post, At, InSend, Label
  <2>3. CASE chan_send_sync
    BY <2>3 DEF chan_send_sync, At, InSend, Label
  <2>4. CASE chan_recv_resume
    BY <2>4 DEF chan_recv_resume, At, Receiving, Label
  <2>5. CASE chan_recv_return
    BY <2>5 DEF chan_recv_return, At, Receiving, Label
  <2>6. CASE \E n \in Size : chan_recv_copy(n)
    BY <2>6 DEF chan_recv_copy, At, Receiving, Label
  <2> QED BY <2>1, <2>2, <2>3, <2>4, <2>5, <2>6
<1>3. chan[current] \in Chan
  BY <1>1, <1>2 DEF Calls, InSend, Receiving
<1>4. Live' = Live /\ Elsewhere(chan[current])
  <2>1. PICK c \in Chan : c = chan[current]
    BY <1>3
  <2>2. PICK s \in {send[c], recv[c], sync[c]}, here \in Label, label \in Label :
          Down(s, here, label) \/ Up(s, label)
    BY <1>2, <2>1
  <2>3. Live' = Live /\ Elsewhere(c)
    BY <1>2, <2>2, OneChannel
  <2> QED BY <2>1, <2>3
<1>5. CASE chan_send_resume
  BY <1>3, <1>4, <1>5, SendResumeFrame DEF InSend
<1>6. CASE chan_send_post
  BY <1>3, <1>4, <1>6, PostFrame DEF InSend
<1>7. CASE chan_send_sync
  <2>1. pc' = pc => pc' = [pc EXCEPT ![current] = "send_sync"]
    BY <1>1, <1>7, SyncFrame
  <2> QED BY <1>3, <1>4, <1>7, <2>1, SyncFrame DEF InSend
<1>8. CASE chan_recv_resume
  <2>1. /\ pc[current] = "recv_down" /\ status = "running" /\ chan' = chan
        /\ Down(recv[chan[current]], "recv_down", "recv_copy")
    BY <1>8 DEF chan_recv_resume, At, chanVars
  <2>2. recv[chan[current]] \in Sem
    BY <1>3
  <2>3. \E label \in {"recv_down", "recv_copy"} : pc' = [pc EXCEPT ![current] = label]
    BY <1>1, <2>1, <2>2, DownFrame
  <2> QED BY <1>3, <1>4, <2>1, <2>3 DEF Receiving
<1>9. CASE chan_recv_return
  BY <1>3, <1>4, <1>9, ReturnFrame DEF Receiving
<1>10. CASE \E n \in Size : chan_recv_copy(n)
  BY <1>3, <1>4, <1>10, CopyFrame DEF Receiving
<1> QED BY <1>5, <1>6, <1>7, <1>8, <1>9, <1>10

(* thread_new: another thread becomes alive, at an address no live thread  *)
(* has.                                                                    *)
LEMMA SpawnCall ==
  ASSUME ThreadsInv, NEW t \in Thread, thread_new(t)
  PROVE  /\ t \notin Live /\ t # root /\ t # current /\ Live' = Live \cup {t}
         /\ current' = current /\ pc' = [pc EXCEPT ![t] = "user"]
<1>1. /\ status = "running" /\ t # root /\ t \notin heap \ Dead
      /\ handle' = [handleAfterRelease EXCEPT ![t] = t]
      /\ current' = current /\ pc' = [pc EXCEPT ![t] = "user"]
  BY DEF thread_new, At
<1>2. /\ handleAfterRelease \in [Thread -> Thread \cup {NULL, FREED}]
      /\ \A u \in Thread : handleAfterRelease[u] = u <=> u \in Live
      /\ heap \ Dead = Live \ {root} /\ current \in Live
  BY <1>1, AfterRelease
<1>3. Live' = Live \cup {t}
  BY <1>1, <1>2 DEF Live
<1> QED BY <1>1, <1>2, <1>3

(* thread_new that returns NULL. *)
LEMMA SpawnFails ==
  ASSUME ThreadsInv, thread_new_fails
  PROVE  Live' = Live /\ current' = current /\ pc' = pc
<1>1. /\ status = "running" /\ handle' = handleAfterRelease
      /\ current' = current /\ pc' = pc
  BY DEF thread_new_fails, At
<1>2. \A u \in Thread : handleAfterRelease[u] = u <=> u \in Live
  BY <1>1, AfterRelease
<1> QED BY <1>1, <1>2 DEF Live

(* The end of a thread. *)
LEMMA ExitCall ==
  ASSUME ThreadsInv, NEW c, thread_exit(c)
  PROVE  Live' = Live \ {current} /\ pc' = pc
<1> USE Names
<1>1. /\ status = "running" /\ pc' = pc
      /\ handle' = [handleAfterRelease EXCEPT ![current] = NULL]
  BY DEF thread_exit, At
<1>2. /\ handleAfterRelease \in [Thread -> Thread \cup {NULL, FREED}]
      /\ \A u \in Thread : handleAfterRelease[u] = u <=> u \in Live
  BY <1>1, AfterRelease
<1>3. NULL \notin Thread
  BY DEF ListId
<1> QED BY <1>1, <1>2, <1>3 DEF Live

(* A join blocks or returns at once; that for all threads returns later.   *)
LEMMA JoinCall ==
  ASSUME ThreadsInv,
         \/ \E thr \in Thread : thread_join(thr)
         \/ thread_join_all \/ thread_join_all_return
  PROVE  /\ Live' = Live /\ pc[current] \in {"user", "join_all"}
         /\ \/ pc' = pc
            \/ \E label \in {"user", "join", "join_all"} : pc' = [pc EXCEPT ![current] = label]
<1> USE Names
<1>1. CASE \E thr \in Thread : thread_join(thr)
  <2>1. PICK thr \in Thread : thread_join(thr)
    BY <1>1
  <2>2. /\ status = "running" /\ pc[current] = "user" /\ thr \in ListId
        /\ (Block(thr, "join") \/ UNCHANGED threadVars)
    BY <2>1 DEF thread_join, At, ListId
  <2>3. CASE Block(thr, "join")
    BY <2>2, <2>3, BlockFrame
  <2>4. CASE UNCHANGED threadVars
    BY <2>2, <2>4 DEF threadVars, Live
  <2> QED BY <2>2, <2>3, <2>4
<1>2. CASE thread_join_all
  <2>1. /\ status = "running" /\ pc[current] = "user" /\ join_list \in ListId
        /\ (Block(join_list, "join_all") \/ UNCHANGED threadVars)
    BY <1>2 DEF thread_join_all, At, ListId
  <2>2. CASE Block(join_list, "join_all")
    BY <2>1, <2>2, BlockFrame
  <2>3. CASE UNCHANGED threadVars
    BY <2>1, <2>3 DEF threadVars, Live
  <2> QED BY <2>1, <2>2, <2>3
<1>3. CASE thread_join_all_return
  BY <1>3 DEF thread_join_all_return, At, Live
<1> QED BY <1>1, <1>2, <1>3

(* A channel in use while the chain grows is none of the unused ones. *)
LEMMA UnusedKept ==
  ASSUME Roles, Growing, NEW c \in Chan, Elsewhere(c),
         \/ c = first_chan
         \/ \E u \in Thread \ {root} : c = frame_chan[u] /\ at[u] \in FilterAt
  PROVE  \A t \in Thread \ {root} : at[t] \notin FilterAt => Unused(frame_chan[t])'
<1> USE SieveNames
<1> TAKE t \in Thread \ {root}
<1> HAVE at[t] \notin FilterAt
<1>1. Unused(frame_chan[t])
  BY DEF Roles, Grows
<1>2. frame_chan[t] \in Chan /\ frame_chan[t] # c
  BY DEF first_chan
<1> QED BY <1>1, <1>2 DEF Unused, Elsewhere

(* The same when the semaphores are left alone. *)
LEMMA UnusedSame ==
  ASSUME Roles, Growing, value' = value
  PROVE  \A t \in Thread \ {root} : at[t] \notin FilterAt => Unused(frame_chan[t])'
BY DEF Roles, Grows, Unused

(* A thread in a call, while the chain grows, is in one on a channel that  *)
(* is in use.                                                              *)
LEMMA CallInUse ==
  ASSUME Roles, Growing, NEW t \in Thread, InSend(t) \/ Receiving(t)
  PROVE  \/ chan[t] = first_chan
         \/ \E u \in Thread \ {root} : chan[t] = frame_chan[u] /\ at[u] \in FilterAt
<1>1. Place(t) /\ Grows(t)
  BY DEF Roles
<1>2. CASE InSend(t)
  BY <1>1, <1>2 DEF Place, FilterAt
<1>3. CASE Receiving(t)
  BY <1>1, <1>3 DEF Place, Grows, Reads
<1> QED BY <1>2, <1>3

---------------------------------------------------------------------------
(* Every action keeps the roles. *)

(* While the chain grows a message is of one int, and so is what a         *)
(* receiver takes of it.                                                   *)
LEMMA WholeCopies ==
  ASSUME UseInv, Growing, NEW n \in Size, chan_recv_copy(n)
  PROVE  /\ n = 1
         /\ \A t \in Thread : size'[t] = size[t] \/ size'[t] = 1
         /\ size'[current] = 1
<1> USE SieveNames
<1>1. SoleInv /\ Roles /\ size \in [Thread -> Size] /\ current \in Thread
  BY SoleState DEF UseInv
<1>2. PICK s \in Thread : /\ pc[s] = "send_sync"
                          /\ n = Min({size[s], size[current]})
                          /\ size' = [size EXCEPT ![s] = n, ![current] = n]
  BY <1>1, CopyAlive
<1>3. pc[current] = "recv_copy"
  BY DEF chan_recv_copy, At
<1>4. size[s] = 1 /\ size[current] = 1
  BY <1>1, <1>2, <1>3 DEF Roles, Grows, InSend, Receiving
<1>5. n = 1
  BY <1>2, <1>4, MinSize
<1> QED BY <1>1, <1>2, <1>5

(* A call that goes on. *)
LEMMA InCallRoles ==
  ASSUME UseInv, InCall
  PROVE  Roles'
<1> USE SieveNames
<1>1. /\ SoleInv /\ Roles /\ ChanInv /\ current \in Thread /\ pc \in [Thread -> Label]
      /\ chan \in [Thread -> Chan \cup {NULL}] /\ size \in [Thread -> Size]
  BY SoleState DEF UseInv
<1>2. PICK me \in Thread : me = current
  BY <1>1
<1>3. /\ at' = at /\ input' = input
      /\ \/ chan_send_resume \/ chan_send_post \/ chan_send_sync
         \/ chan_recv_resume \/ chan_recv_return
         \/ \E n \in Size : chan_recv_copy(n)
  BY DEF InCall, RecvCopy, sieveVars
<1>4. /\ Live' = Live /\ chan[me] \in Chan /\ Elsewhere(chan[me])
      /\ (InSend(me) \/ Receiving(me))
      /\ \/ /\ InSend(me)
            /\ \E label \in {"send_down", "send_post", "send_sync"} :
                 pc' = [pc EXCEPT ![me] = label]
            /\ chan' = chan
         \/ /\ Receiving(me)
            /\ \E label \in {"recv_down", "recv_copy", "recv_up"} :
                 pc' = [pc EXCEPT ![me] = label]
            /\ chan' = chan
         \/ /\ pc' = [pc EXCEPT ![me] = "user"]
            /\ chan' = [chan EXCEPT ![me] = NULL]
  BY <1>1, <1>2, <1>3, CallGoesOn
<1>5. Place(me) /\ me # root /\ at[me] \notin BeginAt
  BY <1>1, <1>4 DEF Roles, Place
<1>6. /\ \A t \in Thread \ {me} : pc'[t] = pc[t] /\ chan'[t] = chan[t]
      /\ InSend(me)' => InSend(me) /\ chan'[me] = chan[me]
      /\ Receiving(me)' => Receiving(me) /\ chan'[me] = chan[me]
      /\ pc'[me] # "user" => pc[me] # "user"
  BY <1>1, <1>4 DEF InSend, Receiving
<1>7. Reads(me)' => Reads(me)
  BY <1>3, <1>6 DEF Reads
<1>8. Place(me)'
  BY <1>3, <1>4, <1>5, <1>6 DEF Place, InSend, Receiving
<1>9. InRole(me)
  BY <1>1, <1>3, <1>4, <1>5, <1>6, <1>7, <1>8 DEF InRole, Roles
<1>10. ASSUME Growing' PROVE InGrowth(me)
  <2>1. Growing
    BY <1>1, <1>2, <1>9, <1>10, StillGrowing
  <2>2. Grows(me)
    BY <1>1, <2>1 DEF Roles
  <2>3. \A t \in Thread \ {root} : at[t] \notin FilterAt => Unused(frame_chan[t])'
    <3>1. PICK c \in Chan : c = chan[me]
      BY <1>4
    <3>2. /\ Elsewhere(c)
          /\ \/ c = first_chan
             \/ \E u \in Thread \ {root} : c = frame_chan[u] /\ at[u] \in FilterAt
      BY <1>1, <1>4, <2>1, <3>1, CallInUse
    <3> QED BY <1>1, <2>1, <3>2, UnusedKept
  <2>4. \A t \in Thread : size'[t] = size[t] \/ size'[t] = 1
    <3>1. CASE \E n \in Size : chan_recv_copy(n)
      BY <2>1, <3>1, WholeCopies
    <3>2. CASE ~(\E n \in Size : chan_recv_copy(n))
      BY <1>3, <3>2 DEF chan_send_resume, chan_send_post, chan_send_sync,
                        chan_recv_resume, chan_recv_return, chanVars
    <3> QED BY <3>1, <3>2
  <2>5. size[me] = 1
    BY <1>4, <2>2 DEF Grows
  <2> QED BY <1>3, <1>4, <1>6, <2>2, <2>3, <2>4, <2>5 DEF Grows, InGrowth
<1> QED BY <1>1, <1>2, <1>9, <1>10, RolesInRole

(* What a step of the program's own leaves alone. *)
LEMMA OwnFrame ==
  ASSUME OwnStep
  PROVE  /\ UNCHANGED <<pc, chan, size, received, value, ptr, current, status>>
         /\ Live' = Live
BY DEF OwnStep, threadVars, semVars, chanVars, Live

(* A step of the program's own, from one place to another. *)
LEMMA OwnRoles ==
  ASSUME UseInv, NEW me \in Thread, me = current, OwnStep, input' = input,
         NEW to, at' = [at EXCEPT ![me] = to], pc[me] = "user",
         at[me] \in SourceAt \cup TailAt \cup FilterAt,
         to \in (SourceAt \cup TailAt \cup FilterAt \cup {"stop", "filter_stop", "return"})
                  \ {"source_sent", "filter_sent"},
         to \in SourceAt => at[me] \in SourceAt,
         to \in TailAt => at[me] \in TailAt,
         to \in FilterAt \cup {"stop", "filter_stop"} => at[me] \in TailAt \cup FilterAt,
         Growing' => to \notin StopAt /\ (at[me] \in FilterAt => to \in FilterAt)
  PROVE  Roles'
<1> USE SieveNames
<1>1. /\ Roles /\ at \in [Thread -> Places] /\ Place(me)
      /\ pc' = pc /\ chan' = chan /\ size' = size /\ value' = value /\ Live' = Live
  BY OwnFrame DEF UseInv, Roles
<1>2. /\ at'[me] = to /\ \A t \in Thread \ {me} : at'[t] = at[t]
      /\ ~InSend(me)' /\ ~Receiving(me)'
  BY <1>1 DEF InSend, Receiving
<1>3. me # root /\ me \in Live /\ to \notin BeginAt \cup {"join_all"} /\ to \in Places
  BY <1>1 DEF Place, SourceAt, TailAt, FilterAt, BeginAt, Places, StopAt
<1>4. Reads(me)' => Reads(me)
  BY <1>2 DEF Reads, TailAt, FilterAt
<1>5. Place(me)'
  BY <1>1, <1>2, <1>3 DEF Place
<1>6. InRole(me)
  BY <1>1, <1>2, <1>3, <1>4, <1>5 DEF InRole
<1>7. ASSUME Growing' PROVE InGrowth(me)
  <2>1. Growing
    BY <1>1, <1>6, <1>7, StillGrowing
  <2>2. \A t \in Thread \ {root} : at[t] \notin FilterAt => Unused(frame_chan[t])'
    BY <1>1, <2>1, UnusedSame
  <2> QED BY <1>1, <1>2, <1>7, <2>2 DEF InGrowth
<1> QED BY <1>1, <1>6, <1>7, RolesInRole

(* The steps of the source, the sink and a filter between their calls.     *)
(* While the chain grows no send returns 0, and the tail that stops is the *)
(* only one.                                                               *)
LEMMA ProgramRoles ==
  ASSUME UseInv,
         source_begin \/ source_sent \/ sink_received \/ filter_received \/ filter_sent
  PROVE  Roles'
<1>1. SoleInv /\ Roles /\ current \in Thread /\ at \in [Thread -> Places]
  BY SoleState DEF UseInv, Roles
<1>2. PICK me \in Thread : me = current
  BY <1>1
<1>3. /\ pc[me] = "user" /\ OwnStep /\ input' = input
  BY <1>2 DEF source_begin, source_sent, sink_received, filter_received, filter_sent,
              SieveAt, At
<1> USE DEF SourceAt, TailAt, FilterAt, StopAt
<1>4. CASE source_begin
  <2>1. at[me] = "source" /\ at' = [at EXCEPT ![me] = "source_send"]
    BY <1>2, <1>4 DEF source_begin, SieveAt, GoTo
  <2> QED BY <1>2, <1>3, <2>1, OwnRoles
<1>5. CASE source_sent
  <2>1. /\ at[me] = "source_sent"
        /\ at' = [at EXCEPT ![me] = IF size[me] = 0 THEN "return" ELSE "source_send"]
    BY <1>2, <1>5 DEF source_sent, SieveAt, GoTo
  <2> QED BY <1>2, <1>3, <2>1, OwnRoles
<1>6. CASE sink_received
  <2>1. PICK to \in {"sink", "stop", "new_filter"} :
          /\ at[me] = "sink_received"
          /\ at' = [at EXCEPT ![me] = to]
    BY <1>2, <1>6 DEF sink_received, SieveAt, GoTo
  <2>2. ASSUME Growing' PROVE to # "stop"
    <3>1. ASSUME to = "stop", NEW t \in Thread, at'[t] \in TailAt PROVE FALSE
      <4>1. t # me /\ at[t] \in TailAt
        BY <1>1, <2>1, <3>1
      <4> QED BY <1>1, <2>1, <4>1 DEF Roles, Apart
    <3>2. ASSUME to = "stop", at'[root] \in BeginAt PROVE FALSE
      <4>1. at[root] \in BeginAt
        BY <1>1, <2>1, <3>2, SieveNames DEF BeginAt
      <4>2. me = root
        BY <1>1, <1>2, <4>1 DEF Roles, Begins
      <4> QED BY <1>1, <2>1, <3>2, <4>2 DEF BeginAt
    <3> QED BY <2>2, <3>1, <3>2 DEF Growing
  <2> QED BY <1>2, <1>3, <2>1, <2>2, OwnRoles
<1>7. CASE filter_received
  <2>1. PICK to \in {"filter", "filter_send"} :
          at[me] = "filter_received" /\ at' = [at EXCEPT ![me] = to]
    BY <1>2, <1>7 DEF filter_received, SieveAt, GoTo
  <2> QED BY <1>2, <1>3, <2>1, OwnRoles
<1>8. CASE filter_sent
  <2>1. PICK to \in {"filter_stop", "filter"} :
          /\ at[me] = "filter_sent"
          /\ at' = [at EXCEPT ![me] = to]
          /\ to = "filter_stop" => size[me] = 0
    BY <1>2, <1>8 DEF filter_sent, SieveAt, GoTo
  <2>2. ASSUME Growing' PROVE size[me] = 1
    <3>1. Growing
      <4>1. \A t \in Thread : at'[t] \in TailAt => at[t] \in TailAt
        BY <1>1, <2>1
      <4>2. at'[root] \in BeginAt => at[root] \in BeginAt
        BY <1>1, <2>1, SieveNames DEF BeginAt
      <4> QED BY <2>2, <4>1, <4>2 DEF Growing
    <3> QED BY <1>1, <2>1, <3>1 DEF Roles, Grows
  <2>3. Growing' => to = "filter"
    BY <2>1, <2>2
  <2> QED BY <1>2, <1>3, <2>1, <2>3, OwnRoles
<1> QED BY <1>4, <1>5, <1>6, <1>7, <1>8

(* The start of a send, by the source and by a filter. *)
LEMMA SendRoles ==
  ASSUME UseInv, source_send \/ filter_send
  PROVE  Roles'
<1> USE SieveNames
<1>1. /\ SoleInv /\ Roles /\ ChanInv /\ current \in Thread /\ pc \in [Thread -> Label]
      /\ chan \in [Thread -> Chan \cup {NULL}] /\ size \in [Thread -> Size]
      /\ at \in [Thread -> Places] /\ \A t \in Thread : Place(t)
  BY SoleState DEF UseInv, Roles
<1>2. PICK me \in Thread : me = current
  BY <1>1
<1>3. PICK c \in Chan :
        /\ chan_send(c, 1) /\ input' = input
        /\ \/ /\ at[me] = "source_send" /\ at' = [at EXCEPT ![me] = "source_sent"]
              /\ c = first_chan
           \/ /\ at[me] = "filter_send" /\ at' = [at EXCEPT ![me] = "filter_sent"]
              /\ c = frame_chan[me]
  <2>1. CASE source_send
    <3>1. at[me] = "source_send" /\ Send(input[me], "source_sent")
      BY <1>2, <2>1 DEF source_send, SieveAt
    <3>2. input[me] = first_chan
      BY <1>1, <3>1 DEF Place, SourceAt
    <3> QED BY <1>2, <3>1, <3>2 DEF Send, GoTo
  <2>2. CASE filter_send
    <3>1. at[me] = "filter_send" /\ Send(frame_chan[me], "filter_sent")
      BY <1>2, <2>2 DEF filter_send, SieveAt
    <3> QED BY <1>2, <3>1 DEF Send, GoTo
  <2> QED BY <2>1, <2>2
<1>4. /\ Live' = Live /\ Elsewhere(c) /\ pc[me] = "user"
      /\ chan' = [chan EXCEPT ![me] = c]
      /\ \E label \in {"send_down", "send_post"} : pc' = [pc EXCEPT ![me] = label]
      /\ size' = [size EXCEPT ![me] = 1]
  BY <1>1, <1>2, <1>3, SendCall
<1>5. /\ InSend(me)' /\ ~Receiving(me)' /\ chan'[me] = c /\ size'[me] = 1
      /\ at'[me] = IF at[me] = "source_send" THEN "source_sent" ELSE "filter_sent"
      /\ \A t \in Thread \ {me} :
           at'[t] = at[t] /\ pc'[t] = pc[t] /\ chan'[t] = chan[t] /\ size'[t] = size[t]
  BY <1>1, <1>3, <1>4 DEF InSend, Receiving
<1> USE DEF SourceAt, TailAt, FilterAt, StopAt, BeginAt
<1>6. me # root /\ me \in Live
  BY <1>1, <1>3 DEF Place
<1>7. Reads(me)' => Reads(me)
  BY <1>3, <1>5 DEF Reads
<1>8. Place(me)'
  BY <1>1, <1>3, <1>4, <1>5, <1>6 DEF Place
<1>9. at' \in [Thread -> Places]
  BY <1>1, <1>3 DEF Places
<1>10. InRole(me)
  BY <1>3, <1>4, <1>5, <1>6, <1>7, <1>8, <1>9 DEF InRole
<1>11. ASSUME Growing' PROVE InGrowth(me)
  <2>1. Growing
    BY <1>1, <1>2, <1>10, <1>11, StillGrowing
  <2>2. \/ c = first_chan
        \/ \E u \in Thread \ {root} : c = frame_chan[u] /\ at[u] \in FilterAt
    BY <1>3, <1>6
  <2>3. \A t \in Thread \ {root} : at[t] \notin FilterAt => Unused(frame_chan[t])'
    BY <1>1, <1>4, <2>1, <2>2, UnusedKept
  <2> QED BY <1>3, <1>5, <2>3 DEF InGrowth
<1> QED BY <1>1, <1>2, <1>10, <1>11, RolesInRole

(* The start of a receive. *)
LEMMA RecvRoles ==
  ASSUME UseInv, sink_recv \/ filter_recv \/ stop_recv
  PROVE  Roles'
<1> USE SieveNames
<1>1. /\ SoleInv /\ Roles /\ ChanInv /\ current \in Thread /\ pc \in [Thread -> Label]
      /\ chan \in [Thread -> Chan \cup {NULL}] /\ size \in [Thread -> Size]
      /\ at \in [Thread -> Places] /\ input \in [Thread -> Chan]
      /\ \A t \in Thread : Place(t)
  BY SoleState DEF UseInv, Roles
<1>2. PICK me \in Thread : me = current
  BY <1>1
<1>3. PICK n \in Size, to \in {"sink_received", "filter_received", "join", "return"} :
        /\ chan_recv(input[me], n) /\ input' = input /\ at' = [at EXCEPT ![me] = to]
        /\ \/ at[me] = "sink" /\ to = "sink_received" /\ n = 1
           \/ at[me] = "filter" /\ to = "filter_received" /\ n = 1
           \/ at[me] \in {"stop", "filter_stop"} /\ to \notin {"sink_received", "filter_received"}
  BY <1>2 DEF sink_recv, filter_recv, stop_recv, Recv, SieveAt, GoTo
<1>4. PICK c \in Chan : c = input[me]
  BY <1>1
<1>5. /\ Live' = Live /\ Elsewhere(c) /\ pc[me] = "user"
      /\ chan' = [chan EXCEPT ![me] = c]
      /\ \E label \in {"recv_down", "recv_copy"} : pc' = [pc EXCEPT ![me] = label]
      /\ size' = [size EXCEPT ![me] = n]
  BY <1>1, <1>2, <1>3, <1>4, RecvCall
<1>6. /\ ~InSend(me)' /\ Receiving(me)' /\ chan'[me] = c /\ size'[me] = n /\ at'[me] = to
      /\ \A t \in Thread \ {me} :
           at'[t] = at[t] /\ pc'[t] = pc[t] /\ chan'[t] = chan[t] /\ size'[t] = size[t]
  BY <1>1, <1>3, <1>5 DEF InSend, Receiving
<1> USE DEF SourceAt, TailAt, FilterAt, StopAt, BeginAt
<1>7. me # root /\ me \in Live /\ Reads(me)
  BY <1>1, <1>3 DEF Place, Reads
<1>8. Place(me)'
  BY <1>3, <1>4, <1>5, <1>6, <1>7 DEF Place
<1>9. at' \in [Thread -> Places]
  BY <1>1, <1>3 DEF Places
<1>10. InRole(me)
  BY <1>3, <1>5, <1>6, <1>7, <1>8, <1>9 DEF InRole
<1>11. ASSUME Growing' PROVE InGrowth(me)
  <2>1. Growing
    BY <1>1, <1>2, <1>10, <1>11, StillGrowing
  <2>2. Grows(me)
    BY <1>1, <2>1 DEF Roles
  <2>3. \/ c = first_chan
        \/ \E u \in Thread \ {root} : c = frame_chan[u] /\ at[u] \in FilterAt
    BY <1>4, <1>7, <2>2 DEF Grows
  <2>4. \A t \in Thread \ {root} : at[t] \notin FilterAt => Unused(frame_chan[t])'
    BY <1>1, <1>5, <2>1, <2>3, UnusedKept
  <2>5. /\ n = 1 /\ to \in {"sink_received", "filter_received"}
        /\ (at[me] \in FilterAt => to = "filter_received")
    BY <1>3, <2>2 DEF Grows
  <2> QED BY <1>6, <2>4, <2>5 DEF InGrowth
<1> QED BY <1>1, <1>2, <1>10, <1>11, RolesInRole

(* A thread that joins, or ends. *)
LEMMA EndRoles ==
  ASSUME UseInv, sieve_test_join \/ sink_join \/ finish
  PROVE  Roles'
<1> USE SieveNames
<1>1. /\ SoleInv /\ Roles /\ ChanInv /\ ThreadsInv /\ current \in Thread
      /\ pc \in [Thread -> Label] /\ at \in [Thread -> Places]
      /\ \A t \in Thread : Place(t)
  BY SoleState, ChanState DEF UseInv, Roles
<1>2. PICK me \in Thread : me = current
  BY <1>1
<1>3. /\ UNCHANGED <<chan, size, value, input>>
      /\ \/ /\ at' = [at EXCEPT ![me] = "return"]
            /\ at[me] \in {"join_all", "join"}
         \/ at' = at /\ (at[me] = "return" \/ pc[me] = "join_all")
  BY <1>2 DEF sieve_test_join, sink_join, finish, SieveAt, GoTo, At, semVars, chanVars,
              sieveVars, thread_join_all_return
<1>4. \/ \E thr \in Thread : thread_join(thr)
      \/ thread_join_all \/ thread_join_all_return
      \/ /\ thread_exit(0) /\ at' = at /\ at[me] = "return" /\ pc[me] = "user"
  BY <1>2 DEF sieve_test_join, sink_join, finish, SieveAt, At, sieveVars, thread_join, Known
<1>5. /\ \A t \in Thread \ {me} : t \in Live' <=> t \in Live
      /\ me \notin Live' => at'[me] = "return" /\ pc'[me] = "user"
      /\ pc[me] \in {"user", "join_all"}
      /\ \/ pc' = pc
         \/ \E label \in {"user", "join", "join_all"} : pc' = [pc EXCEPT ![me] = label]
  <2>1. CASE thread_exit(0) /\ at' = at /\ at[me] = "return" /\ pc[me] = "user"
    <3>1. Live' = Live \ {me} /\ pc' = pc
      BY <1>1, <1>2, <2>1, ExitCall
    <3> QED BY <2>1, <3>1
  <2>2. CASE \/ \E thr \in Thread : thread_join(thr)
             \/ thread_join_all \/ thread_join_all_return
    <3>1. /\ Live' = Live /\ pc[me] \in {"user", "join_all"}
          /\ \/ pc' = pc
             \/ \E label \in {"user", "join", "join_all"} : pc' = [pc EXCEPT ![me] = label]
      BY <1>1, <1>2, <2>2, JoinCall
    <3>2. current \in Live
      BY <1>1, <2>2 DEF ThreadsInv, Scheduled, thread_join, thread_join_all,
                        thread_join_all_return, At
    <3> QED BY <1>2, <3>1, <3>2
  <2> QED BY <1>4, <2>1, <2>2
<1>6. /\ ~InSend(me)' /\ ~Receiving(me)' /\ ~InSend(me) /\ ~Receiving(me)
      /\ \A t \in Thread \ {me} : at'[t] = at[t] /\ pc'[t] = pc[t] /\ chan'[t] = chan[t]
  BY <1>1, <1>3, <1>5 DEF InSend, Receiving
<1> USE DEF SourceAt, TailAt, FilterAt, StopAt, BeginAt
<1>7. /\ at'[me] = at[me] \/ (at'[me] = "return" /\ at[me] \in {"join_all", "join"})
      /\ at' \in [Thread -> Places]
  BY <1>1, <1>3 DEF Places
<1>8. Reads(me)' => Reads(me)
  BY <1>6, <1>7 DEF Reads
<1>9. at[me] \notin BeginAt
  <2>1. ASSUME at[me] \in BeginAt PROVE pc[me] = "user"
    BY <1>1, <2>1 DEF Roles, Begins, Place
  <2> QED BY <1>3, <2>1
<1>10. Place(me)'
  BY <1>1, <1>3, <1>5, <1>6, <1>7 DEF Place
<1>11. InRole(me)
  BY <1>3, <1>5, <1>6, <1>7, <1>8, <1>9, <1>10 DEF InRole
<1>12. ASSUME Growing' PROVE InGrowth(me)
  <2>1. Growing
    BY <1>1, <1>2, <1>11, <1>12, StillGrowing
  <2>2. Grows(me)
    BY <1>1, <2>1 DEF Roles
  <2>3. \A t \in Thread \ {root} : at[t] \notin FilterAt => Unused(frame_chan[t])'
    BY <1>1, <1>3, <2>1, UnusedSame
  <2> QED BY <1>3, <1>6, <1>7, <2>2, <2>3 DEF Grows, InGrowth
<1> QED BY <1>1, <1>2, <1>11, <1>12, RolesInRole

(* root creates the source and the sink: nobody is in a call yet.          *)
LEMMA BeginRoles ==
  ASSUME UseInv, sieve_test_new
  PROVE  Roles'
<1> USE SieveNames
<1>1. /\ Roles /\ ThreadsInv /\ current \in Thread /\ pc \in [Thread -> Label]
      /\ at \in [Thread -> Places] /\ input \in [Thread -> Chan]
      /\ \A t \in Thread : Place(t)
  BY SoleState, ChanState DEF UseInv, Roles
<1> USE DEF BeginAt
<1>2. at[current] \in BeginAt /\ UNCHANGED <<value, chan, size>>
  BY DEF sieve_test_new, SieveAt, Spawn, semVars
<1>3. current = root
  BY <1>1, <1>2 DEF Place
<1>4. /\ \A t \in Thread : pc[t] = "user"
      /\ \A t \in Thread \ {root} :
           at[t] = "return" \/ (at[root] = "new_sink" /\ at[t] = "source")
  BY <1>1, <1>2, <1>3 DEF Roles, Begins
<1>5. Growing /\ \A t \in Thread : Grows(t)
  BY <1>1, <1>2, <1>3 DEF Growing, Roles
<1>6. PICK body \in {"source", "sink"}, label \in {"new_sink", "join_all"} :
        /\ Spawn(body, first_chan, label)
        /\ \/ at[root] = "new_source" /\ body = "source" /\ label = "new_sink"
           \/ at[root] = "new_sink" /\ body = "sink" /\ label = "join_all"
  BY <1>3 DEF sieve_test_new, SieveAt
<1>7. PICK born \in SUBSET (Thread \ {root}) :
        /\ \A t, u \in born : t = u
        /\ born \cap Live = {} /\ Live' = Live \cup born /\ current' = current
        /\ pc' \in [Thread -> Label] /\ \A t \in Thread : pc'[t] = "user"
        /\ at' \in [Thread -> Places] /\ input' \in [Thread -> Chan]
        /\ at'[root] = label
        /\ \A t \in born : at'[t] = body /\ input'[t] = first_chan
        /\ \A t \in Thread \ born : input'[t] = input[t] /\ (t # root => at'[t] = at[t])
  <2>1. CASE \E t \in Thread : /\ thread_new(t)
                               /\ at' = [at EXCEPT ![current] = label, ![t] = body]
                               /\ input' = [input EXCEPT ![t] = first_chan]
    <3>1. PICK t \in Thread : /\ thread_new(t)
                              /\ at' = [at EXCEPT ![current] = label, ![t] = body]
                              /\ input' = [input EXCEPT ![t] = first_chan]
      BY <2>1
    <3>2. /\ t \notin Live /\ t # root /\ Live' = Live \cup {t}
          /\ current' = current /\ pc' = [pc EXCEPT ![t] = "user"]
      BY <1>1, <3>1, SpawnCall
    <3>3. /\ at' = [at EXCEPT ![root] = label, ![t] = body]
          /\ at' \in [Thread -> Places]
      BY <1>1, <1>3, <3>1 DEF Places, SourceAt, TailAt
    <3>4. pc' \in [Thread -> Label] /\ \A u \in Thread : pc'[u] = "user"
      BY <1>1, <1>4, <3>2 DEF Label
    <3> DEFINE born == {t}
    <3>5. /\ born \in SUBSET (Thread \ {root}) /\ \A u, v \in born : u = v
          /\ born \cap Live = {} /\ Live' = Live \cup born
      BY <3>2
    <3>6. /\ \A u \in born : at'[u] = body /\ input'[u] = first_chan
          /\ \A u \in Thread \ born : input'[u] = input[u] /\ (u # root => at'[u] = at[u])
      BY <1>1, <3>1, <3>3
    <3>7. at'[root] = label /\ input' \in [Thread -> Chan]
      BY <1>1, <3>1, <3>2, <3>3
    <3> HIDE DEF born
    <3> QED BY <3>2, <3>3, <3>4, <3>5, <3>6, <3>7
  <2>2. CASE thread_new_fails /\ GoTo(label) /\ input' = input
    <3>1. Live' = Live /\ current' = current /\ pc' = pc
      BY <1>1, <2>2, SpawnFails
    <3>2. at' = [at EXCEPT ![root] = label] /\ at' \in [Thread -> Places]
      BY <1>1, <1>3, <2>2 DEF GoTo, Places
    <3> WITNESS {} \in SUBSET (Thread \ {root})
    <3> QED BY <1>1, <1>4, <2>2, <3>1, <3>2
  <2> QED BY <1>6, <2>1, <2>2 DEF Spawn
<1>8. /\ \A t \in Thread : ~InSend(t)' /\ ~Receiving(t)'
      /\ \A t \in Thread \ {root} :
           \/ at'[t] = "return"
           \/ at'[t] = "source" /\ (t \in born \/ at[t] = "source")
           \/ at'[t] = "sink" /\ t \in born /\ body = "sink"
  BY <1>4, <1>6, <1>7 DEF InSend, Receiving
<1> USE DEF SourceAt, TailAt, FilterAt, StopAt
<1>9. \A t \in Thread : Reads(t)' => t \in born /\ at'[t] = "sink"
  BY <1>6, <1>7, <1>8 DEF Reads
<1>10. ASSUME NEW t \in Thread PROVE Place(t)'
  <2>1. t \notin Live' => at'[t] = "return" /\ pc'[t] = "user"
    <3>1. t # root => (t \notin Live => at[t] = "return")
      BY <1>1 DEF Place
    <3>2. root \in Live
      BY <1>1, <1>2, <1>3 DEF Place
    <3> QED BY <1>7, <3>1, <3>2
  <2>2. at'[t] \in SourceAt => input'[t] = first_chan
    BY <1>1, <1>6, <1>7, <1>8 DEF Place
  <2> QED BY <1>6, <1>7, <1>8, <2>1, <2>2 DEF Place
<1>11. ASSUME NEW t \in Thread, NEW u \in Thread, t # u PROVE Apart(t, u)'
  <2>1. ~(at[t] \in SourceAt /\ at[u] \in SourceAt)
    BY <1>1, <1>11 DEF Roles, Apart
  <2>2. ~(at'[t] \in SourceAt /\ at'[u] \in SourceAt)
    BY <1>4, <1>6, <1>7, <1>8, <1>11, <2>1
  <2> QED BY <1>6, <1>7, <1>8, <1>9, <1>11, <2>2 DEF Apart
<1>12. Begins'
  BY <1>3, <1>6, <1>7, <1>8 DEF Begins
<1>13. ASSUME NEW t \in Thread PROVE Grows(t)'
  <2>1. t # root => Unused(frame_chan[t])'
    <3>1. t # root => at[t] \notin FilterAt
      BY <1>4
    <3> QED BY <1>2, <1>5, <3>1 DEF Grows, Unused
  <2> QED BY <1>6, <1>7, <1>8, <1>9, <2>1 DEF Grows
<1> QED BY <1>7, <1>10, <1>11, <1>12, <1>13 DEF Roles

(* The last thread of the chain makes its channel, which is as new, a sink *)
(* to read from it, and becomes a filter.                                  *)
LEMMA NewFilterKeeps ==
  ASSUME UseInv, sink_new_filter
  PROVE  value' = value
<1> USE SieveNames, ChanNames
<1>1. /\ Roles /\ current \in Thread /\ value \in [Sem -> 0 .. MaxValue]
      /\ at[current] = "new_filter" /\ Place(current)
  BY SoleState, ChanState DEF UseInv, Roles, sink_new_filter, SieveAt
<1>2. PICK me \in Thread : me = current
  BY <1>1
<1>3. Growing /\ me # root
  BY <1>1, <1>2 DEF Growing, TailAt, Place, BeginAt
<1>4. Unused(frame_chan[me])
  BY <1>1, <1>2, <1>3 DEF Roles, Grows, FilterAt
<1>5. PICK c \in Chan : c = frame_chan[me]
  OBVIOUS
<1>6. value' = [value EXCEPT ![send[c]] = 1, ![recv[c]] = 0, ![sync[c]] = 0]
  BY <1>2, <1>5 DEF sink_new_filter
<1>7. value[send[c]] = 1 /\ value[recv[c]] = 0 /\ value[sync[c]] = 0
  BY <1>4, <1>5 DEF Unused
<1> QED BY <1>1, <1>6, <1>7

(* So the roles are kept: the new sink is the only one that reads from it. *)
LEMMA NewFilterRoles ==
  ASSUME UseInv, sink_new_filter
  PROVE  Roles'
<1> USE SieveNames
<1>1. /\ Roles /\ ThreadsInv /\ current \in Thread /\ pc \in [Thread -> Label]
      /\ at \in [Thread -> Places] /\ input \in [Thread -> Chan]
      /\ \A t \in Thread : Place(t)
  BY SoleState, ChanState DEF UseInv, Roles
<1>2. PICK me \in Thread : me = current
  BY <1>1
<1>3. /\ at[me] = "new_filter" /\ pc[me] = "user" /\ value' = value
      /\ UNCHANGED <<chan, size>>
      /\ Spawn("sink", frame_chan[me], "filter")
  BY <1>2, NewFilterKeeps DEF sink_new_filter, SieveAt, At, Spawn
<1> USE DEF SourceAt, TailAt, FilterAt, StopAt, BeginAt
<1>4. Growing /\ me # root /\ at[root] \notin BeginAt
  BY <1>1, <1>2, <1>3 DEF Growing, Place, Roles, Begins
<1>5. /\ \A t \in Thread : Grows(t)
      /\ \A t \in Thread \ {me} : at[t] \notin TailAt
  BY <1>1, <1>3, <1>4 DEF Roles, Apart
<1>6. me \in Live
  BY <1>1, <1>3 DEF Place
<1>7. ASSUME NEW t \in Thread, thread_new(t),
             at' = [at EXCEPT ![me] = "filter", ![t] = "sink"],
             input' = [input EXCEPT ![t] = frame_chan[me]]
      PROVE  Roles'
  <2>1. /\ t \notin Live /\ t # root /\ t # me /\ Live' = Live \cup {t}
        /\ pc' = [pc EXCEPT ![t] = "user"]
    BY <1>1, <1>2, <1>7, SpawnCall
  <2>2. at[t] = "return" /\ pc[t] = "user"
    BY <1>1, <2>1 DEF Place
  <2>3. /\ at' \in [Thread -> Places] /\ input' \in [Thread -> Chan]
        /\ at'[me] = "filter" /\ at'[t] = "sink" /\ at'[root] = at[root]
        /\ input'[t] = frame_chan[me] /\ input'[me] = input[me]
        /\ \A u \in Thread \ {me, t} : at'[u] = at[u] /\ input'[u] = input[u]
    BY <1>1, <1>4, <1>7, <2>1 DEF Places
  <2>4. /\ \A u \in Thread : pc'[u] = pc[u] /\ (InSend(u)' <=> InSend(u))
                                           /\ (Receiving(u)' <=> Receiving(u))
        /\ ~InSend(me) /\ ~Receiving(me) /\ ~InSend(t) /\ ~Receiving(t)
    BY <1>1, <1>3, <2>1, <2>2 DEF InSend, Receiving
  <2>5. /\ \A u \in Thread \ {me, t} : Reads(u)' <=> Reads(u)
        /\ Reads(me) /\ ~Reads(t)
    BY <1>3, <2>2, <2>3, <2>4 DEF Reads
  <2>6. ASSUME NEW u \in Thread PROVE Place(u)'
    <3>1. CASE u \in {me, t}
      BY <1>3, <1>4, <1>6, <2>1, <2>3, <2>4, <3>1 DEF Place
    <3>2. CASE u \notin {me, t}
      <4>1. Place(u) /\ (u \in Live' <=> u \in Live)
        BY <1>1, <2>1, <3>2
      <4> QED BY <1>3, <2>3, <2>4, <3>2, <4>1 DEF Place
    <3> QED BY <3>1, <3>2
  <2>7. ASSUME NEW u \in Thread, u # me, u # t, Reads(u)
        PROVE  input[u] # frame_chan[me]
    <3>1. \/ input[u] = first_chan
          \/ \E w \in Thread \ {root} : input[u] = frame_chan[w] /\ at[w] \in FilterAt
      BY <1>5, <2>7 DEF Grows
    <3> QED BY <1>3, <1>4, <3>1 DEF first_chan
  <2>8. ASSUME NEW u \in Thread, NEW v \in Thread, u # v PROVE Apart(u, v)'
    <3>1. Apart(u, v)
      BY <1>1, <2>8 DEF Roles
    <3>2. \A w \in Thread : at'[w] \in SourceAt => at[w] \in SourceAt
      BY <2>3
    <3>3. \A w \in Thread : at'[w] \in TailAt => w = t
      BY <1>5, <2>3
    <3>4. Reads(u)' /\ Reads(v)' => input'[u] # input'[v]
      <4>1. CASE u = t
        <5>1. v = me => input[me] # frame_chan[me]
          <6>1. \/ input[me] = first_chan
                \/ \E w \in Thread \ {root} : input[me] = frame_chan[w] /\ at[w] \in FilterAt
            BY <1>5, <2>5 DEF Grows
          <6> QED BY <1>3, <1>4, <6>1 DEF first_chan
        <5> QED BY <2>3, <2>5, <2>7, <2>8, <4>1, <5>1
      <4>2. CASE v = t
        <5>1. u = me => input[me] # frame_chan[me]
          <6>1. \/ input[me] = first_chan
                \/ \E w \in Thread \ {root} : input[me] = frame_chan[w] /\ at[w] \in FilterAt
            BY <1>5, <2>5 DEF Grows
          <6> QED BY <1>3, <1>4, <6>1 DEF first_chan
        <5> QED BY <2>3, <2>5, <2>7, <2>8, <4>2, <5>1
      <4>3. CASE u # t /\ v # t
        <5>1. \A w \in {u, v} : input'[w] = input[w] /\ (Reads(w)' => Reads(w))
          BY <2>3, <2>5, <4>3
        <5> QED BY <3>1, <5>1 DEF Apart
      <4> QED BY <4>1, <4>2, <4>3
    <3> QED BY <2>8, <3>1, <3>2, <3>3, <3>4 DEF Apart
  <2>9. Begins'
    BY <1>4, <2>3 DEF Begins
  <2>10. ASSUME NEW u \in Thread PROVE Grows(u)'
    <3>1. Grows(u) /\ Grows(t)
      BY <1>5
    <3>2. \A w \in Thread : at[w] \in FilterAt => at'[w] \in FilterAt
      BY <1>3, <2>2, <2>3
    <3>3. u # t /\ Reads(u)' => Reads(u)
      BY <2>5
    <3>4. Reads(u)' => \/ input'[u] = first_chan
                       \/ \E w \in Thread \ {root} :
                            input'[u] = frame_chan[w] /\ at'[w] \in FilterAt
      <4>1. CASE u = t
        BY <1>4, <2>3, <4>1
      <4>2. CASE u # t
        BY <2>3, <3>1, <3>2, <3>3, <4>2 DEF Grows
      <4> QED BY <4>1, <4>2
    <3>5. u # root /\ at'[u] \notin FilterAt => Unused(frame_chan[u])'
      <4>1. at'[u] \notin FilterAt => at[u] \notin FilterAt
        BY <3>2
      <4> QED BY <1>3, <3>1, <4>1 DEF Grows, Unused
    <3>6. /\ at'[u] \notin StopAt
          /\ at'[u] = "return" => ~Receiving(u)'
          /\ InSend(u)' \/ Receiving(u)' \/ at'[u] \in {"source_sent", "filter_sent"}
               => size'[u] = 1
      BY <1>3, <2>3, <2>4, <3>1 DEF Grows
    <3> QED BY <3>4, <3>5, <3>6 DEF Grows
  <2> QED BY <2>3, <2>6, <2>8, <2>9, <2>10 DEF Roles
<1>8. ASSUME thread_new_fails, GoTo("filter"), input' = input
      PROVE  Roles'
  <2>1. Live' = Live /\ pc' = pc
    BY <1>1, <1>8, SpawnFails
  <2>2. at' = [at EXCEPT ![me] = "filter"] /\ at' \in [Thread -> Places]
    BY <1>1, <1>2, <1>8 DEF GoTo, Places
  <2>3. ~InSend(me)' /\ ~Receiving(me)'
    BY <1>3, <2>1 DEF InSend, Receiving
  <2>4. Place(me)'
    BY <1>1, <1>4, <1>6, <2>1, <2>2, <2>3 DEF Place
  <2>5. InRole(me)
    BY <1>1, <1>3, <1>8, <2>1, <2>2, <2>4 DEF InRole, Reads
  <2>6. InGrowth(me)
    <3>1. \A u \in Thread \ {root} : at[u] \notin FilterAt => Unused(frame_chan[u])'
      BY <1>1, <1>3, <1>4, UnusedSame
    <3> QED BY <1>1, <1>3, <2>2, <2>3, <3>1 DEF InGrowth
  <2> QED BY <1>1, <1>2, <2>5, <2>6, RolesInRole
<1>9. \/ \E t \in Thread : /\ thread_new(t)
                           /\ at' = [at EXCEPT ![me] = "filter", ![t] = "sink"]
                           /\ input' = [input EXCEPT ![t] = frame_chan[me]]
      \/ thread_new_fails /\ GoTo("filter") /\ input' = input
  BY <1>2, <1>3 DEF Spawn
<1> QED BY <1>7, <1>8, <1>9

---------------------------------------------------------------------------
(* The sieve is a client of channels that keeps the rule for senders.      *)

(* Every step of the sieve keeps the roles. *)
LEMMA RolesNext ==
  ASSUME UseInv, SieveNext
  PROVE  Roles'
BY InCallRoles, BeginRoles, NewFilterRoles, ProgramRoles, SendRoles, RecvRoles, EndRoles
   DEF SieveNext

(* Every step of the sieve is one of its threads in Channels, or none      *)
(* there.                                                                  *)
LEMMA SieveStep ==
  ASSUME UseInv, SieveNext
  PROVE  [ChanNext]_allVars
<1> USE SieveNames
<1>1. Roles /\ current \in Thread /\ input \in [Thread -> Chan]
  BY SoleState DEF UseInv, Roles
<1>2. 1 \in Size
  OBVIOUS
<1>3. ASSUME NEW body, NEW c, NEW label, Spawn(body, c, label), UNCHANGED semVars
      PROVE  ChanNext
  <2>1. UNCHANGED <<semVars, chanVars>> /\ (thread_new_fails \/ \E t \in Thread : thread_new(t))
    BY <1>3 DEF Spawn, chanVars
  <2> QED BY <2>1 DEF ChanNext, ThreadsNext
<1>4. CASE InCall
  BY <1>4 DEF InCall, RecvCopy, ChanNext
<1>5. CASE sieve_test_new
  BY <1>3, <1>5 DEF sieve_test_new
<1>6. CASE sink_new_filter
  <2>1. UNCHANGED semVars
    BY <1>6, NewFilterKeeps DEF sink_new_filter, semVars
  <2> QED BY <1>3, <1>6, <2>1 DEF sink_new_filter
<1>7. CASE sieve_test_join \/ sink_join \/ finish
  <2>1. ThreadsNext /\ UNCHANGED <<semVars, chanVars>>
    BY <1>7 DEF sieve_test_join, sink_join, finish, ThreadsNext, thread_join, Known
  <2> QED BY <2>1 DEF ChanNext
<1>8. CASE OwnStep
  BY <1>8 DEF OwnStep, allVars
<1>9. CASE source_send \/ filter_send
  <2>1. PICK c \in Chan : chan_send(c, 1)
    BY <1>1, <1>9 DEF source_send, filter_send, Send
  <2> QED BY <1>2, <2>1 DEF ChanNext
<1>10. CASE sink_recv \/ filter_recv \/ stop_recv
  <2>1. PICK c \in Chan, n \in Size : chan_recv(c, n)
    BY <1>1, <1>10 DEF sink_recv, filter_recv, stop_recv, Recv
  <2> QED BY <2>1 DEF ChanNext
<1>11. source_begin \/ source_sent \/ sink_received \/ filter_received \/ filter_sent
         => OwnStep
  BY DEF source_begin, source_sent, sink_received, filter_received, filter_sent
<1> QED BY <1>4, <1>5, <1>6, <1>7, <1>8, <1>9, <1>10, <1>11 DEF SieveNext

(* No send begins on a channel while another thread is in chan_send on it: *)
(* after it both would be in the role the channel has one thread for.      *)
LEMMA SieveSendsAlone ==
  ASSUME UseInv, Roles'
  PROVE  SendsAlone
<1> USE SieveNames
<1> SUFFICES ASSUME NEW c \in Chan, NEW n \in Size, chan_send(c, n),
                    NEW t \in Thread, InSend(t), chan[t] = c
             PROVE  FALSE
  BY DEF SendsAlone
<1>1. /\ ChanInv /\ pc \in [Thread -> Label] /\ current \in Thread
      /\ chan \in [Thread -> Chan \cup {NULL}]
  BY SoleState DEF UseInv
<1>2. PICK me \in Thread : me = current
  BY <1>1
<1>3. /\ pc[me] = "user"
      /\ \E label \in {"send_down", "send_post"} : pc' = [pc EXCEPT ![me] = label]
      /\ chan' = [chan EXCEPT ![me] = c]
  BY <1>1, <1>2, SendFrame
<1>4. t # me /\ InSend(t)' /\ chan'[t] = c /\ InSend(me)' /\ chan'[me] = c
  BY <1>1, <1>3 DEF InSend
<1>5. Place(t)' /\ Place(me)' /\ Apart(t, me)'
  BY <1>4 DEF Roles
<1>6. t # root /\ me # root
  BY <1>4, <1>5 DEF Place
<1> QED BY <1>4, <1>5, <1>6 DEF Place, Apart, SourceAt, first_chan

(* The invariant is inductive. *)
LEMMA UseNextInv ==
  ASSUME UseInv, [SieveNext]_sieveAll
  PROVE  UseInv' /\ [ChanNext]_allVars /\ SendsAlone
<1>1. CASE SieveNext
  <2>1. Roles' /\ [ChanNext]_allVars
    BY <1>1, RolesNext, SieveStep
  <2>2. SendsAlone
    BY <2>1, SieveSendsAlone
  <2>3. SoleInv'
    BY <2>1, <2>2, SoleNextInv DEF UseInv
  <2> QED BY <2>1, <2>2, <2>3 DEF UseInv
<1>2. CASE UNCHANGED sieveAll
  <2>1. /\ UNCHANGED allVars
        /\ UNCHANGED <<pc, chan, size, value, current, handle, at, input>>
    BY <1>2 DEF sieveAll, sieveVars, allVars, threadVars, semVars, chanVars
  <2>2. Roles
    BY DEF UseInv
  <2>3. Roles'
    BY <2>1, <2>2 DEF Roles, Place, Apart, Begins, Growing, Grows, Reads, Receiving,
                      InSend, Unused, Live
  <2>4. SendsAlone
    BY <2>3, SieveSendsAlone
  <2>5. SoleInv'
    BY <2>1, <2>4, SoleNextInv DEF UseInv
  <2> QED BY <2>1, <2>3, <2>4, <2>5 DEF UseInv
<1> QED BY <1>1, <1>2

(* A set any two members of which are the same has at most one. *)
LEMMA AtMostOne ==
  ASSUME NEW S, \A x, y \in S : x = y
  PROVE  Cardinality(S) <= 1
<1>1. CASE S = {}
  <2>1. Cardinality(S) = 0
    BY <1>1, FS_EmptySet
  <2> QED BY <2>1
<1>2. CASE S # {}
  <2>1. PICK x \in S : TRUE
    BY <1>2
  <2>2. S = {x}
    BY <2>1
  <2>3. Cardinality({x}) = 1
    BY ONLY FS_Singleton, Zenon
  <2> QED BY <2>2, <2>3
<1> QED BY <1>1, <1>2

(* Two users of a channel in the same direction would be in one role. *)
LEMMA UseSole == UseInv => SoleUsers
<1> SUFFICES ASSUME UseInv, NEW c \in Chan
             PROVE  /\ Cardinality({t \in Thread : chan[t] = c /\ InSend(t)}) <= 1
                    /\ Cardinality(Reached(c, {"recv_down", "recv_copy", "recv_up"})) <= 1
  BY DEF SoleUsers
<1>1. OneSender /\ Roles
  BY DEF UseInv, SoleInv, SoleCore
<1>2. \A t, u \in {t \in Thread : chan[t] = c /\ InSend(t)} : t = u
  BY <1>1 DEF OneSender
<1>3. \A t, u \in Reached(c, {"recv_down", "recv_copy", "recv_up"}) : t = u
  <2> SUFFICES ASSUME NEW t \in Thread, NEW u \in Thread, t # u,
                      chan[t] = c, chan[u] = c, Receiving(t), Receiving(u)
               PROVE  FALSE
    BY DEF Reached, Receiving
  <2>1. Place(t) /\ Place(u) /\ Apart(t, u)
    BY <1>1 DEF Roles
  <2> QED BY <2>1 DEF Place, Apart, Reads
<1> QED BY <1>2, <1>3, AtMostOne

(* One thread at a time sends on a channel of the sieve, and one at a time *)
(* receives on it, for any number of threads and primes to a filter, even  *)
(* if threads cannot be created.                                           *)
THEOREM SieveSoleUsers == SieveSpec => []SoleUsers
<1>1. UseInv /\ [SieveNext]_sieveAll => UseInv'
  BY UseNextInv
<1> QED BY UseInit, <1>1, UseSole, PTL DEF SieveSpec

(* The sieve is one of the clients Channels is about, so that what is      *)
(* proved of these is true of it.                                          *)
THEOREM SieveIsClient == SieveSpec => ChanSpec
<1>1. UseInv /\ [SieveNext]_sieveAll => UseInv'
  BY UseNextInv
<1>2. UseInv /\ [SieveNext]_sieveAll => [ChanNext]_allVars
  BY UseNextInv
<1>3. SieveInit => ChanInit
  BY DEF SieveInit
<1> QED BY UseInit, <1>1, <1>2, <1>3, PTL DEF SieveSpec, ChanSpec

(* No ASSERT of the list operations fails in the sieve, in whatever order  *)
(* its threads are created, block, are woken and end.                      *)
THEOREM SieveAssertsHold == SieveSpec => []AssertsHold
BY SieveIsClient, ChanAssertsHold, PTL

(* chan_recv of the sieve never copies from the frame of a chan_send that  *)
(* has returned.                                                           *)
THEOREM SieveFramesAlive == SieveSpec => []FramesAlive
<1>1. UseInv /\ [SieveNext]_sieveAll => UseInv'
  BY UseNextInv
<1>2. UseInv => FramesAlive
  BY DEF UseInv, SoleInv, SoleCore
<1> QED BY UseInit, <1>1, <1>2, PTL DEF SieveSpec

(* In the sieve each number sent is received once, and the send returns    *)
(* after that with the number of bytes taken, 0 when the receiver wants no *)
(* more: nothing but the sieve itself makes its senders keep the rule.     *)
THEOREM SieveRendezvous == SieveSpec => KeepsRendezvous
<1>1. UseInv /\ [SieveNext]_sieveAll => UseInv'
  BY UseNextInv
<1>2. UseInv /\ [SieveNext]_sieveAll => [Promise!Next]_Promise!vars
  BY UseNextInv, PromiseStep DEF UseInv
<1>3. SieveInit => Promise!Init
  BY PromiseInit DEF SieveInit
<1> QED BY UseInit, <1>1, <1>2, <1>3, PTL DEF SieveSpec, KeepsRendezvous, Promise!Spec

---------------------------------------------------------------------------
(* Divisors. *)

(* What divides a number that divides another divides that one too.        *)
LEMMA DividesOn ==
  ASSUME NEW a \in Nat, NEW b \in Nat \ {0}, NEW c \in Nat \ {0}, a % b = 0, b % c = 0
  PROVE  a % c = 0
<1>1. a = b * (a \div b) /\ a \div b \in Nat /\ b = c * (b \div c) /\ b \div c \in Nat
  OBVIOUS
<1>2. PICK k \in Nat, l \in Nat : a = b * k /\ b = c * l
  BY <1>1
<1> DEFINE m == l * k
<1>3. m \in Nat /\ a = c * m
  BY <1>2
<1> HIDE DEF m
<1> QED BY <1>3

(* Odd and even numbers alternate. *)
LEMMA OddEven ==
  ASSUME NEW n \in Nat, n % 2 = 1
  PROVE  (n + 1) % 2 = 0 /\ (n + 2) % 2 = 1
OBVIOUS

(* A set of numbers that is not empty has a least one.                     *)
LEMMA LeastNumber ==
  ASSUME NEW S \in SUBSET Nat, S # {}
  PROVE  \E n \in S : \A m \in S : n <= m
<1> DEFINE R == OpToRel(<, Nat)
<1>1. IsWellFoundedOn(R, Nat) /\ \A m, n \in Nat : m < n => <<m, n>> \in R
  BY NatLessThanWellFounded DEF OpToRel
<1> HIDE DEF R
<1>2. PICK n \in S : \A m \in S : ~(<<m, n>> \in R)
  <2>1. S \subseteq Nat /\ IsWellFoundedOn(R, Nat)
    BY <1>1
  <2> QED BY ONLY <2>1, S # {}, WFMin, Zenon
<1>3. \A m \in S : ~(m < n)
  BY <1>1, <1>2
<1>4. \A m \in S : m \in Nat /\ n \in Nat
  OBVIOUS
<1> QED BY <1>3, <1>4

(* A number above 1 that no smaller prime divides is prime: its least      *)
(* divisor would be one.                                                   *)
LEMMA UndividedIsPrime ==
  ASSUME NEW x \in Nat, x > 1, \A p \in 1 .. x - 1 : IsPrime(p) => x % p # 0
  PROVE  IsPrime(x)
<1> DEFINE S == {d \in 2 .. x - 1 : x % d = 0}
<1>1. CASE S = {}
  <2>1. \A d \in 2 .. x - 1 : x % d # 0
    BY <1>1
  <2> QED BY <2>1 DEF IsPrime
<1>2. CASE S # {}
  <2>1. S \in SUBSET Nat
    OBVIOUS
  <2>2. PICK d \in S : \A e \in S : d <= e
    BY <1>2, <2>1, LeastNumber
  <2>3. d \in 2 .. x - 1 /\ x % d = 0
    BY <2>2
  <2>4. ASSUME NEW e \in 2 .. d - 1 PROVE d % e # 0
    <3>1. d \in Nat \ {0} /\ e \in Nat \ {0} /\ e < d /\ e \in 2 .. x - 1
      BY <2>3
    <3>2. ASSUME d % e = 0 PROVE FALSE
      <4>1. x % e = 0
        BY <2>3, <3>1, <3>2, DividesOn
      <4>2. e \in S
        BY ONLY <3>1, <4>1 DEF S
      <4>3. d <= e
        BY <2>2, <4>2
      <4> QED BY <3>1, <4>3
    <3> QED BY <3>2
  <2>5. d > 1
    BY <2>3
  <2>6. IsPrime(d)
    BY ONLY <2>4, <2>5 DEF IsPrime
  <2> QED BY <2>3, <2>6
<1> QED BY <1>1, <1>2

(* A multiple of a smaller prime is not prime, nor is an even number above *)
(* 2; and PrimesUpTo has the primes up to its argument.                    *)
LEMMA PrimeFacts ==
  /\ \A n \in Nat, p \in Nat : IsPrime(p) /\ p < n /\ n % p = 0 => ~IsPrime(n)
  /\ \A n \in Nat : n > 2 /\ n % 2 = 0 => ~IsPrime(n)
  /\ \A p \in Nat : IsPrime(p) => p >= 2
  /\ \A n \in Nat : \A p : p \in PrimesUpTo(n) <=> p \in Nat /\ IsPrime(p) /\ p <= n
<1>1. ASSUME NEW n \in Nat, NEW p \in Nat, p > 1, p < n, n % p = 0 PROVE ~IsPrime(n)
  <2>1. p \in 2 .. n - 1
    BY <1>1
  <2> QED BY ONLY <2>1, n % p = 0 DEF IsPrime
<1>2. ASSUME NEW p \in Nat, IsPrime(p) PROVE p >= 2
  BY <1>2 DEF IsPrime
<1>3. ASSUME NEW n \in Nat, NEW p
      PROVE  p \in PrimesUpTo(n) <=> p \in Nat /\ IsPrime(p) /\ p <= n
  BY <1>2 DEF PrimesUpTo
<1>4. \A n \in Nat, p \in Nat : IsPrime(p) /\ p < n /\ n % p = 0 => ~IsPrime(n)
  BY <1>1, <1>2
<1>5. \A n \in Nat : n > 2 /\ n % 2 = 0 => ~IsPrime(n)
  BY <1>1
<1> QED BY <1>2, <1>3, <1>4, <1>5

---------------------------------------------------------------------------
(* The numbers in the chain. *)

Found == Range(actual)

(* The thread has its number still to test or to hand on. *)
Holds(t) ==
  \/ at[t] \in {"source_send", "filter_send"}
  \/ at[t] \in {"source_sent", "filter_sent"} /\ received[t] = NULL
  \/ at[t] \in {"sink_received", "filter_received"} /\ pc[t] \in {"recv_up", "user"}

(* How far the thread is done with the numbers. *)
Done(t) == IF Holds(t) THEN number[t] - 1 ELSE number[t]

(* The primes found below those of the thread: it is for the threads       *)
(* before it in the chain to divide by them.                               *)
Above(t) == {p \in Found : \A r \in Range(primes[t]) : p < r}

(* What the thread u sends, v receives. *)
Feeds(u, v) ==
  /\ at[v] \in TailAt \cup FilterAt
  /\ \/ at[u] \in SourceAt /\ input[v] = first_chan
     \/ at[u] \in FilterAt /\ input[v] = frame_chan[u]

(* What is known of a thread's number, by where the thread is. *)
Number(t) ==
  /\ at[t] \in BeginAt \cup {"join_all", "return", "source"} => number[t] = 0
  /\ at[t] \in {"source_send", "source_sent"} =>
       number[t] = 2 \/ (number[t] > 2 /\ number[t] % 2 = 1)
  /\ at[t] \in TailAt \cup FilterAt /\ Holds(t) =>
       number[t] >= 2 /\ \A p \in Above(t) : number[t] % p # 0
  /\ at[t] \in {"filter_send", "filter_sent"} /\ Holds(t) => ~IsMultiple(t)

(* And of the primes it divides by. *)
Divisors(t) ==
  /\ at[t] \in FilterAt \cup {"new_filter"} => primes[t] # <<>>
  /\ \A p \in Range(primes[t]) : p \in Found /\ p <= Done(t)

(* The tail of the chain has found the primes among the numbers it is done *)
(* with, ...                                                               *)
Complete(t) ==
  /\ Holds(t) \/ primes[t] # <<>> => \A p \in Found : p <= Done(t)
  /\ \A p \in 1 .. Done(t) : IsPrime(p) => p \in Found

(* ... and no other thread divides by larger ones. *)
LastLink(t) ==
  /\ Found \subseteq Above(t) \cup Range(primes[t])
  /\ Complete(t)
  /\ \A u \in Thread : Feeds(u, t) => \A p \in Found : p <= Done(u)

(* Between two threads of the chain no prime is lost. *)
Ahead(u, v) ==
  /\ number[v] <= Done(u)
  /\ \A p \in 1 .. Done(u) : IsPrime(p) => p \in Found \/ p <= number[v]

(* A number is divided by all the primes above v before it comes to v. *)
Sifted(u, v) ==
  \A p \in Above(v) : at[u] \in FilterAt /\ p \in Above(u) \cup Range(primes[u])

(* While the chain grows. *)
Flow ==
  /\ \A t \in Thread : Number(t) /\ Divisors(t)
  /\ \A t \in Thread : at[t] \in TailAt => LastLink(t)
  /\ \A u, v \in Thread : Feeds(u, v) => Ahead(u, v) /\ Sifted(u, v)

DataTypes ==
  number \in [Thread -> Nat] /\ primes \in [Thread -> Seq(Nat)] /\ actual \in Seq(Nat)

(* A thread that has sent is in chan_send, or its number has been taken;   *)
(* one that has received is in chan_recv or goes on.                       *)
InPlace(t) ==
  /\ at[t] \in {"source_sent", "filter_sent"} =>
       InSend(t) \/ (pc[t] = "user" /\ received[t] # NULL)
  /\ at[t] \in {"sink_received", "filter_received"} => Receiving(t) \/ pc[t] = "user"

InOrder ==
  /\ at[root] \in BeginAt => actual = <<>>
  /\ \A i, j \in DOMAIN actual : i < j => actual[i] < actual[j]
  /\ \E n \in 0 .. LAST : Found = PrimesUpTo(n)
  /\ ~Growing /\ ~refused => Found = PrimesUpTo(LAST)

NumbersOK ==
  DataTypes /\ (\A t \in Thread : InPlace(t)) /\ InOrder /\ (Growing => Flow)

(* The inductive invariant for the numbers. *)
DataInv == UseInv /\ NumbersOK

(* The primes found are the members of actual: primes, from 2 on.          *)
LEMMA FoundPrimes ==
  ASSUME DataInv
  PROVE  \A p \in Found : p \in Nat /\ IsPrime(p) /\ p >= 2 /\ p <= LAST
<1> USE SieveNames
<1>1. PICK n \in 0 .. LAST : Found = PrimesUpTo(n)
  BY DEF DataInv, NumbersOK, InOrder
<1> QED BY <1>1, PrimeFacts

(* A step that leaves the chain and its primes as they are keeps the       *)
(* invariant if each thread goes forward and none is overtaken.            *)
LEMMA FlowGoesOn ==
  ASSUME DataInv, UNCHANGED <<input, primes, actual, refused>>, DataTypes',
         \A t \in Thread : at'[t] \in TailAt <=> at[t] \in TailAt,
         at'[root] \in BeginAt <=> at[root] \in BeginAt,
         Growing /\ Flow =>
           /\ \A t \in Thread : /\ at'[t] \in SourceAt <=> at[t] \in SourceAt
                                /\ at'[t] \in FilterAt <=> at[t] \in FilterAt
                                /\ at'[t] = "new_filter" => at[t] = "new_filter"
           /\ \A t \in Thread : Done(t) <= Done(t)' /\ Number(t)'
           /\ \A t \in Thread : at[t] \in TailAt => Complete(t)'
           /\ \A u, v \in Thread : Feeds(u, v) => Ahead(u, v)'
  PROVE  InOrder' /\ (Growing' => Flow')
<1>1. Growing' <=> Growing
  BY DEF Growing
<1>2. Found' = Found /\ \A t \in Thread : Above(t)' = Above(t)
  BY DEF Found, Above
<1>3. InOrder'
  BY <1>1, <1>2 DEF InOrder, DataInv, NumbersOK, PrimesUpTo, IsPrime
<1>4. ASSUME Growing' PROVE Flow'
  <2>1. Growing /\ Flow
    BY <1>1, <1>4 DEF DataInv, NumbersOK
  <2>2. /\ \A t \in Thread : /\ at'[t] \in SourceAt <=> at[t] \in SourceAt
                             /\ at'[t] \in FilterAt <=> at[t] \in FilterAt
                             /\ at'[t] = "new_filter" => at[t] = "new_filter"
        /\ \A t \in Thread : Done(t) <= Done(t)' /\ Number(t)'
        /\ \A t \in Thread : at[t] \in TailAt => Complete(t)'
        /\ \A u, v \in Thread : Feeds(u, v) => Ahead(u, v)'
    BY <2>1
  <2>3. \A u, v \in Thread : Feeds(u, v)' <=> Feeds(u, v)
    BY <2>2 DEF Feeds
  <2>4. \A t \in Thread : Done(t) \in Int /\ Done(t)' \in Int
    BY DEF DataInv, NumbersOK, DataTypes, Done
  <2>5. \A p \in Found : p \in Nat
    BY FoundPrimes
  <2>6. ASSUME NEW t \in Thread PROVE Divisors(t)'
    <3>1. Divisors(t) /\ primes'[t] = primes[t]
      BY <2>1 DEF Flow
    <3> QED BY <1>2, <2>2, <2>4, <2>5, <3>1 DEF Divisors
  <2>7. ASSUME NEW t \in Thread, at'[t] \in TailAt PROVE LastLink(t)'
    <3>1. LastLink(t) /\ at[t] \in TailAt
      BY <2>1, <2>7 DEF Flow
    <3> QED BY <1>2, <2>2, <2>3, <2>4, <2>5, <3>1 DEF LastLink
  <2>8. ASSUME NEW u \in Thread, NEW v \in Thread, Feeds(u, v)'
        PROVE  Ahead(u, v)' /\ Sifted(u, v)'
    <3>1. Feeds(u, v) /\ Sifted(u, v)
      BY <2>1, <2>3, <2>8 DEF Flow
    <3> QED BY <1>2, <2>2, <3>1 DEF Sifted
  <2> QED BY <2>2, <2>6, <2>7, <2>8 DEF Flow
<1> QED BY <1>3, <1>4

(* A step that does nothing with the numbers. *)
LEMMA FlowStays ==
  ASSUME DataInv, UNCHANGED <<input, number, primes, actual, refused>>,
         \A t \in Thread : at'[t] \in TailAt <=> at[t] \in TailAt,
         at'[root] \in BeginAt <=> at[root] \in BeginAt,
         Growing /\ Flow =>
           \A t \in Thread :
             /\ at'[t] \in SourceAt <=> at[t] \in SourceAt
             /\ at'[t] \in FilterAt <=> at[t] \in FilterAt
             /\ at'[t] = "new_filter" => at[t] = "new_filter"
             /\ Holds(t)' <=> Holds(t)
             /\ at'[t] = at[t] \/ Number(t)'
  PROVE  DataTypes' /\ InOrder' /\ (Growing' => Flow')
<1>1. DataTypes'
  BY DEF DataInv, NumbersOK, DataTypes
<1>2. Found' = Found /\ \A t \in Thread : Above(t)' = Above(t)
  BY DEF Found, Above
<1>3. ASSUME Growing, Flow
      PROVE  /\ \A t \in Thread : Done(t) <= Done(t)' /\ Number(t)'
             /\ \A t \in Thread : at[t] \in TailAt => Complete(t)'
             /\ \A u, v \in Thread : Feeds(u, v) => Ahead(u, v)'
  <2>1. \A t \in Thread : (Holds(t)' <=> Holds(t)) /\ (at'[t] = at[t] \/ Number(t)')
    BY <1>3
  <2>2. \A t \in Thread : /\ Done(t)' = Done(t) /\ Done(t) \in Int
                          /\ IsMultiple(t)' <=> IsMultiple(t)
    BY <2>1 DEF Done, IsMultiple, DataInv, NumbersOK, DataTypes
  <2>3. ASSUME NEW t \in Thread PROVE Number(t)'
    <3>1. Number(t)
      BY <1>3 DEF Flow
    <3>2. CASE at'[t] = at[t]
      BY <1>2, <2>1, <2>2, <3>1, <3>2 DEF Number
    <3> QED BY <2>1, <3>2
  <2>4. ASSUME NEW t \in Thread, at[t] \in TailAt PROVE Complete(t)'
    <3>1. Complete(t)
      BY <1>3, <2>4 DEF Flow, LastLink
    <3> QED BY <1>2, <2>1, <2>2, <3>1 DEF Complete, IsPrime
  <2>5. ASSUME NEW u \in Thread, NEW v \in Thread, Feeds(u, v) PROVE Ahead(u, v)'
    <3>1. Ahead(u, v)
      BY <1>3, <2>5 DEF Flow
    <3> QED BY <1>2, <2>2, <3>1 DEF Ahead, IsPrime
  <2>6. \A t \in Thread : Done(t) <= Done(t)'
    BY <2>2
  <2> QED BY <2>3, <2>4, <2>5, <2>6
<1> QED BY <1>1, <1>3, FlowGoesOn

(* A step of me that leaves the places of the others alone.                *)
LEMMA InPlaceStays ==
  ASSUME NumbersOK, NEW me \in Thread, InPlace(me)',
         \A t \in Thread \ {me} : /\ at'[t] = at[t] /\ pc'[t] = pc[t]
                                  /\ received'[t] = received[t] \/ received'[t] # NULL
  PROVE  \A t \in Thread : InPlace(t)'
<1> SUFFICES ASSUME NEW t \in Thread, t # me PROVE InPlace(t)'
  OBVIOUS
<1> QED BY DEF NumbersOK, InPlace, InSend, Receiving

(* What the invariant says of the thread that runs. *)
LEMMA DataState ==
  ASSUME DataInv
  PROVE  /\ UseInv /\ NumbersOK /\ SoleInv /\ Roles /\ ChanInv /\ ThreadsInv
         /\ current \in Thread /\ pc \in [Thread -> Label]
         /\ chan \in [Thread -> Chan \cup {NULL}] /\ size \in [Thread -> Size]
         /\ received \in [Thread -> Size \cup {NULL}]
         /\ at \in [Thread -> Places] /\ input \in [Thread -> Chan]
         /\ number \in [Thread -> Nat] /\ primes \in [Thread -> Seq(Nat)] /\ actual \in Seq(Nat)
         /\ \A t \in Thread : Place(t) /\ InPlace(t)
         /\ Growing => Flow /\ \A t \in Thread : Grows(t)
BY SoleState, ChanState DEF DataInv, UseInv, Roles, NumbersOK, DataTypes

(* A call that goes on, but for the copy, does nothing with the numbers.   *)
LEMMA CallNumbers ==
  ASSUME DataInv, UNCHANGED sieveVars,
         \/ chan_send_resume \/ chan_send_post \/ chan_send_sync
         \/ chan_recv_resume \/ chan_recv_return
  PROVE  NumbersOK'
<1> USE DataState
<1>1. PICK me \in Thread : me = current
  OBVIOUS
<1>2. /\ UNCHANGED <<received, at, input, number, primes, actual, refused>>
      /\ \/ /\ InSend(me) /\ pc'[me] \in {"send_down", "send_post", "send_sync"}
         \/ /\ InSend(me) /\ pc'[me] = "user" /\ received[me] # NULL
         \/ /\ pc[me] = "recv_down" /\ pc'[me] \in {"recv_down", "recv_copy"}
         \/ /\ pc[me] = "recv_up" /\ pc'[me] = "user"
      /\ \A t \in Thread \ {me} : pc'[t] = pc[t]
  <2>1. CASE chan_send_resume
    BY <1>1, <2>1, SendResumeFrame DEF InSend, sieveVars
  <2>2. CASE chan_send_post
    BY <1>1, <2>2, PostFrame DEF InSend, sieveVars
  <2>3. CASE chan_send_sync
    BY <1>1, <2>3, SyncFrame, SyncTaken DEF InSend, sieveVars
  <2>4. CASE chan_recv_resume
    <3>1. pc[me] = "recv_down"
      BY <1>1, <2>4 DEF chan_recv_resume, At
    <3> QED BY <1>1, <2>4, <3>1, RecvFrame DEF sieveVars
  <2>5. CASE chan_recv_return
    <3>1. received' = received
      BY <2>5 DEF chan_recv_return
    <3> QED BY <1>1, <2>5, <3>1, ReturnFrame DEF sieveVars
  <2> QED BY <2>1, <2>2, <2>3, <2>4, <2>5
<1>3. InPlace(me)'
  BY <1>2 DEF InPlace, InSend, Receiving, Place
<1>4. \A t \in Thread : InPlace(t)'
  BY <1>2, <1>3, InPlaceStays
<1>5. \A t \in Thread : Holds(t)' <=> Holds(t)
  BY <1>2 DEF Holds, InSend, Place
<1>6. DataTypes' /\ InOrder' /\ (Growing' => Flow')
  BY <1>2, <1>5, FlowStays
<1> QED BY <1>4, <1>6 DEF NumbersOK

(* Nor does the start of a send, of the number the thread has, ...         *)
LEMMA SendNumbers ==
  ASSUME DataInv, source_send \/ filter_send
  PROVE  NumbersOK'
<1> USE DataState
<1>1. PICK me \in Thread : me = current
  OBVIOUS
<1>2. PICK c \in Chan, to \in {"source_sent", "filter_sent"} :
        /\ chan_send(c, 1) /\ UNCHANGED <<input, number, primes, actual, refused>>
        /\ at' = [at EXCEPT ![me] = to]
        /\ \/ at[me] = "source_send" /\ to = "source_sent"
           \/ at[me] = "filter_send" /\ to = "filter_sent"
  BY <1>1, SieveNames DEF source_send, filter_send, Send, SieveAt, GoTo
<1>3. /\ pc'[me] \in {"send_down", "send_post"} /\ received'[me] = NULL /\ at'[me] = to
      /\ \A t \in Thread \ {me} : pc'[t] = pc[t] /\ received'[t] = received[t] /\ at'[t] = at[t]
  BY <1>1, <1>2, SendFrame, SieveNames
<1>4. \A t \in Thread : InPlace(t)'
  <2>1. InPlace(me)'
    BY <1>2, <1>3 DEF InPlace, InSend
  <2> QED BY <1>3, <2>1, InPlaceStays
<1>5. \A t \in Thread : Holds(t)' <=> Holds(t)
  BY <1>2, <1>3 DEF Holds
<1> USE DEF SourceAt, TailAt, FilterAt, BeginAt
<1>6. /\ \A t \in Thread : /\ at'[t] \in SourceAt <=> at[t] \in SourceAt
                           /\ at'[t] \in FilterAt <=> at[t] \in FilterAt
                           /\ at'[t] \in TailAt <=> at[t] \in TailAt
                           /\ at'[t] = "new_filter" => at[t] = "new_filter"
      /\ at'[root] \in BeginAt <=> at[root] \in BeginAt
  BY <1>2, <1>3, SieveNames
<1>7. ASSUME Flow PROVE \A t \in Thread : at'[t] = at[t] \/ Number(t)'
  <2>1. Number(me) /\ (IsMultiple(me)' <=> IsMultiple(me)) /\ Above(me)' = Above(me)
    BY <1>2, <1>7 DEF Flow, IsMultiple, Above, Found
  <2>2. Number(me)'
    BY <1>2, <1>3, <1>5, <2>1 DEF Number, Holds
  <2> QED BY <1>3, <2>2
<1>8. DataTypes' /\ InOrder' /\ (Growing' => Flow')
  BY <1>2, <1>5, <1>6, <1>7, FlowStays
<1> QED BY <1>4, <1>8 DEF NumbersOK

(* ... the start of a receive, ...                                         *)
LEMMA RecvNumbers ==
  ASSUME DataInv, sink_recv \/ filter_recv \/ stop_recv
  PROVE  NumbersOK'
<1> USE DataState
<1>1. PICK me \in Thread : me = current
  OBVIOUS
<1>2. PICK n \in Size, to \in {"sink_received", "filter_received", "join", "return"} :
        /\ chan_recv(input[me], n) /\ at' = [at EXCEPT ![me] = to]
        /\ UNCHANGED <<input, number, primes, actual, refused>>
        /\ \/ at[me] = "sink" /\ to = "sink_received"
           \/ at[me] = "filter" /\ to = "filter_received"
           \/ at[me] \in {"stop", "filter_stop"} /\ to \in {"join", "return"}
  BY <1>1, SieveNames DEF sink_recv, filter_recv, stop_recv, Recv, SieveAt, GoTo
<1>3. PICK c \in Chan : c = input[me]
  OBVIOUS
<1>4. /\ pc'[me] \in {"recv_down", "recv_copy"} /\ at'[me] = to /\ received' = received
      /\ \A t \in Thread \ {me} : pc'[t] = pc[t] /\ at'[t] = at[t]
  BY <1>1, <1>2, <1>3, RecvCall
<1>5. \A t \in Thread : InPlace(t)'
  <2>1. InPlace(me)'
    BY <1>2, <1>4 DEF InPlace, Receiving
  <2> QED BY <1>4, <2>1, InPlaceStays
<1>6. \A t \in Thread : Holds(t)' <=> Holds(t)
  BY <1>2, <1>4 DEF Holds
<1> USE DEF SourceAt, TailAt, FilterAt, BeginAt, StopAt
<1>7. /\ \A t \in Thread : at'[t] \in TailAt <=> at[t] \in TailAt
      /\ at'[root] \in BeginAt <=> at[root] \in BeginAt
      /\ Growing => at[me] \in {"sink", "filter"}
  BY <1>2, <1>4, SieveNames DEF Grows
<1>8. ASSUME Growing, Flow
      PROVE  \A t \in Thread : /\ at'[t] \in SourceAt <=> at[t] \in SourceAt
                               /\ at'[t] \in FilterAt <=> at[t] \in FilterAt
                               /\ at'[t] = "new_filter" => at[t] = "new_filter"
                               /\ at'[t] = at[t] \/ Number(t)'
  <2>1. Number(me)'
    BY <1>2, <1>4, <1>7, <1>8 DEF Number, Holds
  <2> QED BY <1>2, <1>4, <1>7, <1>8, <2>1
<1>9. DataTypes' /\ InOrder' /\ (Growing' => Flow')
  BY <1>2, <1>6, <1>7, <1>8, FlowStays
<1> QED BY <1>5, <1>9 DEF NumbersOK

(* ... a join, or the end of a thread.                                     *)
LEMMA EndNumbers ==
  ASSUME DataInv, sieve_test_join \/ sink_join \/ finish
  PROVE  NumbersOK'
<1> USE DataState
<1>1. PICK me \in Thread : me = current
  OBVIOUS
<1>2. /\ UNCHANGED <<received, input, number, primes, actual, refused>>
      /\ \/ /\ at' = [at EXCEPT ![me] = "return"]
            /\ at[me] \in {"join_all", "join"}
         \/ at' = at /\ (at[me] = "return" \/ pc[me] = "join_all")
  BY <1>1 DEF sieve_test_join, sink_join, finish, SieveAt, GoTo, At, semVars, chanVars,
              sieveVars, thread_join_all_return
<1>3. \A t \in Thread \ {me} : pc'[t] = pc[t] /\ at'[t] = at[t]
  <2>1. \/ \E thr \in Thread : thread_join(thr)
        \/ thread_join_all \/ thread_join_all_return \/ thread_exit(0)
    BY DEF sieve_test_join, sink_join, finish, thread_join, Known
  <2>2. pc' = pc \/ \E label : pc' = [pc EXCEPT ![me] = label]
    BY <1>1, <2>1, JoinCall, ExitCall
  <2> QED BY <1>2, <2>2
<1>4. /\ at'[me] = at[me] \/ (at'[me] = "return" /\ at[me] \in {"join_all", "join"})
      /\ at[me] \notin {"source_sent", "filter_sent", "sink_received", "filter_received"}
  BY <1>2 DEF InPlace, InSend, Receiving
<1>5. \A t \in Thread : InPlace(t)'
  <2>1. InPlace(me)'
    BY <1>4 DEF InPlace
  <2> QED BY <1>2, <1>3, <2>1, InPlaceStays
<1>6. \A t \in Thread : Holds(t)' <=> Holds(t)
  BY <1>2, <1>3, <1>4 DEF Holds
<1> USE DEF SourceAt, TailAt, FilterAt, BeginAt, StopAt
<1>7. /\ \A t \in Thread : at'[t] \in TailAt <=> at[t] \in TailAt
      /\ at'[root] \in BeginAt <=> at[root] \in BeginAt
  BY <1>3, <1>4, SieveNames
<1>8. ASSUME Growing, Flow
      PROVE  \A t \in Thread : /\ at'[t] \in SourceAt <=> at[t] \in SourceAt
                               /\ at'[t] \in FilterAt <=> at[t] \in FilterAt
                               /\ at'[t] = "new_filter" => at[t] = "new_filter"
                               /\ at'[t] = at[t] \/ Number(t)'
  <2>1. Number(me) /\ at[me] # "join"
    BY <1>8 DEF Flow, Grows
  <2>2. at'[me] = at[me] \/ Number(me)'
    BY <1>2, <1>4, <1>6, <2>1 DEF Number
  <2> QED BY <1>3, <1>4, <2>2
<1>9. DataTypes' /\ InOrder' /\ (Growing' => Flow')
  BY <1>2, <1>6, <1>7, <1>8, FlowStays
<1> QED BY <1>5, <1>9 DEF NumbersOK

(* A thread of the chain is fed by one thread, and feeds one.              *)
LEMMA OneFeeder ==
  ASSUME Roles, NEW u \in Thread, NEW v \in Thread, NEW w \in Thread
  PROVE  /\ Feeds(u, v) /\ Feeds(w, v) => u = w
         /\ Feeds(u, v) /\ Feeds(u, w) => v = w
<1> USE SieveNames DEF SourceAt, TailAt, FilterAt, BeginAt
<1>1. /\ Place(u) /\ Place(w)
      /\ \A t, r \in Thread : t # r => Apart(t, r)
  BY DEF Roles
<1>2. at[u] \notin FilterAt \/ u # root
  BY <1>1 DEF Place
<1>3. at[w] \notin FilterAt \/ w # root
  BY <1>1 DEF Place
<1>4. Feeds(u, v) /\ Feeds(w, v) => u = w
  BY <1>1, <1>2, <1>3 DEF Feeds, Apart, first_chan
<1>5. Feeds(u, v) /\ Feeds(u, w) => Reads(v) /\ Reads(w) /\ input[v] = input[w]
  BY DEF Feeds, Reads
<1> QED BY <1>1, <1>4, <1>5 DEF Apart

(* The copy takes a number from one thread of the chain to the next: to    *)
(* the tail all the primes below it have been found, and none of those     *)
(* above the receiver divides it.                                          *)
LEMMA CopyNumbers ==
  ASSUME DataInv, RecvCopy
  PROVE  NumbersOK'
<1> USE DataState
<1>1. PICK me \in Thread : me = current
  OBVIOUS
<1>2. PICK n \in Size :
        /\ chan_recv_copy(n)
        /\ number' = IF n = 0 THEN number ELSE [number EXCEPT ![me] = number[ptr[chan[me]]]]
        /\ UNCHANGED <<at, input, primes, actual, refused>>
  BY <1>1 DEF RecvCopy
<1>3. PICK s \in Thread : /\ s = ptr[chan[me]]
                          /\ s # me /\ pc[s] = "send_sync" /\ chan[s] = chan[me]
                          /\ received[s] = NULL
                          /\ received' = [received EXCEPT ![s] = n]
  BY <1>1, <1>2, CopyAlive
<1>4. pc[me] = "recv_copy" /\ pc' = [pc EXCEPT ![me] = "recv_up"] /\ n # NULL
  BY <1>1, <1>2, CopyFrame, SizeNames
<1>5. \A t \in Thread : InPlace(t)'
  <2>1. InPlace(me)'
    BY <1>2, <1>4 DEF InPlace, Receiving, Place, InSend
  <2> QED BY <1>2, <1>3, <1>4, <2>1, InPlaceStays
<1>6. DataTypes'
  BY <1>2, <1>3 DEF DataTypes
<1>7. ASSUME Growing, Flow
      PROVE  /\ \A t \in Thread : Done(t) <= Done(t)' /\ Number(t)'
             /\ \A t \in Thread : at[t] \in TailAt => Complete(t)'
             /\ \A u, v \in Thread : Feeds(u, v) => Ahead(u, v)'
  <2> DEFINE x == number[s]
  <2>1. /\ x \in Nat /\ number'[me] = x
        /\ \A t \in Thread \ {me} : number'[t] = number[t]
    <3>1. n = 1
      BY <1>2, <1>7, WholeCopies
    <3> QED BY <1>2, <1>3, <3>1
  <2>2. /\ at[me] \in {"sink_received", "filter_received"} /\ chan[me] = input[me]
        /\ \/ at[s] = "source_sent" /\ chan[s] = first_chan
           \/ at[s] = "filter_sent" /\ chan[s] = frame_chan[s]
    BY <1>3, <1>4, <1>7 DEF Place, Grows, Receiving, InSend, StopAt
  <2>3. /\ Holds(s) /\ ~Holds(s)' /\ ~Holds(me) /\ Holds(me)'
        /\ \A t \in Thread \ {me, s} : Holds(t)' <=> Holds(t)
    BY <1>2, <1>3, <1>4, <2>2 DEF Holds
  <2>4. Feeds(s, me)
    BY <1>3, <2>2 DEF Feeds, SourceAt, TailAt, FilterAt
  <2>5. /\ Number(s) /\ Divisors(s) /\ Ahead(s, me) /\ Sifted(s, me) /\ Number(me) /\ Divisors(me)
    BY <1>7, <2>4 DEF Flow
  <2>6. /\ Done(s) = x - 1 /\ Done(s)' = x /\ Done(me) = number[me] /\ Done(me)' = x - 1
        /\ \A t \in Thread \ {me, s} : Done(t)' = Done(t)
        /\ \A t \in Thread : Done(t) \in Int
    BY <1>3, <2>1, <2>3 DEF Done
  <2>7. number[me] <= x - 1
    BY <2>5, <2>6 DEF Ahead
  <2>8. \A t \in Thread : Done(t) <= Done(t)'
    <3> TAKE t \in Thread
    <3>1. CASE t = s
      BY ONLY <2>1, <2>6, <3>1
    <3>2. CASE t = me
      BY ONLY <2>6, <2>7, <3>2
    <3>3. CASE t \notin {me, s}
      BY <2>6, <3>3
    <3> QED BY <3>1, <3>2, <3>3
  <2>9. Found' = Found /\ \A t \in Thread : Above(t)' = Above(t)
    BY <1>2 DEF Found, Above
  <2> HIDE DEF x
  <2>10. x >= 2 /\ \A p \in Above(me) : x % p # 0
    <3>1. CASE at[s] = "source_sent"
      <4>1. Above(me) = {}
        BY <2>5, <3>1 DEF Sifted, FilterAt
      <4> QED BY <2>5, <3>1, <4>1 DEF Number, x
    <3>2. CASE at[s] = "filter_sent"
      <4>1. /\ x >= 2 /\ \A p \in Above(s) : x % p # 0
            /\ ~IsMultiple(s)
        BY <2>3, <2>5, <3>2 DEF Number, FilterAt, x
      <4>2. \A p \in Range(primes[s]) : x % p # 0
        BY <4>1 DEF IsMultiple, x
      <4> QED BY <2>5, <4>1, <4>2 DEF Sifted
    <3> QED BY <2>2, <3>1, <3>2
  <2>11. ASSUME NEW t \in Thread PROVE Number(t)'
    <3>1. Number(t)
      BY <1>7 DEF Flow
    <3>2. CASE t = me
      <4>1. at'[me] \in {"sink_received", "filter_received"}
        BY <1>2, <2>2
      <4> QED BY <2>1, <2>9, <2>10, <3>2, <4>1
              DEF Number, BeginAt
    <3>3. CASE t # me
      <4>1. at'[t] = at[t] /\ number'[t] = number[t] /\ (Holds(t)' => Holds(t))
        BY <1>2, <2>1, <2>3, <3>3
      <4>2. IsMultiple(t)' <=> IsMultiple(t)
        BY <1>2, <4>1 DEF IsMultiple
      <4> QED BY <2>9, <3>1, <4>1, <4>2 DEF Number
    <3> QED BY <3>2, <3>3
  <2>12. ASSUME NEW t \in Thread, at[t] \in TailAt PROVE Complete(t)'
    <3>1. LastLink(t)
      BY <1>7, <2>12 DEF Flow
    <3>2. CASE t = me
      <4>1. \A p \in Found : p <= x - 1
        BY <2>4, <2>6, <3>1, <3>2 DEF LastLink
      <4>2. ASSUME NEW p \in 1 .. x - 1, IsPrime(p) PROVE p \in Found
        <5>1. p \in Found \/ p <= number[me]
          BY <2>5, <2>6, <4>2 DEF Ahead
        <5>2. p <= number[me] => p \in 1 .. Done(me)
          BY <2>6, <4>2
        <5> QED BY <3>1, <3>2, <4>2, <5>1, <5>2 DEF LastLink, Complete
      <4>3. /\ \A p \in Found' : p <= Done(me)'
            /\ \A p \in 1 .. Done(me)' : IsPrime(p) => p \in Found'
        BY <2>6, <2>9, <4>1, <4>2
      <4> QED BY <3>2, <4>3 DEF Complete, IsPrime
    <3>3. CASE t # me
      <4>1. t # s
        BY <2>2, <2>12 DEF TailAt
      <4>2. Done(t)' = Done(t) /\ (Holds(t)' <=> Holds(t)) /\ primes'[t] = primes[t]
        BY <1>2, <2>3, <2>6, <3>3, <4>1
      <4> QED BY <2>9, <3>1, <4>2 DEF LastLink, Complete, IsPrime
    <3> QED BY <3>2, <3>3
  <2>13. ASSUME NEW u \in Thread, NEW v \in Thread, Feeds(u, v) PROVE Ahead(u, v)'
    <3>1. Ahead(u, v)
      BY <1>7, <2>13 DEF Flow
    <3>2. CASE v = me
      <4>1. u = s
        BY <2>4, <2>13, <3>2, OneFeeder
      <4>2. \A p \in 1 .. x : p <= x
        BY <2>1 DEF x
      <4> QED BY <2>1, <2>6, <3>2, <4>1, <4>2 DEF Ahead
    <3>3. CASE v # me
      <4>1. u # s
        BY <2>4, <2>13, <3>3, OneFeeder
      <4>2. number'[v] = number[v] /\ number[v] \in Nat
        BY <2>1, <3>3
      <4>3. CASE u = me
        <5>1. number[v] <= Done(me) /\ Done(me) <= x - 1
          BY <2>6, <2>7, <3>1, <4>3 DEF Ahead
        <5>2. ASSUME NEW p \in 1 .. x - 1, IsPrime(p) PROVE p \in Found \/ p <= number[v]
          <6>1. p \in Found \/ p <= number[me]
            BY <2>5, <2>6, <5>2 DEF Ahead
          <6>2. p <= number[me] => p \in 1 .. Done(me)
            BY <2>6, <5>2
          <6> QED BY <3>1, <4>3, <5>2, <6>1, <6>2 DEF Ahead
        <5>3. number'[v] <= Done(me)'
          <6>1. Done(me)' = x - 1 /\ number'[v] = number[v]
            BY <2>6, <4>2
          <6>2. PICK d : d = Done(me)
            OBVIOUS
          <6>3. d \in Int /\ number[v] <= d /\ d <= x - 1
            BY <2>6, <5>1, <6>2
          <6>4. number[v] <= x - 1
            BY ONLY <2>1, <4>2, <6>3
          <6> QED BY <6>1, <6>4
        <5>4. \A p \in 1 .. Done(me)' : IsPrime(p) => p \in Found' \/ p <= number'[v]
          BY <2>6, <2>9, <4>2, <5>2
        <5> QED BY <4>3, <5>3, <5>4 DEF Ahead, IsPrime
      <4>4. CASE u # me
        <5>1. Done(u)' = Done(u)
          BY <2>6, <4>1, <4>4
        <5> QED BY <2>9, <3>1, <4>2, <5>1 DEF Ahead, IsPrime
      <4> QED BY <4>3, <4>4
    <3> QED BY <3>2, <3>3
  <2> QED BY <2>8, <2>11, <2>12, <2>13
<1>8. InOrder' /\ (Growing' => Flow')
  BY <1>2, <1>6, <1>7, FlowGoesOn
<1> QED BY <1>5, <1>6, <1>8 DEF NumbersOK

(* The source goes on to the next number: no prime is between two that it  *)
(* sends.                                                                  *)
LEMMA SourceNumbers ==
  ASSUME DataInv, source_begin \/ source_sent
  PROVE  NumbersOK'
<1> USE DataState
<1>1. PICK me \in Thread : me = current
  OBVIOUS
<1>2. PICK y \in Nat, to \in {"source_send", "return"} :
        /\ OwnStep /\ pc[me] = "user"
        /\ at' = [at EXCEPT ![me] = to]
        /\ number' = [number EXCEPT ![me] = y]
        /\ UNCHANGED <<input, primes, actual, refused>>
        /\ \/ at[me] = "source" /\ to = "source_send" /\ y = 2
           \/ at[me] = "source_sent" /\ to = "return" /\ size[me] = 0
           \/ /\ at[me] = "source_sent" /\ to = "source_send"
              /\ y = IF number[me] = 2 THEN 3 ELSE number[me] + 2
  <2>1. CASE source_begin
    BY <1>1, <2>1 DEF source_begin, SieveAt, At, GoTo
  <2>2. CASE source_sent
    <3>1. /\ OwnStep /\ pc[me] = "user" /\ at[me] = "source_sent"
          /\ UNCHANGED <<input, primes, actual, refused>>
      BY <1>1, <2>2 DEF source_sent, SieveAt, At
    <3>2. CASE size[me] = 0
      <4>1. number' = number /\ at' = [at EXCEPT ![me] = "return"]
        BY <1>1, <2>2, <3>2 DEF source_sent, GoTo
      <4>2. number' = [number EXCEPT ![me] = number[me]] /\ number[me] \in Nat
        BY <4>1
      <4> QED BY <3>1, <3>2, <4>1, <4>2
    <3>3. CASE size[me] # 0
      <4> DEFINE y == IF number[me] = 2 THEN 3 ELSE number[me] + 2
      <4>1. number' = [number EXCEPT ![me] = y] /\ y \in Nat
        BY <1>1, <2>2, <3>3 DEF source_sent
      <4>2. at' = [at EXCEPT ![me] = "source_send"]
        BY <1>1, <2>2, <3>3 DEF source_sent, GoTo
      <4> QED BY <3>1, <4>1, <4>2
    <3> QED BY <3>2, <3>3
  <2> QED BY <2>1, <2>2
<1>3. /\ at'[me] = to /\ number'[me] = y /\ pc' = pc /\ received' = received
      /\ \A t \in Thread \ {me} : at'[t] = at[t] /\ number'[t] = number[t]
  BY <1>2, OwnFrame
<1>4. \A t \in Thread : InPlace(t)'
  <2>1. InPlace(me)'
    BY <1>2, <1>3 DEF InPlace
  <2> QED BY <1>3, <2>1, InPlaceStays
<1>5. DataTypes'
  BY <1>2 DEF DataTypes
<1>6. ASSUME Growing, Flow
      PROVE  /\ to = "source_send"
             /\ \A t \in Thread : Done(t) <= Done(t)' /\ Number(t)'
             /\ \A t \in Thread : at[t] \in TailAt => Complete(t)'
             /\ \A u, v \in Thread : Feeds(u, v) => Ahead(u, v)'
  <2>1. Number(me) /\ to = "source_send"
    BY <1>2, <1>6 DEF Flow, Grows
  <2>2. ~Holds(me) /\ Holds(me)' /\ \A t \in Thread \ {me} : Holds(t)' <=> Holds(t)
    BY <1>2, <1>3, <2>1 DEF Holds, InPlace, InSend
  <2>3. /\ Done(me) = number[me] /\ Done(me)' = y - 1
        /\ \A t \in Thread \ {me} : Done(t)' = Done(t)
        /\ \A t \in Thread : Done(t) \in Int
    BY <1>3, <2>2 DEF Done
  <2>4. /\ y = 2 \/ (y > 2 /\ y % 2 = 1)
        /\ number[me] <= y - 1
        /\ \A p \in 1 .. y - 1 : IsPrime(p) => p <= number[me]
    <3>1. CASE at[me] = "source"
      <4>1. number[me] = 0 /\ y = 2
        BY <1>2, <2>1, <3>1 DEF Number
      <4> QED BY <4>1, PrimeFacts
    <3>2. CASE at[me] = "source_sent" /\ number[me] = 2
      <4>1. y = 3
        BY <1>2, <2>1, <3>2
      <4> QED BY <3>2, <4>1
    <3>3. CASE at[me] = "source_sent" /\ number[me] # 2
      <4>1. PICK x \in Nat : x = number[me]
        OBVIOUS
      <4>2. y = x + 2 /\ x > 2 /\ x % 2 = 1
        BY <1>2, <2>1, <3>3, <4>1 DEF Number
      <4>3. y % 2 = 1 /\ (x + 1) % 2 = 0
        BY ONLY <4>2, x \in Nat, OddEven
      <4>4. ~IsPrime(x + 1)
        BY <4>2, <4>3, PrimeFacts
      <4>5. \A p \in 1 .. y - 1 : p = x + 1 \/ p <= x
        BY <4>2
      <4>6. \A p \in 1 .. y - 1 : IsPrime(p) => p <= x
        BY <4>4, <4>5
      <4>7. y > 2 /\ x <= y - 1
        BY ONLY <4>2, x \in Nat
      <4> QED BY <4>1, <4>3, <4>6, <4>7
    <3> QED BY <1>2, <3>1, <3>2, <3>3
  <2>5. Found' = Found /\ \A t \in Thread : Above(t)' = Above(t)
    BY <1>2 DEF Found, Above
  <2>6. ASSUME NEW t \in Thread PROVE Done(t) <= Done(t)'
    <3>1. CASE t = me
      BY ONLY <2>3, <2>4, <3>1
    <3>2. CASE t # me
      BY <2>3, <3>2
    <3> QED BY <3>1, <3>2
  <2>7. ASSUME NEW t \in Thread PROVE Number(t)'
    <3>1. CASE t = me
      BY <1>3, <2>1, <2>4, <3>1 DEF Number, BeginAt, TailAt, FilterAt
    <3>2. CASE t # me
      <4>1. Number(t) /\ at'[t] = at[t] /\ number'[t] = number[t] /\ (Holds(t)' <=> Holds(t))
        BY <1>3, <1>6, <2>2, <3>2 DEF Flow
      <4>2. IsMultiple(t)' <=> IsMultiple(t)
        BY <1>2, <4>1 DEF IsMultiple
      <4> QED BY <2>5, <4>1, <4>2 DEF Number
    <3> QED BY <3>1, <3>2
  <2>8. ASSUME NEW t \in Thread, at[t] \in TailAt PROVE Complete(t)'
    <3>1. LastLink(t) /\ t # me
      BY <1>2, <1>6, <2>8 DEF Flow, TailAt
    <3>2. Done(t)' = Done(t) /\ (Holds(t)' <=> Holds(t)) /\ primes'[t] = primes[t]
      BY <1>2, <2>2, <2>3, <3>1
    <3> QED BY <2>5, <3>1, <3>2 DEF LastLink, Complete, IsPrime
  <2>9. ASSUME NEW u \in Thread, NEW v \in Thread, Feeds(u, v) PROVE Ahead(u, v)'
    <3>1. Ahead(u, v) /\ v # me
      BY <1>2, <1>6, <2>9 DEF Flow, Feeds, TailAt, FilterAt
    <3>2. number'[v] = number[v] /\ number[v] \in Nat
      BY <1>3, <3>1
    <3>3. CASE u = me
      <4>1. number[v] <= number[me] /\ number[me] \in Nat
        BY <2>3, <3>1, <3>3 DEF Ahead
      <4>2. number'[v] <= Done(me)'
        BY <2>3, <2>4, <3>2, <4>1
      <4>3. ASSUME NEW p \in 1 .. y - 1, IsPrime(p) PROVE p \in Found \/ p <= number[v]
        <5>1. p \in 1 .. Done(me)
          BY <2>3, <2>4, <4>1, <4>3
        <5> QED BY <3>1, <3>3, <4>3, <5>1 DEF Ahead
      <4>4. \A p \in 1 .. Done(me)' : IsPrime(p) => p \in Found' \/ p <= number'[v]
        BY <2>3, <2>5, <3>2, <4>3
      <4> QED BY <3>3, <4>2, <4>4 DEF Ahead, IsPrime
    <3>4. CASE u # me
      <4>1. Done(u)' = Done(u)
        BY <2>3, <3>4
      <4> QED BY <2>5, <3>1, <3>2, <4>1 DEF Ahead, IsPrime
    <3> QED BY <3>3, <3>4
  <2> QED BY <2>1, <2>6, <2>7, <2>8, <2>9
<1> USE DEF SourceAt, TailAt, FilterAt, BeginAt
<1>7. /\ \A t \in Thread : at'[t] \in TailAt <=> at[t] \in TailAt
      /\ at'[root] \in BeginAt <=> at[root] \in BeginAt
  BY <1>2, <1>3, SieveNames
<1>8. to = "source_send" =>
        \A t \in Thread : /\ at'[t] \in SourceAt <=> at[t] \in SourceAt
                          /\ at'[t] \in FilterAt <=> at[t] \in FilterAt
                          /\ at'[t] = "new_filter" => at[t] = "new_filter"
  BY <1>2, <1>3
<1>9. InOrder' /\ (Growing' => Flow')
  BY <1>2, <1>5, <1>6, <1>7, <1>8, FlowGoesOn
<1> QED BY <1>4, <1>5, <1>9 DEF NumbersOK

(* A multiple of one of the thread's primes is dropped: it is not prime.   *)
LEMMA DropNumbers ==
  ASSUME DataInv, NEW me \in Thread, me = current, OwnStep, pc[me] = "user",
         UNCHANGED <<input, number, primes, actual, refused>>, IsMultiple(me),
         NEW to \in {"sink", "filter"}, at' = [at EXCEPT ![me] = to],
         \/ at[me] = "sink_received" /\ to = "sink"
         \/ at[me] = "filter_received" /\ to = "filter"
  PROVE  NumbersOK'
<1> USE DataState
<1>1. /\ at'[me] = to /\ pc' = pc /\ received' = received
      /\ \A t \in Thread \ {me} : at'[t] = at[t]
  BY OwnFrame
<1>2. \A t \in Thread : InPlace(t)'
  <2>1. InPlace(me)'
    BY <1>1 DEF InPlace
  <2> QED BY <1>1, <2>1, InPlaceStays
<1>3. DataTypes'
  BY DEF DataTypes
<1>4. Holds(me) /\ ~Holds(me)' /\ \A t \in Thread \ {me} : Holds(t)' <=> Holds(t)
  BY <1>1 DEF Holds
<1>5. PICK x \in Nat : x = number[me]
  OBVIOUS
<1>6. /\ Done(me) = x - 1 /\ Done(me)' = x
      /\ \A t \in Thread \ {me} : Done(t)' = Done(t)
      /\ \A t \in Thread : Done(t) \in Int
  BY <1>4, <1>5 DEF Done
<1>7. Found' = Found /\ \A t \in Thread : Above(t)' = Above(t)
  BY DEF Found, Above
<1>8. ASSUME Growing, Flow
      PROVE  /\ \A t \in Thread : Done(t) <= Done(t)' /\ Number(t)'
             /\ \A t \in Thread : at[t] \in TailAt => Complete(t)'
             /\ \A u, v \in Thread : Feeds(u, v) => Ahead(u, v)'
  <2>1. primes[me] # <<>> /\ ~IsPrime(x)
    <3>1. PICK p \in Range(primes[me]) : x % p = 0
      BY <1>5 DEF IsMultiple
    <3>2. p \in Found /\ p <= x - 1
      BY <1>6, <1>8 DEF Flow, Divisors
    <3>3. p \in Nat /\ IsPrime(p)
      BY <3>2, FoundPrimes
    <3>4. p < x
      BY <1>5, <3>2, <3>3
    <3>5. ~IsPrime(x)
      BY <1>5, <3>1, <3>3, <3>4, PrimeFacts
    <3>6. primes[me] # <<>>
      BY <3>1 DEF Range
    <3> QED BY <3>5, <3>6
  <2>2. \A p \in 1 .. x : IsPrime(p) => p \in 1 .. x - 1
    BY <1>5, <2>1
  <2>3. ASSUME NEW t \in Thread PROVE Done(t) <= Done(t)'
    <3>1. CASE t = me
      BY ONLY <1>5, <1>6, <3>1
    <3>2. CASE t # me
      BY <1>6, <3>2
    <3> QED BY <3>1, <3>2
  <2>4. ASSUME NEW t \in Thread PROVE Number(t)'
    <3>1. CASE t = me
      BY <1>1, <1>4, <3>1 DEF Number, BeginAt
    <3>2. CASE t # me
      <4>1. Number(t) /\ at'[t] = at[t] /\ (Holds(t)' <=> Holds(t))
        BY <1>1, <1>4, <1>8, <3>2 DEF Flow
      <4>2. IsMultiple(t)' <=> IsMultiple(t)
        BY DEF IsMultiple
      <4> QED BY <1>7, <4>1, <4>2 DEF Number
    <3> QED BY <3>1, <3>2
  <2>5. ASSUME NEW t \in Thread, at[t] \in TailAt PROVE Complete(t)'
    <3>1. LastLink(t)
      BY <1>8, <2>5 DEF Flow
    <3>2. CASE t = me
      <4>1. \A p \in Found : p <= x - 1 /\ p \in Nat
        BY <1>4, <1>6, <3>1, <3>2, FoundPrimes DEF LastLink, Complete
      <4>2. \A p \in 1 .. x - 1 : IsPrime(p) => p \in Found
        BY <1>6, <3>1, <3>2 DEF LastLink, Complete
      <4>3. \A p \in Found : p <= x
        BY <1>5, <4>1
      <4>4. \A p \in 1 .. x : IsPrime(p) => p \in Found
        BY <2>2, <4>2
      <4> QED BY <1>6, <1>7, <3>2, <4>3, <4>4 DEF Complete, IsPrime
    <3>3. CASE t # me
      <4>1. Done(t)' = Done(t) /\ (Holds(t)' <=> Holds(t))
        BY <1>4, <1>6, <3>3
      <4> QED BY <1>7, <3>1, <4>1 DEF LastLink, Complete, IsPrime
    <3> QED BY <3>2, <3>3
  <2>6. ASSUME NEW u \in Thread, NEW v \in Thread, Feeds(u, v) PROVE Ahead(u, v)'
    <3>1. Ahead(u, v)
      BY <1>8, <2>6 DEF Flow
    <3>2. CASE u = me
      <4>1. number[v] <= x - 1 /\ number[v] \in Nat
        BY <1>6, <3>1, <3>2 DEF Ahead
      <4>2. number[v] <= x
        BY <1>5, <4>1
      <4>3. \A p \in 1 .. x : IsPrime(p) => p \in Found \/ p <= number[v]
        BY <1>6, <2>2, <3>1, <3>2 DEF Ahead
      <4> QED BY <1>6, <1>7, <3>2, <4>2, <4>3 DEF Ahead, IsPrime
    <3>3. CASE u # me
      <4>1. Done(u)' = Done(u)
        BY <1>6, <3>3
      <4> QED BY <1>7, <3>1, <4>1 DEF Ahead, IsPrime
    <3> QED BY <3>2, <3>3
  <2> QED BY <2>3, <2>4, <2>5, <2>6
<1> USE DEF SourceAt, TailAt, FilterAt, BeginAt
<1>9. /\ \A t \in Thread : /\ at'[t] \in SourceAt <=> at[t] \in SourceAt
                           /\ at'[t] \in FilterAt <=> at[t] \in FilterAt
                           /\ at'[t] \in TailAt <=> at[t] \in TailAt
                           /\ at'[t] = "new_filter" => at[t] = "new_filter"
      /\ at'[root] \in BeginAt <=> at[root] \in BeginAt
  BY <1>1, SieveNames
<1>10. InOrder' /\ (Growing' => Flow')
  BY <1>3, <1>8, <1>9, FlowGoesOn
<1> QED BY <1>2, <1>3, <1>10 DEF NumbersOK

(* A filter drops a number or goes on to send it, and after it has been    *)
(* taken goes on to the next or to its end.                                *)
LEMMA FilterNumbers ==
  ASSUME DataInv, filter_received \/ filter_sent
  PROVE  NumbersOK'
<1> USE DataState
<1>1. PICK me \in Thread : me = current
  OBVIOUS
<1>2. CASE filter_received /\ IsMultiple(me)
  <2>1. /\ OwnStep /\ pc[me] = "user" /\ at[me] = "filter_received"
        /\ at' = [at EXCEPT ![me] = "filter"]
        /\ UNCHANGED <<input, number, primes, actual, refused>>
    BY <1>1, <1>2 DEF filter_received, SieveAt, At, GoTo
  <2> QED BY <1>1, <1>2, <2>1, DropNumbers
<1>3. CASE \/ filter_received /\ ~IsMultiple(me)
           \/ filter_sent
  <2>1. PICK to \in {"filter_send", "filter", "filter_stop"} :
          /\ OwnStep /\ pc[me] = "user" /\ at' = [at EXCEPT ![me] = to]
          /\ UNCHANGED <<input, number, primes, actual, refused>>
          /\ \/ at[me] = "filter_received" /\ to = "filter_send" /\ ~IsMultiple(me)
             \/ at[me] = "filter_sent" /\ to = "filter_stop" /\ size[me] = 0
             \/ at[me] = "filter_sent" /\ to = "filter"
    BY <1>1, <1>3 DEF filter_received, filter_sent, SieveAt, At, GoTo
  <2>2. /\ at'[me] = to /\ pc' = pc /\ received' = received
        /\ \A t \in Thread \ {me} : at'[t] = at[t]
    BY <2>1, OwnFrame
  <2>3. \A t \in Thread : InPlace(t)'
    <3>1. InPlace(me)'
      BY <2>1, <2>2 DEF InPlace
    <3> QED BY <2>2, <3>1, InPlaceStays
  <2>4. \A t \in Thread : Holds(t)' <=> Holds(t)
    BY <2>1, <2>2 DEF Holds, InPlace, InSend
  <2>5. ASSUME Growing, Flow
        PROVE  to # "filter_stop" /\ \A t \in Thread : at'[t] = at[t] \/ Number(t)'
    <3>1. Number(me) /\ to # "filter_stop"
      BY <2>1, <2>5 DEF Flow, Grows
    <3>2. Above(me)' = Above(me) /\ (IsMultiple(me)' <=> IsMultiple(me)) /\ number'[me] = number[me]
      BY <2>1 DEF Above, Found, IsMultiple
    <3>3. CASE to = "filter_send"
      <4>1. Holds(me) /\ at[me] = "filter_received" /\ ~IsMultiple(me)
        BY <2>1, <3>3 DEF Holds
      <4> QED BY <2>2, <3>1, <3>2, <3>3, <4>1 DEF Number, BeginAt, TailAt, FilterAt
    <3>4. CASE to = "filter"
      <4>1. ~Holds(me)'
        BY <2>2, <3>4 DEF Holds
      <4> QED BY <2>2, <3>1, <3>4, <4>1 DEF Number, BeginAt
    <3> QED BY <2>1, <3>1, <3>3, <3>4
  <2> USE DEF SourceAt, TailAt, FilterAt, BeginAt
  <2>6. /\ \A t \in Thread : at'[t] \in TailAt <=> at[t] \in TailAt
        /\ at'[root] \in BeginAt <=> at[root] \in BeginAt
    BY <2>1, <2>2, SieveNames
  <2>7. to # "filter_stop" =>
          \A t \in Thread : /\ at'[t] \in SourceAt <=> at[t] \in SourceAt
                            /\ at'[t] \in FilterAt <=> at[t] \in FilterAt
                            /\ at'[t] = "new_filter" => at[t] = "new_filter"
    BY <2>1, <2>2
  <2>8. DataTypes' /\ InOrder' /\ (Growing' => Flow')
    BY <2>1, <2>4, <2>5, <2>6, <2>7, FlowStays
  <2> QED BY <2>3, <2>8 DEF NumbersOK
<1> QED BY <1>2, <1>3

(* What the tail of the chain knows when it has a number none of its       *)
(* primes divides: it is the next prime.                                   *)
LEMMA NextPrime ==
  ASSUME DataInv, NEW me \in Thread, me = current,
         at[me] = "sink_received", pc[me] = "user", ~IsMultiple(me)
  PROVE  /\ Growing /\ Flow /\ at[root] \notin BeginAt
         /\ \A t \in Thread \ {me} : at[t] \notin TailAt
         /\ \A p \in Found : p \in Nat /\ IsPrime(p) /\ p < number[me]
         /\ \A p \in 1 .. number[me] - 1 : IsPrime(p) => p \in Found
         /\ number[me] >= 2 /\ IsPrime(number[me])
<1> USE DataState, SieveNames
<1>1. Growing /\ Flow
  BY DEF Growing, TailAt
<1>2. at[root] \notin BeginAt
  BY DEF Roles, Begins, BeginAt
<1>3. \A t \in Thread \ {me} : at[t] \notin TailAt
  BY DEF Roles, Apart, TailAt
<1>4. PICK x \in Nat : x = number[me]
  OBVIOUS
<1>5. Holds(me) /\ Done(me) = x - 1
  BY <1>4 DEF Holds, Done
<1>6. Number(me) /\ LastLink(me)
  BY <1>1 DEF Flow, TailAt
<1>7. /\ \A p \in Found : p <= x - 1
      /\ \A p \in 1 .. x - 1 : IsPrime(p) => p \in Found
  BY <1>5, <1>6 DEF LastLink, Complete
<1>8. \A p \in Found : p \in Nat /\ IsPrime(p) /\ p < x
  <2>1. \A p \in Found : p \in Nat /\ IsPrime(p)
    BY FoundPrimes
  <2> QED BY <1>4, <1>7, <2>1
<1>9. x >= 2 /\ \A p \in Found : x % p # 0
  <2>1. x >= 2 /\ \A p \in Above(me) : x % p # 0
    BY <1>4, <1>5, <1>6 DEF Number, TailAt
  <2>2. \A p \in Range(primes[me]) : x % p # 0
    BY <1>4 DEF IsMultiple
  <2> QED BY <1>6, <2>1, <2>2 DEF LastLink
<1>10. IsPrime(x)
  <2>1. x \in Nat /\ x > 1 /\ \A p \in 1 .. x - 1 : IsPrime(p) => x % p # 0
    BY <1>4, <1>7, <1>9
  <2> QED BY ONLY <2>1, UndividedIsPrime
<1> QED BY <1>1, <1>2, <1>3, <1>4, <1>7, <1>8, <1>9, <1>10

(* If it is above LAST the primes up to LAST have been found.              *)
LEMMA StopNumbers ==
  ASSUME DataInv, NEW me \in Thread, me = current, OwnStep,
         at[me] = "sink_received", pc[me] = "user", ~IsMultiple(me), number[me] > LAST,
         UNCHANGED <<input, number, primes, actual, refused>>,
         at' = [at EXCEPT ![me] = "stop"]
  PROVE  NumbersOK'
<1> USE DataState, SieveNames
<1>1. /\ at'[me] = "stop" /\ pc' = pc /\ received' = received
      /\ \A t \in Thread \ {me} : at'[t] = at[t]
  BY OwnFrame
<1>2. \A t \in Thread : InPlace(t)'
  <2>1. InPlace(me)'
    BY <1>1 DEF InPlace
  <2> QED BY <1>1, <2>1, InPlaceStays
<1>3. DataTypes'
  BY DEF DataTypes
<1>4. /\ Growing /\ at[root] \notin BeginAt
      /\ \A t \in Thread \ {me} : at[t] \notin TailAt
      /\ \A p \in Found : p \in Nat /\ IsPrime(p) /\ p <= LAST
      /\ \A p \in 1 .. number[me] - 1 : IsPrime(p) => p \in Found
  BY NextPrime, FoundPrimes
<1>5. ~Growing'
  BY <1>1, <1>4 DEF Growing, BeginAt, TailAt
<1>6. \A p : p \in Found <=> p \in Nat /\ IsPrime(p) /\ p <= LAST
  <2>1. ASSUME NEW p \in Nat, IsPrime(p), p <= LAST PROVE p \in Found
    <3>1. p \in 1 .. number[me] - 1
      BY <2>1, PrimeFacts
    <3> QED BY <1>4, <2>1, <3>1
  <2> QED BY <1>4, <2>1
<1>7. Found = PrimesUpTo(LAST)
  BY <1>6, PrimeFacts
<1>8. InOrder /\ Found' = Found /\ at'[root] \notin BeginAt
  BY <1>1, <1>4 DEF NumbersOK, Found, BeginAt
<1>9. InOrder'
  BY <1>7, <1>8 DEF InOrder, PrimesUpTo, IsPrime
<1> QED BY <1>2, <1>3, <1>5, <1>9 DEF NumbersOK

(* What is in a sequence after Append. *)
LEMMA AppendMembers ==
  ASSUME NEW s \in Seq(Nat), NEW x \in Nat
  PROVE  /\ \A p : p \in Range(Append(s, x)) <=> p \in Range(s) \/ p = x
         /\ Append(s, x) # <<>>
         /\ DOMAIN s = 1 .. Len(s) /\ DOMAIN Append(s, x) = 1 .. Len(s) + 1 /\ Len(s) \in Nat
         /\ Append(s, x)[Len(s) + 1] = x
         /\ \A i \in DOMAIN s : Append(s, x)[i] = s[i] /\ s[i] \in Range(s)
<1>1. Range(Append(s, x)) = Range(s) \cup {x}
  BY AppendRange
<1>2. \A p : p \in Range(Append(s, x)) <=> p \in Range(s) \/ p = x
  BY ONLY <1>1, Zenon
<1>3. /\ DOMAIN s = 1 .. Len(s) /\ DOMAIN Append(s, x) = 1 .. Len(s) + 1 /\ Len(s) \in Nat
      /\ Append(s, x)[Len(s) + 1] = x /\ Append(s, x) # <<>>
      /\ \A i \in DOMAIN s : Append(s, x)[i] = s[i]
  OBVIOUS
<1>4. \A i \in DOMAIN s : s[i] \in Range(s)
  BY DEF Range
<1> QED BY <1>2, <1>3, <1>4

(* If not it is the next one found, and a divisor of those to come.        *)
LEMMA TakeNumbers ==
  ASSUME DataInv, NEW me \in Thread, me = current, OwnStep,
         at[me] = "sink_received", pc[me] = "user", ~IsMultiple(me), number[me] <= LAST,
         UNCHANGED <<input, number, refused>>,
         actual' = Append(actual, number[me]),
         primes' = [primes EXCEPT ![me] = Append(@, number[me])],
         NEW to \in {"sink", "new_filter"}, at' = [at EXCEPT ![me] = to]
  PROVE  NumbersOK'
<1> USE DataState, SieveNames
<1>1. /\ at'[me] = to /\ pc' = pc /\ received' = received
      /\ \A t \in Thread \ {me} : at'[t] = at[t]
  BY OwnFrame
<1>2. \A t \in Thread : InPlace(t)'
  <2>1. InPlace(me)'
    BY <1>1 DEF InPlace
  <2> QED BY <1>1, <2>1, InPlaceStays
<1>3. DataTypes'
  BY DEF DataTypes
<1>4. PICK x \in Nat : x = number[me]
  OBVIOUS
<1>5. /\ Growing /\ Flow /\ at[root] \notin BeginAt
      /\ \A t \in Thread \ {me} : at[t] \notin TailAt
      /\ \A p \in Found : p \in Nat /\ IsPrime(p) /\ p < x
      /\ \A p \in 1 .. x - 1 : IsPrime(p) => p \in Found
      /\ x >= 2 /\ IsPrime(x)
  BY <1>4, NextPrime
<1>6. /\ \A p : p \in Found' <=> p \in Found \/ p = x
      /\ \A p : p \in Range(primes'[me]) <=> p \in Range(primes[me]) \/ p = x
      /\ primes'[me] # <<>>
      /\ \A t \in Thread \ {me} : primes'[t] = primes[t]
  <2>1. actual' = Append(actual, x) /\ actual \in Seq(Nat)
    BY <1>4
  <2>2. \A p : p \in Range(actual') <=> p \in Range(actual) \/ p = x
    BY ONLY <2>1, x \in Nat, AppendMembers
  <2>3. primes'[me] = Append(primes[me], x) /\ primes[me] \in Seq(Nat)
    BY <1>4
  <2>4. /\ \A p : p \in Range(primes'[me]) <=> p \in Range(primes[me]) \/ p = x
        /\ primes'[me] # <<>>
    BY ONLY <2>3, x \in Nat, AppendMembers
  <2>5. \A p : p \in Found' <=> p \in Found \/ p = x
    BY ONLY <2>2, Zenon DEF Found
  <2>6. \A t \in Thread \ {me} : primes'[t] = primes[t]
    OBVIOUS
  <2> QED BY ONLY <2>4, <2>5, <2>6
<1>7. InOrder'
  <2>1. \A i, j \in DOMAIN actual' : i < j => actual'[i] < actual'[j]
    <3>1. \A i, j \in DOMAIN actual : i < j => actual[i] < actual[j]
      BY DEF NumbersOK, InOrder
    <3>2. actual' = Append(actual, x) /\ actual \in Seq(Nat)
      BY <1>4
    <3>3. /\ DOMAIN actual = 1 .. Len(actual) /\ DOMAIN actual' = 1 .. Len(actual) + 1
          /\ actual'[Len(actual) + 1] = x /\ Len(actual) \in Nat
          /\ \A i \in DOMAIN actual : actual'[i] = actual[i] /\ actual[i] \in Found
      BY ONLY <3>2, x \in Nat, AppendMembers DEF Found
    <3>4. \A i \in DOMAIN actual : actual'[i] < x
      BY ONLY <1>5, <3>3
    <3> QED BY ONLY <3>1, <3>3, <3>4
  <2>2. Found' = PrimesUpTo(x) /\ x \in 0 .. LAST
    <3>1. ASSUME NEW p \in Nat, IsPrime(p), p <= x PROVE p \in Found'
      <4>1. p = x \/ p \in 1 .. x - 1
        BY ONLY <3>1, p \in Nat, x \in Nat, PrimeFacts
      <4> QED BY ONLY <1>5, <1>6, <3>1, <4>1
    <3>2. \A p : p \in Found' <=> p \in Nat /\ IsPrime(p) /\ p <= x
      BY ONLY <1>5, <1>6, <3>1, x \in Nat
    <3>3. x \in 0 .. LAST
      BY <1>4
    <3>4. \A p : p \in PrimesUpTo(x) <=> p \in Nat /\ IsPrime(p) /\ p <= x
      BY PrimeFacts
    <3>5. \A p : p \in Found' <=> p \in PrimesUpTo(x)
      BY ONLY <3>2, <3>4
    <3> QED BY ONLY <3>3, <3>5
  <2>3. Growing' /\ at'[root] \notin BeginAt
    BY <1>1, <1>5 DEF Growing, BeginAt, TailAt
  <2>4. PrimesUpTo(x)' = PrimesUpTo(x)
    BY DEF PrimesUpTo, IsPrime
  <2>5. \E n \in 0 .. LAST : Found' = PrimesUpTo(n)'
    BY <2>2, <2>4
  <2> QED BY <2>1, <2>3, <2>5 DEF InOrder
<1>8. Holds(me) /\ ~Holds(me)' /\ \A t \in Thread \ {me} : Holds(t)' <=> Holds(t)
  BY <1>1 DEF Holds
<1>9. /\ Done(me)' = x /\ \A t \in Thread \ {me} : Done(t)' = Done(t)
      /\ \A t \in Thread : Done(t) \in Int
  BY <1>4, <1>8 DEF Done
<1> USE DEF SourceAt, TailAt, FilterAt, BeginAt
<1>10. \A u, v \in Thread : (Feeds(u, v)' <=> Feeds(u, v)) /\ (Feeds(u, v) => u # me)
  BY <1>1 DEF Feeds
<1>11. Above(me)' = Above(me)
  <2>1. \A p : p \in Above(me)' <=> p \in Found' /\ \A r \in Range(primes'[me]) : p < r
    BY ONLY DEF Above
  <2>2. \A p : p \in Above(me) <=> p \in Found /\ \A r \in Range(primes[me]) : p < r
    BY ONLY DEF Above
  <2>3. \A p : p \in Above(me)' <=> p \in Above(me)
    BY ONLY <1>5, <1>6, <2>1, <2>2, x \in Nat
  <2> QED BY ONLY <2>3
<1>12. ASSUME NEW t \in Thread, at[t] \in FilterAt PROVE Above(t)' = Above(t)
  <2>1. t # me /\ Divisors(t) /\ primes[t] # <<>>
    BY <1>5, <1>12 DEF Flow, Divisors
  <2>2. Range(primes[t]) # {}
    <3>1. primes[t] \in Seq(Nat)
      OBVIOUS
    <3>2. 1 \in DOMAIN primes[t]
      BY <2>1, <3>1
    <3>3. primes[t][1] \in Range(primes[t])
      BY ONLY <3>2, Zenon DEF Range
    <3> QED BY <3>3
  <2>3. PICK r \in Range(primes[t]) : r < x /\ r \in Nat
    BY <1>5, <2>1, <2>2 DEF Divisors
  <2>4. ~(x < r)
    BY <2>3
  <2> QED BY <1>6, <2>1, <2>4 DEF Above
<1>13. ASSUME NEW t \in Thread PROVE Number(t)' /\ Divisors(t)'
  <2>1. Number(t) /\ Divisors(t)
    BY <1>5 DEF Flow
  <2>2. CASE t = me
    <3>1. Number(me)'
      BY <1>1, <1>8 DEF Number
    <3>2. \A p \in Range(primes[me]) : p \in Found
      BY <2>1, <2>2 DEF Divisors
    <3>3. \A p \in Range(primes'[me]) : p \in Found' /\ p <= x
      BY ONLY <1>5, <1>6, <3>2, x \in Nat
    <3>4. Divisors(me)'
      BY <1>6, <1>9, <3>3 DEF Divisors
    <3> QED BY <2>2, <3>1, <3>4
  <2>3. CASE t # me
    <3>1. at'[t] = at[t] /\ primes'[t] = primes[t] /\ number'[t] = number[t]
      BY <1>1, <1>6, <2>3
    <3>2. Holds(t)' <=> Holds(t)
      BY <1>8, <2>3
    <3>3. Done(t)' = Done(t)
      BY <1>9, <2>3
    <3>4. IsMultiple(t)' <=> IsMultiple(t)
      BY <3>1 DEF IsMultiple
    <3>5. at[t] \in TailAt \cup FilterAt => Above(t)' = Above(t)
      BY <1>5, <1>12, <2>3
    <3>6. Number(t)'
      BY <2>1, <3>1, <3>2, <3>4, <3>5 DEF Number
    <3>7. Divisors(t)'
      BY <1>6, <2>1, <3>1, <3>3 DEF Divisors
    <3> QED BY <3>6, <3>7
  <2> QED BY <2>2, <2>3
<1>14. ASSUME NEW t \in Thread, at'[t] \in TailAt PROVE LastLink(t)'
  <2>1. t = me
    BY <1>1, <1>5, <1>14
  <2>2. LastLink(me)
    BY <1>5 DEF Flow
  <2>3. Found' \subseteq Above(me)' \cup Range(primes'[me])
    BY <1>6, <1>11, <2>2 DEF LastLink
  <2>4. /\ \A p \in Found' : p <= x
        /\ \A p \in 1 .. x : IsPrime(p) => p \in Found'
    <3>1. \A p \in 1 .. x : p = x \/ p \in 1 .. x - 1
      OBVIOUS
    <3>2. \A p \in 1 .. x : IsPrime(p) => p \in Found'
      BY ONLY <1>5, <1>6, <3>1
    <3>3. \A p \in Found' : p <= x
      BY ONLY <1>5, <1>6, x \in Nat
    <3> QED BY ONLY <3>2, <3>3
  <2>5. Complete(me)'
    BY <1>9, <2>4 DEF Complete, IsPrime
  <2>6. ASSUME NEW u \in Thread, Feeds(u, me)' PROVE \A p \in Found' : p <= Done(u)'
    <3>1. Feeds(u, me) /\ u # me
      BY <1>10, <2>6
    <3>2. x <= Done(u) /\ Done(u)' = Done(u) /\ Done(u) \in Int
      BY <1>4, <1>5, <1>9, <3>1 DEF Flow, Ahead
    <3> QED BY ONLY <1>5, <1>6, <3>2, x \in Nat
  <2> QED BY <2>1, <2>3, <2>5, <2>6 DEF LastLink
<1>15. ASSUME NEW u \in Thread, NEW v \in Thread, Feeds(u, v)'
       PROVE  Ahead(u, v)' /\ Sifted(u, v)'
  <2>1. Feeds(u, v) /\ u # me /\ Ahead(u, v) /\ Sifted(u, v)
    BY <1>5, <1>10, <1>15 DEF Flow
  <2>2. Done(u)' = Done(u) /\ at'[u] = at[u] /\ primes'[u] = primes[u] /\ number' = number
    BY <1>1, <1>6, <1>9, <2>1
  <2>3. Ahead(u, v)'
    BY <1>6, <2>1, <2>2 DEF Ahead, IsPrime
  <2>4. Above(v)' = Above(v)
    BY <1>5, <1>11, <1>12, <2>1 DEF Feeds
  <2>5. at[u] \in FilterAt => Above(u)' = Above(u)
    BY <1>12
  <2>6. Sifted(u, v)'
    BY <2>1, <2>2, <2>4, <2>5 DEF Sifted
  <2> QED BY <2>3, <2>6
<1>16. Flow'
  BY <1>13, <1>14, <1>15 DEF Flow
<1> QED BY <1>2, <1>3, <1>7, <1>16 DEF NumbersOK

(* The three together are the step of the sink.                            *)
LEMMA SinkNumbers ==
  ASSUME DataInv, sink_received
  PROVE  NumbersOK'
<1>1. PICK me \in Thread : me = current
  BY DataState
<1>2. /\ OwnStep /\ at[me] = "sink_received" /\ pc[me] = "user"
      /\ UNCHANGED <<input, number, refused>>
  BY <1>1 DEF sink_received, SieveAt, At
<1>3. CASE IsMultiple(me)
  <2>1. at' = [at EXCEPT ![me] = "sink"] /\ UNCHANGED <<primes, actual>>
    BY <1>1, <1>3 DEF sink_received, GoTo
  <2> QED BY <1>1, <1>2, <1>3, <2>1, DropNumbers
<1>4. CASE ~IsMultiple(me) /\ number[me] > LAST
  <2>1. at' = [at EXCEPT ![me] = "stop"] /\ UNCHANGED <<primes, actual>>
    BY <1>1, <1>4 DEF sink_received, GoTo
  <2> QED BY <1>1, <1>2, <1>4, <2>1, StopNumbers
<1>5. CASE ~IsMultiple(me) /\ ~(number[me] > LAST)
  <2>1. /\ actual' = Append(actual, number[me])
        /\ primes' = [primes EXCEPT ![me] = Append(@, number[me])]
        /\ \E to \in {"sink", "new_filter"} : at' = [at EXCEPT ![me] = to]
    BY <1>1, <1>5 DEF sink_received, GoTo
  <2>2. number[me] <= LAST
    <3>1. number[me] \in Nat
      BY DataState
    <3> QED BY <1>5, <3>1, SieveNames
  <2> QED BY <1>1, <1>2, <1>5, <2>1, <2>2, TakeNumbers
<1> QED BY <1>3, <1>4, <1>5

(* root begins with nothing found, and creates threads that have done      *)
(* nothing.                                                                *)
LEMMA BeginNumbers ==
  ASSUME DataInv, sieve_test_new
  PROVE  NumbersOK'
<1> USE DEF SourceAt, TailAt, FilterAt, BeginAt
<1>1. /\ current \in Thread /\ at \in [Thread -> Places] /\ ThreadsInv
      /\ Roles /\ NumbersOK /\ (Growing => Flow) /\ Place(current)
      /\ number \in [Thread -> Nat] /\ primes \in [Thread -> Seq(Nat)]
  BY DataState
<1>2. /\ at[current] \in BeginAt
      /\ UNCHANGED <<number, actual>>
  BY DEF sieve_test_new, SieveAt, Spawn
<1>3. current = root /\ Growing /\ Flow
  BY <1>1, <1>2 DEF Place, Growing
<1>4. actual = <<>> /\ \A t \in Thread : at[t] \in BeginAt \cup {"return", "source"}
  BY <1>1, <1>2, <1>3 DEF Roles, Begins, NumbersOK, InOrder
<1>5. Found = {} /\ Found' = {}
  BY <1>2, <1>4 DEF Found, Range
<1>6. \A t \in Thread : number'[t] = 0 /\ Range(primes[t]) = {}
  <2> TAKE t \in Thread
  <2>1. Number(t) /\ Divisors(t)
    BY <1>3 DEF Flow
  <2> QED BY <1>2, <1>4, <1>5, <2>1 DEF Number, Divisors
<1>7. /\ \A t \in Thread : at'[t] \in {"return", "source", "sink", "new_sink", "join_all"}
      /\ \A t \in Thread : primes'[t] \in {primes[t], <<>>}
      /\ primes' \in [Thread -> Seq(Nat)]
      /\ Growing' \/ refused'
  <2>1. PICK body \in {"source", "sink"}, label \in {"new_sink", "join_all"} :
          /\ Spawn(body, first_chan, label)
          /\ \/ at[root] = "new_source" /\ label = "new_sink"
             \/ at[root] = "new_sink" /\ body = "sink" /\ label = "join_all"
    BY <1>3 DEF sieve_test_new, SieveAt
  <2>2. CASE \E t \in Thread : /\ thread_new(t)
                               /\ at' = [at EXCEPT ![current] = label, ![t] = body]
                               /\ primes' = [primes EXCEPT ![t] = <<>>]
    <3>1. PICK t \in Thread : /\ thread_new(t)
                              /\ at' = [at EXCEPT ![current] = label, ![t] = body]
                              /\ primes' = [primes EXCEPT ![t] = <<>>]
      BY <2>2
    <3>2. t # root
      BY <3>1 DEF thread_new
    <3>3. at'[root] = label /\ at'[t] = body /\ \A u \in Thread \ {root, t} : at'[u] = at[u]
      BY <1>1, <1>3, <3>1, <3>2
    <3>4. \A u \in Thread \ {root} : at[u] \in {"return", "source"}
      BY <1>1, <1>2, <1>3 DEF Roles, Begins
    <3>5. Growing'
      BY <2>1, <3>3 DEF Growing
    <3>6. primes' \in [Thread -> Seq(Nat)] /\ \A u \in Thread : primes'[u] \in {primes[u], <<>>}
      BY <1>1, <3>1
    <3> QED BY <2>1, <3>3, <3>4, <3>5, <3>6
  <2>3. CASE GoTo(label) /\ refused' = TRUE /\ primes' = primes
    <3>1. at' = [at EXCEPT ![root] = label]
      BY <1>3, <2>3 DEF GoTo
    <3>2. \A u \in Thread \ {root} : at[u] \in {"return", "source"}
      BY <1>1, <1>2, <1>3 DEF Roles, Begins
    <3>3. \A t \in Thread : at'[t] \in {"return", "source", "sink", "new_sink", "join_all"}
      BY <1>1, <2>1, <3>1, <3>2
    <3>4. refused'
      BY ONLY <2>3, Zenon
    <3> QED BY <1>1, <2>3, <3>3, <3>4
  <2> QED BY <2>1, <2>2, <2>3 DEF Spawn
<1>8. DataTypes'
  BY <1>1, <1>2, <1>7 DEF DataTypes, NumbersOK
<1>9. \A t \in Thread : InPlace(t)'
  BY <1>7 DEF InPlace
<1>10. InOrder'
  <2>1. actual' = <<>> /\ Found' = Found
    BY <1>2, <1>4, <1>5
  <2>2. \E n \in 0 .. LAST : Found' = PrimesUpTo(n)'
    BY <1>1, <2>1 DEF NumbersOK, InOrder, PrimesUpTo, IsPrime
  <2>3. (~Growing)' /\ (~refused)' => FALSE
    BY ONLY <1>7, Zenon
  <2>4. \A i, j \in DOMAIN actual' : i < j => actual'[i] < actual'[j]
    BY <2>1
  <2> QED BY <2>1, <2>2, <2>3, <2>4 DEF InOrder
<1>11. \A t \in Thread : ~Holds(t)' /\ Done(t)' = 0 /\ Range(primes'[t]) = {}
  <2> TAKE t \in Thread
  <2>1. ~Holds(t)'
    BY <1>7 DEF Holds
  <2>2. Range(<<>>) = {}
    BY DEF Range
  <2>3. Range(primes'[t]) = {}
    BY <1>6, <1>7, <2>2
  <2> QED BY <1>6, <2>1, <2>3 DEF Done
<1>12. \A t \in Thread : Above(t)' = {}
  BY <1>5 DEF Above
<1>13. \A t \in Thread : Number(t)' /\ Divisors(t)'
  BY <1>6, <1>7, <1>11 DEF Number, Divisors
<1>14. \A t \in Thread : LastLink(t)'
  BY <1>5, <1>11 DEF LastLink, Complete
<1>15. \A u, v \in Thread : Ahead(u, v)' /\ Sifted(u, v)'
  BY <1>6, <1>11, <1>12 DEF Ahead, Sifted
<1>16. Flow'
  BY <1>13, <1>14, <1>15 DEF Flow
<1> QED BY <1>8, <1>9, <1>10, <1>16 DEF NumbersOK

(* The thread at the end of the chain that becomes a filter divides by the *)
(* primes it has found, and is done with all the numbers up to them.       *)
LEMMA NewFilterNumbers ==
  ASSUME DataInv, sink_new_filter
  PROVE  NumbersOK'
<1> USE DataState, SieveNames
<1>1. PICK me \in Thread : me = current
  OBVIOUS
<1>2. /\ at[me] = "new_filter" /\ pc[me] = "user" /\ Spawn("sink", frame_chan[me], "filter")
      /\ UNCHANGED <<number, actual, received>>
  BY <1>1 DEF sink_new_filter, SieveAt, At, Spawn
<1> USE DEF SourceAt, TailAt, FilterAt, BeginAt
<1>3. /\ Growing /\ Flow /\ me # root /\ at[root] \notin BeginAt
      /\ \A t \in Thread : Grows(t)
      /\ \A t \in Thread \ {me} : at[t] \notin TailAt
  BY <1>1, <1>2 DEF Growing, Place, Roles, Begins, Apart
<1>4. /\ number[me] \in Nat /\ ~Holds(me) /\ Done(me) = number[me]
      /\ primes[me] # <<>> /\ LastLink(me) /\ Complete(me)
      /\ \A p \in Found : p <= Done(me)
  BY <1>2, <1>3 DEF Holds, Done, Flow, Divisors, LastLink, Complete
<1>5. ASSUME NEW t \in Thread, thread_new(t),
             at' = [at EXCEPT ![me] = "filter", ![t] = "sink"],
             input' = [input EXCEPT ![t] = frame_chan[me]],
             primes' = [primes EXCEPT ![t] = <<>>], refused' = refused
      PROVE  NumbersOK'
  <2>1. t \notin Live /\ t # root /\ t # me /\ pc' = [pc EXCEPT ![t] = "user"]
    BY <1>1, <1>5, SpawnCall
  <2>2. at[t] = "return" /\ pc[t] = "user"
    BY <2>1 DEF Place
  <2>3. number[t] = 0 /\ number'[t] = 0
    BY <1>2, <1>3, <2>2 DEF Flow, Number
  <2>4. /\ at'[me] = "filter" /\ at'[t] = "sink" /\ at'[root] = at[root]
        /\ input'[t] = frame_chan[me] /\ input'[me] = input[me] /\ primes'[t] = <<>>
        /\ \A u \in Thread \ {me, t} : at'[u] = at[u] /\ input'[u] = input[u]
        /\ \A u \in Thread \ {t} : primes'[u] = primes[u]
        /\ \A u \in Thread : pc'[u] = pc[u]
    BY <1>3, <1>5, <2>1, <2>2
  <2>5. DataTypes'
    BY <1>2, <1>5 DEF DataTypes
  <2>6. \A u \in Thread : InPlace(u)'
    BY <1>2, <2>4 DEF InPlace, InSend, Receiving
  <2>7. /\ Growing' /\ at'[root] \notin BeginAt /\ actual' = actual /\ Found' = Found
        /\ \A p \in Found : p \in Nat
    BY <1>2, <1>3, <2>4, FoundPrimes DEF Growing, Found
  <2>8. InOrder'
    BY <2>7 DEF InOrder, NumbersOK, PrimesUpTo, IsPrime
  <2>9. /\ \A u \in Thread : Holds(u)' <=> Holds(u)
        /\ ~Holds(me)' /\ ~Holds(t)'
    BY <1>2, <1>4, <2>2, <2>4 DEF Holds
  <2>10. /\ \A u \in Thread : Done(u)' = Done(u)
         /\ Done(t)' = 0
    BY <1>2, <2>3, <2>9 DEF Done
  <2>11. /\ \A u \in Thread \ {t} : Above(u)' = Above(u)
         /\ Above(t)' = Found
    <3>1. \A u \in Thread \ {t} : Above(u)' = Above(u)
      BY <2>4, <2>7 DEF Above
    <3>2. Range(<<>>) = {}
      BY DEF Range
    <3> QED BY <2>4, <2>7, <3>1, <3>2 DEF Above
  <2>12. ASSUME NEW u \in Thread PROVE Number(u)' /\ Divisors(u)'
    <3>1. Number(u) /\ Divisors(u)
      BY <1>3 DEF Flow
    <3>2. CASE u = t
      <4>1. Range(primes'[u]) = {}
        BY <2>4, <3>2 DEF Range
      <4> QED BY <2>4, <2>9, <3>2, <4>1 DEF Number, Divisors
    <3>3. CASE u = me
      <4>1. Number(u)'
        BY <2>4, <2>9, <3>3 DEF Number
      <4> QED BY <1>2, <1>4, <2>1, <2>4, <2>7, <2>10, <3>1, <3>3, <4>1 DEF Divisors
    <3>4. CASE u # t /\ u # me
      <4>1. /\ at'[u] = at[u] /\ number'[u] = number[u] /\ primes'[u] = primes[u]
            /\ Done(u)' = Done(u) /\ (Holds(u)' <=> Holds(u)) /\ Above(u)' = Above(u)
        BY <1>2, <2>4, <2>9, <2>10, <2>11, <3>4
      <4>2. IsMultiple(u)' <=> IsMultiple(u)
        BY <4>1 DEF IsMultiple
      <4> QED BY <2>7, <3>1, <4>1, <4>2 DEF Number, Divisors
    <3> QED BY <3>2, <3>3, <3>4
  <2>13. ASSUME NEW u \in Thread, Feeds(u, t)' PROVE u = me
    <3>1. u # t /\ (at'[u] \in FilterAt => u # root)
      BY <1>3, <2>4, <2>13 DEF Feeds, Place
    <3> QED BY <1>3, <2>4, <2>13, <3>1 DEF Feeds, first_chan
  <2>14. ASSUME NEW v \in Thread, at'[v] \in TailAt PROVE LastLink(v)'
    <3>1. v = t
      BY <1>3, <2>4, <2>14
    <3>2. Complete(t)'
      BY <2>4, <2>9, <2>10 DEF Complete
    <3> QED BY <1>4, <2>7, <2>10, <2>11, <2>13, <3>1, <3>2 DEF LastLink
  <2>15. ASSUME NEW u \in Thread, NEW v \in Thread, Feeds(u, v)'
         PROVE  Ahead(u, v)' /\ Sifted(u, v)'
    <3>1. CASE v = t
      <4>1. u = me
        BY <2>13, <2>15, <3>1
      <4>2. Ahead(u, v)'
        <5>1. \A p \in 1 .. Done(me) : IsPrime(p) => p \in Found
          BY <1>4 DEF Complete
        <5>2. Done(u)' = Done(me) /\ Done(me) \in Nat /\ number'[v] = 0 /\ Found' = Found
          BY <1>4, <2>3, <2>7, <2>10, <3>1, <4>1
        <5> QED BY ONLY <5>1, <5>2 DEF Ahead, IsPrime
      <4>3. Sifted(u, v)'
        BY <1>4, <2>1, <2>4, <2>11, <3>1, <4>1 DEF Sifted, LastLink
      <4> QED BY <4>2, <4>3
    <3>2. CASE v # t
      <4>1. u # t
        BY <2>4, <2>15 DEF Feeds
      <4>2. at[v] \in TailAt \cup FilterAt /\ input'[v] = input[v]
        BY <1>2, <2>4, <2>15, <3>2 DEF Feeds
      <4>3. u # me
        <5>1. \/ input[v] = first_chan
              \/ \E w \in Thread \ {root} : input[v] = frame_chan[w] /\ at[w] \in FilterAt
          BY <1>3, <4>2 DEF Grows, Reads
        <5>2. input[v] # frame_chan[me]
          BY <1>2, <1>3, <5>1 DEF first_chan
        <5> QED BY <2>4, <2>15, <4>2, <5>2 DEF Feeds
      <4>4. at'[u] = at[u] /\ Feeds(u, v)
        BY <2>4, <2>15, <4>1, <4>2, <4>3 DEF Feeds
      <4>5. Ahead(u, v) /\ Sifted(u, v)
        BY <1>3, <4>4 DEF Flow
      <4>6. Ahead(u, v)'
        BY <1>2, <2>7, <2>10, <4>5 DEF Ahead, IsPrime
      <4>7. Sifted(u, v)'
        BY <2>4, <2>11, <3>2, <4>1, <4>4, <4>5 DEF Sifted
      <4> QED BY <4>6, <4>7
    <3> QED BY <3>1, <3>2
  <2>16. Flow'
    BY <2>12, <2>14, <2>15 DEF Flow
  <2> QED BY <2>5, <2>6, <2>8, <2>16 DEF NumbersOK
<1>6. ASSUME thread_new_fails, GoTo("filter"), input' = input, primes' = primes,
             refused' = TRUE
      PROVE  NumbersOK'
  <2>1. pc' = pc
    BY <1>6, SpawnFails
  <2>2. at'[me] = "filter" /\ \A u \in Thread \ {me} : at'[u] = at[u]
    BY <1>1, <1>6 DEF GoTo
  <2>3. DataTypes'
    BY <1>2, <1>6 DEF DataTypes
  <2>4. \A u \in Thread : InPlace(u)'
    BY <1>2, <2>1, <2>2 DEF InPlace, InSend, Receiving
  <2>5. ~Growing' /\ at'[root] \notin BeginAt
    BY <1>3, <2>2 DEF Growing
  <2>6. actual' = actual /\ Found' = Found
    BY <1>2 DEF Found
  <2>7. (~refused)' => FALSE
    BY ONLY <1>6, Zenon
  <2>8. InOrder'
    BY <2>5, <2>6, <2>7 DEF InOrder, NumbersOK, PrimesUpTo, IsPrime
  <2> QED BY <2>3, <2>4, <2>5, <2>8 DEF NumbersOK
<1>7. \/ \E t \in Thread : /\ thread_new(t)
                           /\ at' = [at EXCEPT ![me] = "filter", ![t] = "sink"]
                           /\ input' = [input EXCEPT ![t] = frame_chan[me]]
                           /\ primes' = [primes EXCEPT ![t] = <<>>] /\ refused' = refused
      \/ thread_new_fails /\ GoTo("filter") /\ input' = input /\ primes' = primes
           /\ refused' = TRUE
  BY <1>1, <1>2 DEF Spawn
<1> QED BY <1>5, <1>6, <1>7

---------------------------------------------------------------------------
(* The sieve finds the primes. *)

(* Every step of the sieve keeps the invariant for the numbers. *)
LEMMA DataNext ==
  ASSUME DataInv, [SieveNext]_sieveAll
  PROVE  DataInv'
<1>1. SUFFICES NumbersOK'
  BY UseNextInv DEF DataInv
<1>2. CASE InCall
  <2>1. CASE RecvCopy
    BY <2>1, CopyNumbers
  <2>2. CASE ~RecvCopy
    BY <1>2, <2>2, CallNumbers DEF InCall
  <2> QED BY <2>1, <2>2
<1>3. CASE SieveNext /\ ~InCall
  BY <1>3, BeginNumbers, EndNumbers, SourceNumbers, SendNumbers, RecvNumbers, SinkNumbers,
     NewFilterNumbers, FilterNumbers DEF SieveNext
<1>4. CASE UNCHANGED sieveAll
  <2>1. /\ NumbersOK
        /\ UNCHANGED <<pc, chan, received, at, input, number, primes, actual, refused>>
    BY <1>4 DEF sieveAll, sieveVars, allVars, threadVars, chanVars, DataInv
  <2>2. \A t \in Thread : InPlace(t)'
    BY <2>1 DEF NumbersOK, InPlace, InSend, Receiving
  <2>3. \A t \in Thread : /\ Holds(t)' <=> Holds(t)
                          /\ at'[t] = at[t]
    BY <2>1 DEF Holds
  <2>4. DataTypes' /\ InOrder' /\ (Growing' => Flow')
    BY <2>1, <2>3, FlowStays
  <2> QED BY <2>2, <2>4 DEF NumbersOK
<1> QED BY <1>2, <1>3, <1>4

(* Initially no number is sent and no prime is found. *)
LEMMA DataInit == SieveInit => DataInv
<1> SUFFICES ASSUME SieveInit PROVE DataInv
  OBVIOUS
<1> USE SieveNames
<1>1. /\ UseInv
      /\ at = [t \in Thread |-> IF t = root THEN "new_source" ELSE "return"]
      /\ number = [t \in Thread |-> 0] /\ primes = [t \in Thread |-> <<>>]
      /\ actual = <<>>
  BY UseInit DEF SieveInit
<1>2. /\ at[root] = "new_source" /\ \A t \in Thread : at[t] \in {"new_source", "return"}
      /\ Found = {} /\ Range(<<>>) = {} /\ Growing
  BY <1>1 DEF Found, Range, Growing, BeginAt
<1>3. DataTypes /\ \A t \in Thread : InPlace(t)
  BY <1>1, <1>2 DEF DataTypes, InPlace
<1>4. InOrder
  <2>1. PrimesUpTo(0) = {}
    BY DEF PrimesUpTo
  <2>2. \E n \in 0 .. LAST : Found = PrimesUpTo(n)
    BY <1>2, <2>1
  <2>3. \A i, j \in DOMAIN actual : i < j => actual[i] < actual[j]
    BY <1>1
  <2> QED BY <1>1, <1>2, <2>2, <2>3 DEF InOrder
<1>5. \A t \in Thread : ~Holds(t) /\ Done(t) = 0 /\ number[t] = 0 /\ Above(t) = {}
  BY <1>1, <1>2 DEF Holds, Done, Above
<1>6. \A t \in Thread : Number(t) /\ Divisors(t)
  BY <1>1, <1>2, <1>5 DEF Number, Divisors, TailAt, FilterAt
<1>7. \A t \in Thread : LastLink(t)
  BY <1>2, <1>5 DEF LastLink, Complete
<1>8. \A u, v \in Thread : Ahead(u, v) /\ Sifted(u, v)
  BY <1>5 DEF Ahead, Sifted
<1> QED BY <1>1, <1>3, <1>4, <1>6, <1>7, <1>8 DEF DataInv, NumbersOK, Flow

(* When the last thread has exited no thread is in the chain. *)
LEMMA OrderHolds == DataInv => PrimesInOrder
<1> SUFFICES ASSUME DataInv PROVE PrimesInOrder
  OBVIOUS
<1> USE DataState, SieveNames
<1>1. InOrder
  BY DEF NumbersOK
<1>2. ASSUME status = "halt" PROVE ~Growing
  <2>1. Live = {}
    BY <1>2 DEF ThreadsInv, Scheduled
  <2>2. \A t \in Thread : at[t] = "return"
    BY <2>1 DEF Place
  <2> QED BY <2>2 DEF Growing, TailAt, BeginAt
<1> QED BY <1>1, <1>2 DEF InOrder, Found, PrimesInOrder

(* For any number of threads, any PER and any LAST the sieve finds the     *)
(* primes in order, with no prime left out and no other number among them, *)
(* and if every thread could be created all those up to LAST: source()     *)
(* leaves out even numbers only, each sink() and filter() tries all its    *)
(* primes, and no number is lost or passes another on its way.             *)
THEOREM SievePrimesInOrder == SieveSpec => []PrimesInOrder
<1>1. DataInv /\ [SieveNext]_sieveAll => DataInv'
  BY DataNext
<1> QED BY DataInit, <1>1, OrderHolds, PTL DEF SieveSpec

============================================================================
