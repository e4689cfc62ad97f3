---------------------------- MODULE MCChannels -----------------------------
(* Channels on a small instance: one channel. *)
EXTENDS Channels, TLC

CONSTANTS c1, s_send, s_recv, s_sync

Send == c1 :> s_send
Recv == c1 :> s_recv
Sync == c1 :> s_sync
Start == s_send :> 1 @@ s_recv :> 0 @@ s_sync :> 0

Symmetry == Permutations(Thread \ {root})
============================================================================
