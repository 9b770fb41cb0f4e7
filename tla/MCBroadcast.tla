------------------------------ MODULE MCBroadcast ------------------------------
(* Small instances of Broadcast.                                           *)
EXTENDS Broadcast, TLC

CONSTANTS s1, s2, custom, b1, b2

(* Default: the manager's channels hold one state, the custom channel is   *)
(* unbuffered.  WithBufferSize(0) makes the manager's unbuffered as well.  *)
MCCapacity == [c \in Chans |-> IF c = custom THEN 0 ELSE 1]
Unbuffered == [c \in Chans |-> 0]

AllModes == {"best effort", "timeout", "guaranteed"}
BlockingModes == {"timeout", "guaranteed"}

Symmetry == Permutations(Subs) \cup Permutations(Broadcasters)
================================================================================
