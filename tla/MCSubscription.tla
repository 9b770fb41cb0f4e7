----------------------------- MODULE MCSubscription -----------------------------
(* Small instances of Subscription: one channel that holds a state and an  *)
(* unbuffered one.                                                         *)
EXTENDS Subscription, TLC

CONSTANTS s1, s2, c1, c2, p1, p2

MCCapacity == [c \in Chans |-> IF c = c1 THEN 1 ELSE 0]
MCChannel == [s \in Subs |-> IF s = s1 THEN c1 ELSE c2]

(* Two Subscribe calls, a change, and a client that takes the hook out     *)
(* again.  One Subscribe call, a change and another machine's transition   *)
(* at the same time.  One Subscribe call and two changes.                  *)
MCPrograms ==
  { [subs |-> {s1, s2}, changers |-> {p1}, changes |-> 1, others |-> {}, unhooks |-> TRUE],
    [subs |-> {s1}, changers |-> {p1}, changes |-> 1, others |-> {p2}, unhooks |-> FALSE],
    [subs |-> {s1}, changers |-> {p1, p2}, changes |-> 2, others |-> {}, unhooks |-> FALSE] }

AllModes == {"best effort", "timeout", "guaranteed"}
================================================================================
