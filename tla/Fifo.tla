--------------------------------- MODULE Fifo ---------------------------------
(***************************************************************************)
(* What a ring buffer promises: a bounded queue.  "out" is what the last   *)
(* operation handed to its caller.                                         *)
(***************************************************************************)
EXTENDS Integers, Sequences

CONSTANTS Entries, Capacity, Default

VARIABLES queue, out

Init == queue = <<>> /\ out = <<>>

Put(s) ==
  /\ Len(queue) + Len(s) <= Capacity
  /\ queue' = queue \o s /\ out' = <<>>

Get(n) ==
  /\ n <= Len(queue)
  /\ out' = SubSeq(queue, 1, n)
  /\ queue' = SubSeq(queue, n + 1, Len(queue))

GetNothing == queue = <<>> /\ out' = <<Default>> /\ UNCHANGED queue

Look(k) ==
  /\ k < Len(queue)
  /\ out' = <<queue[k + 1]>> /\ UNCHANGED queue

Clear == queue' = <<>> /\ out' = <<>>

Refuse == out' = <<>> /\ UNCHANGED queue

Next ==
  \/ \E n \in 0 .. Capacity : \E s \in [1 .. n -> Entries] : Put(s)
  \/ \E n \in 0 .. Capacity : Get(n)
  \/ GetNothing
  \/ \E k \in 0 .. Capacity - 1 : Look(k)
  \/ Clear \/ Refuse

Spec == Init /\ [][Next]_<<queue, out>>
==============================================================================
