------------------------------- MODULE Deque --------------------------------
(***************************************************************************)
(* What BoundedQueue promises: messages are taken from the head in the     *)
(* order in which they stand there; they are put at the tail or, to        *)
(* overtake the others, at the head; at most Capacity of them wait.        *)
(***************************************************************************)
EXTENDS Integers, Sequences

CONSTANTS Messages, Capacity

VARIABLE contents

Init == contents = <<>>

PutTail(m) == Len(contents) < Capacity /\ contents' = Append(contents, m)
PutHead(m) == Len(contents) < Capacity /\ contents' = <<m>> \o contents
Take       == contents # <<>> /\ contents' = Tail(contents)

Next == Take \/ \E m \in Messages : PutTail(m) \/ PutHead(m)

Spec == Init /\ [][Next]_contents
=============================================================================
