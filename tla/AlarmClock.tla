----------------------------- MODULE AlarmClock -----------------------------
(***************************************************************************)
(* What the timer wheel promises: a timer set for d ticks from now fires   *)
(* when the clock leaves tick now + d, neither earlier nor later, unless   *)
(* it is cancelled first.  Time is counted modulo Wrap.                    *)
(***************************************************************************)
EXTENDS Integers

CONSTANTS Ids, MaxTicks, Wrap

VARIABLES now, due \* due[id]: the tick at which id fires, or NotSet

NotSet == -1

Init == now = 0 /\ due = [id \in Ids |-> NotSet]

Set(id, d) == /\ due[id] = NotSet
              /\ due' = [due EXCEPT ![id] = (now + d) % Wrap]
              /\ UNCHANGED now

Cancel(id) == due' = [due EXCEPT ![id] = NotSet] /\ UNCHANGED now

Tick == /\ due' = [id \in Ids |-> IF due[id] = now THEN NotSet ELSE due[id]]
        /\ now' = (now + 1) % Wrap

Next == \/ Tick
        \/ \E id \in Ids : Cancel(id) \/ \E d \in 0 .. MaxTicks : Set(id, d)

Spec == Init /\ [][Next]_<<now, due>>
=============================================================================
