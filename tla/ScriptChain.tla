---------------------------- MODULE ScriptChain ----------------------------
(***************************************************************************)
(* What the engine promises a script: its functions run one at a time, the *)
(* first of a session is BEGIN, and every other one was named by the one   *)
(* before it and runs once.  This is the rule UpdateSession is written by. *)
(***************************************************************************)
CONSTANTS Sessions, Funcs, First, None,
          Follows  \* Follows[f]: the functions f may name

VARIABLES running, \* the function a session is in, or None
          waiting  \* the function named for its next timeout, or None

Init == /\ running = [s \in Sessions |-> None]
        /\ waiting = [s \in Sessions |-> None]

Idle == \A s \in Sessions : running[s] = None

Begin(s) == /\ Idle
            /\ running' = [running EXCEPT ![s] = First]
            /\ waiting' = [waiting EXCEPT ![s] = None]

Run(s) == /\ Idle /\ waiting[s] # None
          /\ running' = [running EXCEPT ![s] = waiting[s]]
          /\ waiting' = [waiting EXCEPT ![s] = None]

\* A function returns; it may have named the next one, or have ended the session.
Return(s) == /\ running[s] # None
             /\ running' = [running EXCEPT ![s] = None]
             /\ \E f \in Follows[running[s]] \cup {None} :
                  waiting' = [waiting EXCEPT ![s] = f]

\* A session that waits is deleted.
Drop(s) == waiting' = [waiting EXCEPT ![s] = None] /\ UNCHANGED running

Next == \E s \in Sessions : Begin(s) \/ Run(s) \/ Return(s) \/ Drop(s)

Spec == Init /\ [][Next]_<<running, waiting>>
=============================================================================
