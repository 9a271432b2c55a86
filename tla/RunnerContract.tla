--------------------------- MODULE RunnerContract ---------------------------
(* What a runner promises to the code that waits for it: everything its     *)
(* worker puts on a stream is received in the order it was put, and the     *)
(* join returns a status only when nothing is left to receive.              *)
EXTENDS Naturals, Sequences

CONSTANTS Streams,   \* the FIFO streams from the worker to the parent
          Record     \* what travels on them

VARIABLES log,       \* per stream, everything the worker has put
          received,  \* per stream, what the parent has taken over
          status     \* what the join returned, "none" before that

vars == <<log, received, status>>

Final == {"ok", "error"}

Init == /\ log = [s \in Streams |-> <<>>]
        /\ received = [s \in Streams |-> <<>>]
        /\ status = "none"

Put(s) == /\ status = "none"
          /\ \E r \in Record : log' = [log EXCEPT ![s] = Append(@, r)]
          /\ UNCHANGED <<received, status>>

Receive(s) == /\ status = "none"
              /\ Len(received[s]) < Len(log[s])
              /\ received' = [received EXCEPT ![s] = Append(@, log[s][Len(@) + 1])]
              /\ UNCHANGED <<log, status>>

Release == /\ status = "none"
           /\ received = log
           /\ status' \in Final
           /\ UNCHANGED <<log, received>>

Next == Release \/ \E s \in Streams : Put(s) \/ Receive(s)

Spec == Init /\ [][Next]_vars
=============================================================================
