----------------------------- MODULE WorkQueue ------------------------------
(***************************************************************************)
(* What the executer promises to the threads that commit entries: an       *)
(* operation handed over is executed once, in the order of the log.        *)
(***************************************************************************)
EXTENDS Sequences

CONSTANT Job

VARIABLES pending, done   \* handed over and not executed; executed

HandOver == \E job \in Job : pending' = Append(pending, job) /\ UNCHANGED done

Execute ==
    /\ pending # <<>>
    /\ done' = Append(done, Head(pending))
    /\ pending' = Tail(pending)

Init == pending = <<>> /\ done = <<>>
Next == HandOver \/ Execute
Spec == Init /\ [][Next]_<<pending, done>>
=============================================================================
