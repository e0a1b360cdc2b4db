---------------------------- MODULE CallbackQueue ----------------------------
(***************************************************************************)
(* What SingleThreadedSchedulerClient promises its callers (scheduler.h):  *)
(* callbacks are executed one at a time, in the order in which they were   *)
(* added, as if by a single thread.                                        *)
(***************************************************************************)
EXTENDS Sequences

CONSTANT Callback

VARIABLES todo,    \* callbacks added and not begun
          current  \* callbacks that are being executed

vars == <<todo, current>>

Init == todo = <<>> /\ current = {}

Add ==
    /\ \E x \in Callback : todo' = Append(todo, x)
    /\ UNCHANGED current

Start ==
    /\ current = {}
    /\ todo # <<>>
    /\ current' = {Head(todo)}
    /\ todo' = Tail(todo)

Finish ==
    /\ current # {}
    /\ current' = {}
    /\ UNCHANGED todo

Next == Add \/ Start \/ Finish

Spec == Init /\ [][Next]_vars

=============================================================================
