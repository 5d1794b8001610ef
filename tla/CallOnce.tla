------------------------------ MODULE CallOnce ------------------------------
(***************************************************************************)
(* What a program may rely on when it calls the server through the client  *)
(* library, whatever happens to the connection: calls are made one at a    *)
(* time; each is carried out at most once, and never after a call that was *)
(* made after it; a call returns either what it was answered when it was   *)
(* carried out or a failure, and every call returns.  A call that failed   *)
(* may have been carried out, or still be carried out later.               *)
(***************************************************************************)
EXTENDS Naturals, Sequences

CONSTANTS
    Calls,     \* bound: the number of calls
    Replies,   \* what a call may be answered
    Failure,   \* what a call returns that got no answer
    None

VARIABLES
    carried,   \* for each call made, its answer once it is carried out, or None
    outcome    \* and what it returned, or None

vars == <<carried, outcome>>

Init == carried = <<>> /\ outcome = <<>>

issued == Len(outcome)

Issue ==
    /\ issued < Calls
    /\ \A x \in 1 .. issued : outcome[x] # None
    /\ carried' = Append(carried, None)
    /\ outcome' = Append(outcome, None)

CarryOut(x) ==
    /\ \A y \in x .. issued : carried[y] = None
    /\ carried' = [carried EXCEPT ![x] = carried'[x]]
    /\ carried'[x] \in Replies
    /\ UNCHANGED outcome

Finish(x) ==
    /\ outcome[x] = None
    /\ \E r \in {carried[x], Failure} \ {None} :
          outcome' = [outcome EXCEPT ![x] = r]
    /\ UNCHANGED carried

Next ==
    \/ Issue
    \/ \E x \in 1 .. issued : CarryOut(x) \/ Finish(x)

\* Every call returns.
Fairness == WF_vars(\E x \in 1 .. issued : Finish(x))

\* The part that says what may never happen.
Safety == Init /\ [][Next]_vars

Spec == Safety /\ Fairness
=============================================================================
