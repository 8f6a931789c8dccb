----------------------------- MODULE HandlerQueue -----------------------------
(***************************************************************************)
(* What api_strand_ promises to those who dispatch to it, without threads, *)
(* frames or an io_context: handlers are run one at a time, in the order   *)
(* in which they were dispatched, each that is dispatched exactly once,    *)
(* until the process is stopped or crashes.  ApiStrand implements it.      *)
(***************************************************************************)
EXTENDS Sequences

CONSTANTS
  Handlers,
  Nobody    \* no handler

VARIABLES
  pending,  \* handlers dispatched and not begun, in order
  active,   \* the handler that is running
  ended     \* the process was stopped, or crashed

vars == <<pending, active, ended>>

Init == pending = <<>> /\ active = Nobody /\ ended = FALSE

Submit(h) ==
  /\ pending' = Append(pending, h)
  /\ UNCHANGED <<active, ended>>

Begin ==
  /\ active = Nobody /\ pending # <<>>
  /\ active' = Head(pending)
  /\ pending' = Tail(pending)
  /\ UNCHANGED ended

Finish ==
  /\ active # Nobody
  /\ active' = Nobody
  /\ UNCHANGED <<pending, ended>>

\* A crash interrupts the handler that runs; a signal lets it finish.
End ==
  /\ ~ended /\ ended' = TRUE
  /\ UNCHANGED <<pending, active>>

Next ==
  \/ \E h \in Handlers : Submit(h)
  \/ Begin
  \/ Finish
  \/ End

\* As long as the process runs, what was dispatched is run and comes to its end.
Fairness == WF_vars(~ended /\ Begin) /\ WF_vars(~ended /\ Finish)

Safe == Init /\ [][Next]_vars

Spec == Safe /\ Fairness
=============================================================================
