----------------------------- MODULE MCDispatch -----------------------------
(* Instances of Dispatch for TLC.                                          *)
EXTENDS Dispatch

CONSTANTS usr1, usr2, WithPlain

All == {usr1, usr2, "SIGSYS", "SIG_REARM"}

\* What libc does around thread creation and exit.
Open == {[how |-> "SIG_BLOCK", set |-> All], [how |-> "SIG_SETMASK", set |-> All]}
Window == Open \cup {[how |-> "SIG_SETMASK", set |-> {}]}

\* A change of the application's own signals only.
Plain == {[how |-> "SIG_BLOCK", set |-> {usr1}], [how |-> "SIG_UNBLOCK", set |-> {usr1}]}

MCRequests == Window \cup (IF WithPlain THEN Plain ELSE {})
MCHandlerMasks == {{}, {usr1}, All}
MCLateMasks == {{usr2}, {"SIG_REARM"}}
\* A handler turns the signals off until it returns.
MCHandlerRequests == Open

\* The instances are ones the theorems of DispatchProofs speak of.
ASSUME MCAssumption == Coupled /\ (~WithPlain => LibcWindows)
=============================================================================
