------------------------------ MODULE Dispatch ------------------------------
(***************************************************************************)
(* The SIGSYS handler and the signal mask of one injected thread           *)
(* (handle_sigsys, src/src/session.cc).  While SIGSYS is blocked a trap    *)
(* kills the process, so the handler disarms the thread before it executes *)
(* an rt_sigprocmask that blocks SIGSYS, and queues SIG_REARM, which stays *)
(* pending until the thread takes signals again.                           *)
(*                                                                         *)
(* The application's own handlers may interrupt the thread anywhere, also  *)
(* inside handle_sigsys, and return with rt_sigreturn.  sysfail's handlers *)
(* are left with sysfail_restore, which resumes the interrupted code and   *)
(* does not touch the mask.                                                *)
(***************************************************************************)
EXTENDS Naturals, Sequences

CONSTANTS
    App,             \* signals the application handles
    HandlerMasks,    \* sa_mask of its handlers when the session starts
    LateMasks,       \* sa_mask of handlers it installs during the session
    Requests,        \* [how, set] of the rt_sigprocmask calls of its main code
    HandlerRequests, \* and of its handlers
    MaxChanges,      \* bound: mask changes
    MaxDepth         \* bound: nested contexts

Signals == App \cup {"SIGSYS", "SIG_REARM"}
Request == [how : {"SIG_BLOCK", "SIG_UNBLOCK", "SIG_SETMASK"}, set : SUBSET Signals]

ASSUME DispatchAssumption ==
    /\ App \cap {"SIGSYS", "SIG_REARM"} = {}
    /\ HandlerMasks \subseteq SUBSET Signals
    /\ LateMasks \subseteq SUBSET Signals
    /\ Requests \cup HandlerRequests \subseteq Request
    /\ MaxChanges \in Nat
    /\ MaxDepth \in Nat \ {0}

VARIABLES
    on,      \* the thread's selector is BLOCK: its syscalls trap
    mask,    \* the signals the kernel blocks for the thread
    pending, \* signals queued for the thread
    sa_mask, \* what the application's handlers block while they run
    stack,   \* the main code and the application's handlers above it
    asked,   \* the mask the thread would have without sysfail
    changes  \* mask changes made so far

vars == <<on, mask, pending, sa_mask, stack, asked, changes>>

NoRequest == [how |-> "none", set |-> {}]

\* pc and req: how far handle_sigsys is with a trapped rt_sigprocmask; mask and
\* asked: what returning from the context restores.
Context(m, w) == [pc |-> "user", req |-> NoRequest, mask |-> m, asked |-> w]

ContextType ==
    [pc : {"user", "sigsys", "continue", "rearm"}, req : Request \cup {NoRequest},
     mask : SUBSET Signals, asked : SUBSET Signals]

TypeOK ==
    /\ on \in BOOLEAN
    /\ mask \in SUBSET Signals
    /\ pending \in SUBSET (App \cup {"SIG_REARM"})
    /\ sa_mask \in SUBSET Signals
    /\ stack \in Seq(ContextType) /\ Len(stack) \in 1 .. MaxDepth
    /\ asked \in SUBSET Signals
    /\ changes \in 0 .. MaxChanges

Depth == Len(stack)
Top == stack[Depth]
At(pc) == Top.pc = pc
Goto(pc) == stack' = [stack EXCEPT ![Depth].pc = pc]

\* The kernel's rt_sigprocmask.
Changed(m, r) ==
    CASE r.how = "SIG_BLOCK" -> m \cup r.set
      [] r.how = "SIG_UNBLOCK" -> m \ r.set
      [] r.how = "SIG_SETMASK" -> r.set

\* A trap would find SIGSYS blocked: the kernel kills the process.
Killed == on /\ "SIGSYS" \in mask

\* The thread executes: the kernel delivers a SIG_REARM the thread sent itself
\* before it returns to its code.
Runs == ~Killed /\ "SIG_REARM" \notin pending \ mask

\* Mutants of disarm, RearmSig and Restored.
disarm_lost == UNCHANGED on
SentSig == "SIGSYS"
RestoredNot == mask

\* The request turns SIGSYS off.
Blocking(r) == "SIGSYS" \in r.set /\ r.how \in {"SIG_BLOCK", "SIG_SETMASK"}

\* The selector is set to ALLOW.
disarm == on' = FALSE

\* What handle_sigsys sends to its own thread.
RearmSig == "SIG_REARM"

\* The mask of the context that was interrupted.
Restored == Top.mask

\* The mask of a handler that is installed when the session starts.
unmask_sigsys(m) == m \ {"SIGSYS"}

Init ==
    /\ on = TRUE
    /\ mask = {}
    /\ pending = {}
    /\ sa_mask \in {unmask_sigsys(m) : m \in HandlerMasks}
    /\ stack = <<Context({}, {})>>
    /\ asked = {}
    /\ changes = 0
-----------------------------------------------------------------------------
(* The thread's own code.                                                   *)

\* A call of rt_sigprocmask traps if the thread is armed.
rt_sigprocmask(r) ==
    /\ At("user") /\ Runs
    /\ r \in IF Depth = 1 THEN Requests ELSE HandlerRequests
    /\ changes < MaxChanges
    /\ changes' = changes + 1
    /\ \/ /\ on
          /\ stack' = [stack EXCEPT ![Depth] =
                         [pc |-> "sigsys", req |-> r, mask |-> @.mask, asked |-> @.asked]]
          /\ UNCHANGED <<mask, asked>>
       \/ /\ ~on
          /\ mask' = Changed(mask, r)
          /\ asked' = Changed(asked, r)
          /\ UNCHANGED stack
    /\ UNCHANGED <<on, pending, sa_mask>>

\* A handler installed during the session keeps its mask: unmask_sigsys runs
\* only when the session starts.
rt_sigaction(m) ==
    /\ At("user") /\ Runs
    /\ sa_mask' = m
    /\ UNCHANGED <<on, mask, pending, stack, asked, changes>>

\* The end of an application handler.  If it traps, handle_sigsys executes it
\* on the stack of the trapped code and never continues.
rt_sigreturn ==
    /\ At("user") /\ Depth > 1 /\ Runs
    /\ mask' = Restored
    /\ asked' = Top.asked
    /\ stack' = SubSeq(stack, 1, Depth - 1)
    /\ UNCHANGED <<on, pending, sa_mask, changes>>
-----------------------------------------------------------------------------
(* handle_sigsys, the branch of rt_sigprocmask.                             *)

\* The thread is disarmed if SIGSYS is to be blocked; otherwise nothing is
\* done and the trapped code resumes.
handle_sigsys ==
    /\ At("sigsys") /\ Runs
    /\ \/ /\ Blocking(Top.req)
          /\ disarm
          /\ Goto("continue")
          /\ UNCHANGED asked
       \/ /\ ~Blocking(Top.req)
          /\ asked' = Changed(asked, Top.req)
          /\ Goto("user")
          /\ UNCHANGED on
    /\ UNCHANGED <<mask, pending, sa_mask, changes>>

continue_syscall ==
    /\ At("continue") /\ Runs
    /\ mask' = Changed(mask, Top.req)
    /\ asked' = Changed(asked, Top.req)
    /\ Goto("rearm")
    /\ UNCHANGED <<on, pending, sa_mask, changes>>

send_rearm ==
    /\ At("rearm") /\ Runs
    /\ pending' = pending \cup {RearmSig}
    /\ Goto("user")
    /\ UNCHANGED <<on, mask, sa_mask, asked, changes>>
-----------------------------------------------------------------------------
(* Signals.                                                                 *)

Raise(s) ==
    /\ s \notin pending
    /\ pending' = pending \cup {s}
    /\ UNCHANGED <<on, mask, sa_mask, stack, asked, changes>>

\* An application handler starts: the mask is saved and widened.
Deliver(s) ==
    /\ s \in pending \ mask /\ Depth < MaxDepth
    /\ pending' = pending \ {s}
    /\ stack' = Append(stack, Context(mask, asked))
    /\ mask' = mask \cup sa_mask \cup {s}
    /\ asked' = asked \cup sa_mask \cup {s}
    /\ UNCHANGED <<on, sa_mask, changes>>

reenable_sysfail ==
    /\ "SIG_REARM" \in pending \ mask
    /\ pending' = pending \ {"SIG_REARM"}
    /\ on' = TRUE
    /\ UNCHANGED <<mask, sa_mask, stack, asked, changes>>

Next ==
    \/ \E r \in Requests \cup HandlerRequests : rt_sigprocmask(r)
    \/ \E m \in LateMasks : rt_sigaction(m)
    \/ rt_sigreturn
    \/ handle_sigsys \/ continue_syscall \/ send_rearm
    \/ \E s \in App : Raise(s) \/ Deliver(s)
    \/ reenable_sysfail

Spec == Init /\ [][Next]_vars
-----------------------------------------------------------------------------
(* What the application keeps to.                                           *)

Blocked(r, s) == s \in r.set /\ r.how \in {"SIG_BLOCK", "SIG_SETMASK"}
Unblocked(r, s) ==
    \/ r.how = "SIG_UNBLOCK" /\ s \in r.set
    \/ r.how = "SIG_SETMASK" /\ s \notin r.set

\* The two signals are blocked and unblocked together: who blocks SIGSYS blocks
\* SIG_REARM, who unblocks SIG_REARM unblocks SIGSYS.  A handler leaves SIG_REARM
\* alone once it is blocked, and no handler is installed during the session with
\* SIGSYS in its mask.
Coupled ==
    /\ \A r \in Requests \cup HandlerRequests :
         /\ Blocked(r, "SIGSYS") => Blocked(r, "SIG_REARM")
         /\ Unblocked(r, "SIG_REARM") => Unblocked(r, "SIGSYS")
    /\ \A r \in HandlerRequests : ~Unblocked(r, "SIG_REARM")
    /\ \A m \in LateMasks : "SIGSYS" \notin m

\* Masks are changed as libc does around thread creation and exit only: a call
\* blocks SIGSYS, or ends the window by restoring the empty mask.
LibcWindows ==
    /\ \A r \in Requests : Blocked(r, "SIGSYS") \/ r = [how |-> "SIG_SETMASK", set |-> {}]
    /\ \A r \in HandlerRequests : Blocked(r, "SIGSYS")
-----------------------------------------------------------------------------
\* Whenever a syscall can trap, SIGSYS can be delivered: neither libc's windows
\* nor the application's handlers leave the thread armed with SIGSYS blocked
\* (handle_sigsys, reenable_sysfail, unmask_sigsys).
ArmedUnblocked == on => "SIGSYS" \notin mask

\* A disarmed thread is not forgotten: SIG_REARM is pending, or some context of
\* the thread is on its way to queue it.
RearmOnTheWay ==
    ~on => \/ "SIG_REARM" \in pending
           \/ \E i \in 1 .. Depth : stack[i].pc \in {"continue", "rearm"}

\* Apart from SIGSYS itself, the thread's own code runs with the mask it would
\* have without sysfail: rt_sigprocmask is never failed or dropped.
MaskAsAsked == mask \ {"SIGSYS"} = asked \ {"SIGSYS"}
=============================================================================
