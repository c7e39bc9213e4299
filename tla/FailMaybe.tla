------------------------------ MODULE FailMaybe ------------------------------
(***************************************************************************)
(* Trapped syscalls of one thread (handle_sigsys and                       *)
(* ActiveSession::fail_maybe, src/src/session.cc): the plan's entry        *)
(* decides by random draws whether the call is delayed, before or after,   *)
(* and whether it fails, instead of or after being executed.               *)
(*                                                                         *)
(* Delays are slept in libc, so while the thread is dispatched the sleep   *)
(* itself traps and goes through the handler again: calls nest.            *)
(***************************************************************************)
EXTENDS Plan

CONSTANTS
    SYS_exit, SYS_nanosleep, SYS_rt_sigprocmask, SYS_rt_sigreturn, EINTR, \* numbers
    SigsysSets, \* where in memory there is a signal set with SIGSYS
    Ok,         \* what the kernel answers
    MaxDepth    \* bound: nested traps

ASSUME FailMaybeAssumption ==
    /\ SYS_exit \in Nat /\ SYS_nanosleep \in Nat
    /\ SYS_rt_sigprocmask \in Nat \ {0, SYS_exit, SYS_nanosleep}
    /\ SYS_rt_sigreturn \in Nat \ {SYS_exit, SYS_nanosleep, SYS_rt_sigprocmask}
    /\ SigsysSets \subseteq Int
    /\ EINTR \in Nat \ {0}
    /\ Ok \in Nat
    /\ MaxDepth \in Nat \ {0}

VARIABLES
    status,    \* of the session: off, on, stopped, or how sysfail_start failed
    plan,      \* ActiveSession::plan, by syscall
    self_text, \* ActiveSession::self_text
    maps,      \* the process's memory map
    injected,  \* tids whose syscalls the kernel dispatches
    caller,    \* the thread that makes the call
    stack,     \* its trapped calls, the innermost last
    executed,  \* calls of the application the kernel has executed
    slept,     \* time slept for delays
    aborted    \* a predicate ended the process

trap == <<stack, executed, slept, aborted>>

\* Where the code of a file makes a syscall: the last address of its text.
Address(file) == (CHOOSE m \in maps : m.x /\ m.file = file).end - 1

\* Syscall user dispatch: a call of thread t from this address traps.
Traps(t, addr) == t \in injected /\ ~InRange(self_text, addr)

\* The context of a call that trapped, with the locals of fail_maybe; drawn: the
\* draw asked for a failure.
Frame(c, addr) ==
    [regs |-> Registers(c, addr), pc |-> "sigsys", delay |-> 0, delay_after |-> 0,
     fail_with |-> NoError, drawn |-> FALSE]

Depth == Len(stack)
Top == stack[Depth]
At(pc) == ~aborted /\ stack # <<>> /\ Top.pc = pc
Become(f) == stack' = [stack EXCEPT ![Depth] = f]
Outcome == plan[Top.regs.RAX]

\* Mutant of Negated: the error is returned as it is.
Unnegated(e) == e

\* The kernel's way to present an error in %rax.
Negated(e) == -e
-----------------------------------------------------------------------------
SIG_BLOCK == 0
SIG_SETMASK == 2

\* rt_sigprocmask(how, set) turns SIGSYS off.
BlocksSigsys(how, set) == set \in SigsysSets /\ how \in {SIG_BLOCK, SIG_SETMASK}

\* handle_sigsys executes, disarmed, the mask changes that turn SIGSYS off; others
\* it neither executes nor answers: the number stays in %rax.
Dropped ==
    /\ status = "on" /\ Top.regs.RAX = SYS_rt_sigprocmask
    /\ ~BlocksSigsys(Top.regs.RDI, Top.regs.RSI)

\* Calls the plan is not asked about.
Exempt == {SYS_rt_sigprocmask, SYS_rt_sigreturn, SYS_exit}

\* There is a session, the call is not exempt, and the plan has an outcome for it.
Planned == status = "on" /\ Top.regs.RAX \notin Exempt /\ Top.regs.RAX \in DOMAIN plan

\* handle_sigsys executes or drops the call itself, or calls fail_maybe, which
\* looks for an eligible outcome.  Disarming and SIG_REARM are Dispatch's matter.
handle_sigsys ==
    /\ At("sigsys")
    /\ \/ /\ Planned /\ Aborts(Outcome.check)
          /\ aborted' = TRUE
          /\ UNCHANGED stack
       \/ /\ Planned /\ ~Aborts(Outcome.check) /\ eligible(Outcome.check, Top.regs)
          /\ Become([Top EXCEPT !.pc = "delay"])
          /\ UNCHANGED aborted
       \/ /\ ~Dropped
          /\ Planned => ~Aborts(Outcome.check) /\ ~eligible(Outcome.check, Top.regs)
          /\ Become([Top EXCEPT !.pc = "only"])
          /\ UNCHANGED aborted
       \/ /\ Dropped
          /\ Become([Top EXCEPT !.pc = "done"])
          /\ UNCHANGED aborted
    /\ UNCHANGED <<executed, slept>>

Delay ==
    /\ At("delay")
    /\ \/ /\ \E k \in Draw : ~(k < Outcome.delay.p)
          /\ Become([Top EXCEPT !.pc = "fail"])
       \/ \E k \in Draw, k_after \in Draw, d \in Delays(Outcome) :
            /\ k < Outcome.delay.p
            /\ \/ /\ After(Outcome.delay, k_after)
                  /\ Become([Top EXCEPT !.pc = "fail", !.delay_after = d])
               \/ /\ ~After(Outcome.delay, k_after)
                  /\ Become([Top EXCEPT !.pc = "sleep", !.delay = d])
    /\ UNCHANGED <<executed, slept, aborted>>

Fail ==
    /\ At("fail")
    /\ \/ /\ \E k \in Draw : ~(k < Outcome.fail.p)
          /\ Become([Top EXCEPT !.pc = "call"])
       \/ \E k \in Draw, k_err \in Draw, k_after \in Draw :
            LET drawn == [Top EXCEPT !.drawn = TRUE] IN
            \E e \in ErrorsAt(Outcome, k_err) :
            /\ k < Outcome.fail.p
            /\ \/ /\ After(Outcome.fail, k_after)
                  /\ Become([drawn EXCEPT !.pc = "call", !.fail_with = e])
               \/ /\ ~After(Outcome.fail, k_after) /\ ~AtEnd(Outcome, k_err)
                  /\ Become([drawn EXCEPT !.pc = "done", !.regs.RAX = Negated(e)])
               \/ /\ ~After(Outcome.fail, k_after) /\ AtEnd(Outcome, k_err)
                  /\ Become([drawn EXCEPT !.pc = "call"])
    /\ UNCHANGED <<executed, slept, aborted>>

\* The kernel executes a call: the application's, or a sleep of fail_maybe's.
\* An exit or an rt_sigreturn does not return; nobody reads what is answered to
\* it here.
Execute(c) ==
    /\ executed' = IF Depth = 1 THEN Append(executed, c) ELSE executed
    /\ slept' = IF Depth = 1 THEN slept ELSE slept + c[2]

\* From libsysfail's own text, which is exempt: if it trapped, the handler
\* would call itself for ever and the call never be executed.
continue_syscall ==
    /\ \/ At("only") /\ Become([Top EXCEPT !.pc = "done", !.regs.RAX = Ok])
       \/ At("call") /\ Become([Top EXCEPT !.pc = "sleep_after", !.regs.RAX = Ok])
    /\ ~Traps(caller, Address("libsysfail"))
    /\ Execute(Continued(Top.regs))
    /\ UNCHANGED aborted

\* fail_with is presented in place of the syscall's result.
Finish ==
    /\ At("finish")
    /\ Become([Top EXCEPT !.pc = "done",
                          !.regs.RAX = IF Top.fail_with # NoError THEN Negated(Top.fail_with) ELSE @])
    /\ UNCHANGED <<executed, slept, aborted>>
-----------------------------------------------------------------------------
(* Sleeping.  sleep_for returns at once unless the duration is positive.    *)

Sleeping(f) == f.pc \in {"sleep", "sleep_after"}
Duration(f) == IF f.pc = "sleep" THEN f.delay ELSE f.delay_after
Awake(f) == [f EXCEPT !.pc = IF f.pc = "sleep" THEN "fail" ELSE "finish"]

\* Mutant of Interrupted: sleep_for gives up.
NeverResumed(rax) == FALSE

\* sleep_for starts again when nanosleep was interrupted.
Interrupted(rax) == rax = -EINTR

sleep ==
    /\ At("sleep") \/ At("sleep_after")
    /\ \/ /\ Duration(Top) <= 0
          /\ Become(Awake(Top))
          /\ UNCHANGED slept
       \/ /\ Duration(Top) > 0 /\ Traps(caller, Address("libc"))
          /\ Depth < MaxDepth
          /\ stack' = Append(stack, Frame(<<SYS_nanosleep, Duration(Top), 0, 0, 0, 0, 0>>, Address("libc")))
          /\ UNCHANGED slept
       \/ /\ Duration(Top) > 0 /\ ~Traps(caller, Address("libc"))
          /\ slept' = slept + Duration(Top)
          /\ Become(Awake(Top))
    /\ UNCHANGED <<executed, aborted>>

\* sysfail_restore returns to libc's nanosleep.
Wake ==
    /\ At("done") /\ Depth > 1
    /\ LET f == stack[Depth - 1] IN
       stack' = Append(SubSeq(stack, 1, Depth - 2),
                       IF Interrupted(Top.regs.RAX) THEN f ELSE Awake(f))
    /\ UNCHANGED <<executed, slept, aborted>>

TrapStep ==
    \/ handle_sigsys \/ Delay \/ Fail \/ continue_syscall \/ Finish \/ sleep \/ Wake
=============================================================================
