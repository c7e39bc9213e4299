------------------------------ MODULE CSession ------------------------------
(***************************************************************************)
(* A session started through the C API (src/src/cwrapper.cc), from the     *)
(* plan the application wrote to the answer one of its syscalls gets:      *)
(* sysfail_start converts the plan, the functions of sysfail_session_t add *)
(* and remove threads, and a thread makes a call, which traps into         *)
(* FailMaybe if the thread is injected.  Threads may be added, removed and *)
(* the session stopped while the call is in the handler.                   *)
(*                                                                         *)
(* How a thread becomes injected is ThdControl's matter; here it is the    *)
(* one step that module's abstract specification, Injection, promises.     *)
(***************************************************************************)
EXTENDS FailMaybe

CONSTANTS
    CPlans,   \* the plans applications pass to sysfail_start
    MemMaps,  \* the memory maps of processes
    Calls,    \* the syscalls applications make
    Thd,      \* tids
    Unborn,   \* threads created after the session was started
    NoThd,    \* no thread
    MaxOps    \* bound: changes of the set of threads or of injected threads

\* The plan's thread predicate compares with a tid.
sysfail_plan_t ==
    [strategy : Nat, ctx : Thd, selector : {NULL, "is_ctx"},
     syscall_outcomes : Seq(sysfail_syscall_outcome_t)]

ASSUME CSessionAssumption ==
    /\ Unborn \subseteq Thd
    /\ NoThd \notin Thd
    /\ CPlans \subseteq sysfail_plan_t \cup {NULL}
    /\ Calls \subseteq [1 .. 7 -> Int]
    /\ MaxOps \in Nat

VARIABLES
    c_plan,   \* the plan passed to sysfail_start
    threads,  \* threads that exist
    known,    \* threads that were presented to the selector
    app_call, \* the call the application made, <<>> before
    answer,   \* what the application got, NoAnswer before
    ops       \* changes made so far

api == <<c_plan, status, plan, self_text, maps>>
members == <<threads, known, injected, ops>>
client == <<caller, app_call, answer>>
vars == <<api, members, client, trap>>

NoAnswer == 0

TypeOK ==
    /\ status \in {"off", "on", "stopped", "null", "threw", "asserted"}
    /\ threads \in SUBSET Thd /\ known \in SUBSET Thd /\ injected \in SUBSET Thd
    /\ caller \in Thd \cup {NoThd}
    /\ app_call \in Calls \cup {<<>>}
    /\ answer \in Int
    /\ aborted \in BOOLEAN
    /\ slept \in Nat
    /\ executed \in {<<>>} \cup {<<c>> : c \in Calls}
    /\ Depth <= MaxDepth
    /\ \A i \in 1 .. Depth :
        /\ stack[i].pc \in {"sigsys", "only", "delay", "sleep", "fail", "call", "sleep_after", "finish", "done"}
        /\ stack[i].delay \in -IntMax - 1 .. IntMax
        /\ stack[i].delay_after \in -IntMax - 1 .. IntMax

Init ==
    /\ c_plan \in CPlans /\ maps \in MemMaps
    /\ status = "off"
    /\ plan = <<>>
    /\ self_text = [start |-> 0, length |-> 0]
    /\ threads = Thd \ Unborn
    /\ known = {} /\ injected = {} /\ ops = 0
    /\ caller = NoThd /\ app_call = <<>> /\ answer = NoAnswer
    /\ stack = <<>> /\ executed = <<>> /\ slept = 0 /\ aborted = FALSE
-----------------------------------------------------------------------------
(* sysfail_start and the functions of sysfail_session_t.                    *)

\* Threads are presented to the selector.
Present(ts) ==
    /\ known' = known \cup ts
    /\ injected' = injected \cup {t \in ts : selector(c_plan, t)}

sysfail_start ==
    /\ status = "off"
    /\ \/ /\ c_plan = NULL
          /\ status' = "null"
          /\ UNCHANGED <<plan, self_text, known, injected>>
       \/ /\ c_plan # NULL /\ Throws(c_plan)
          /\ status' = "threw"
          /\ UNCHANGED <<plan, self_text, known, injected>>
       \/ /\ c_plan # NULL /\ ~Throws(c_plan) /\ Cardinality(SelfTexts(maps)) # 1
          /\ status' = "asserted"
          /\ UNCHANGED <<plan, self_text, known, injected>>
       \/ /\ c_plan # NULL /\ ~Throws(c_plan) /\ Cardinality(SelfTexts(maps)) = 1
          /\ status' = "on"
          /\ plan' = ActivePlan(c_plan)
          /\ self_text' = CHOOSE r \in SelfTexts(maps) : TRUE
          /\ Present(threads)
    /\ UNCHANGED <<c_plan, maps, threads, ops, client, trap>>

\* A function of the session is called, or a thread is created.
Op == status = "on" /\ ~aborted /\ ops < MaxOps /\ ops' = ops + 1

stop ==
    /\ Op
    /\ status' = "stopped"
    /\ injected' = {}
    /\ UNCHANGED <<c_plan, plan, self_text, maps, threads, known, client, trap>>

\* add_thread and, for the calling thread, add_this_thread.
add_thread(t) ==
    /\ Op
    /\ t \in threads
    /\ injected' = injected \cup {u \in {t} : selector(c_plan, u)}
    /\ UNCHANGED <<api, threads, known, client, trap>>

remove_thread(t) ==
    /\ Op
    /\ injected' = injected \ {t}
    /\ UNCHANGED <<api, threads, known, client, trap>>

discover_threads ==
    /\ Op
    /\ Present(threads \ known)
    /\ UNCHANGED <<api, threads, client, trap>>

\* The poller finds a new thread.
poll ==
    /\ status = "on" /\ ~aborted
    /\ tdisc_strategy(c_plan) = "ProcPoll" /\ threads \ known # {}
    /\ Present(threads \ known)
    /\ UNCHANGED <<api, threads, ops, client, trap>>
-----------------------------------------------------------------------------
(* The application.                                                         *)

Spawn(t) ==
    /\ Op
    /\ t \in Thd \ threads
    /\ threads' = threads \cup {t}
    /\ UNCHANGED <<api, known, injected, client, trap>>

Call(t, c) ==
    /\ status \notin {"off", "asserted"} /\ caller = NoThd /\ t \in threads
    /\ caller' = t
    /\ app_call' = c
    /\ \/ /\ Traps(t, Address("app"))
          /\ stack' = <<Frame(c, Address("app"))>>
          /\ UNCHANGED <<executed, answer>>
       \/ /\ ~Traps(t, Address("app"))
          /\ executed' = <<c>>
          /\ answer' = Ok
          /\ UNCHANGED stack
    /\ UNCHANGED <<api, members, slept, aborted>>

\* sysfail_restore returns to the application.
sysfail_restore ==
    /\ At("done") /\ Depth = 1
    /\ answer' = Top.regs.RAX
    /\ stack' = <<>>
    /\ UNCHANGED <<api, members, caller, app_call, executed, slept, aborted>>

Handler == TrapStep /\ UNCHANGED <<api, members, client>>

Next ==
    \/ sysfail_start \/ stop \/ discover_threads \/ poll
    \/ \E t \in Thd : add_thread(t) \/ remove_thread(t) \/ Spawn(t)
    \/ \E t \in Thd, c \in Calls : Call(t, c)
    \/ Handler \/ sysfail_restore

\* A thread in the handler is scheduled.
Spec == Init /\ [][Next]_vars /\ WF_vars(Handler \/ sysfail_restore)
-----------------------------------------------------------------------------
(* What the plan asks for, read from the plan itself.                       *)

\* The outcome the plan gives for a call: the first for its number.
Asked == FirstOf(c_plan.syscall_outcomes, "syscall", app_call[1])

\* The value the predicate of an outcome is about, if there is one.
Compared(e) ==
    LET i == IF e.via = "c" THEN e.n + 2 ELSE e.n + 1 IN
    IF i \in DOMAIN app_call THEN app_call[i] ELSE NULL

\* The plan is about this call of this thread.
Chosen ==
    /\ c_plan.selector = NULL \/ caller = c_plan.ctx
    /\ app_call[1] \notin Exempt
    /\ app_call[1] \in Values(c_plan.syscall_outcomes, "syscall")
    /\ Asked.eligible = NULL \/ Compared(Asked.eligible) = Asked.ctx

\* A mask change that leaves SIGSYS alone.
MasksOthers == app_call[1] = SYS_rt_sigprocmask /\ ~BlocksSigsys(app_call[2], app_call[3])

\* Every draw hits an error: the weights sum to at least 1.
Covered == SumFunction(error_weights(Asked.error_wts)) >= Denom

Positive(wts) == \A w \in Range(wts) : w.weight > 0

\* The application's call is about to be answered by the handler.
Finishing == Depth = 1 /\ Top.pc = "done"
Failed == Finishing /\ Top.regs.RAX # Ok

\* A call the plan is not about, by its thread, its number or its arguments,
\* presents no error and is not delayed; it is executed and answered by the
\* kernel.  exit, rt_sigreturn and rt_sigprocmask never are the plan's.  A call
\* it is about fails with an error of the plan if the plan says always, and
\* never if it says never, as long as the session is not stopped while the call
\* is in the handler (sysfail_start, invp::p, sysfail_syscall_arg, handle_sigsys,
\* fail_maybe against sysfail.h's plan and README.md's list of calls that are
\* never failed).  That a mask change which leaves SIGSYS alone is executed is not
\* claimed here: the code drops it.
OutcomeAsPlanned ==
    Finishing =>
        /\ ~Chosen => Top.regs.RAX >= 0 /\ slept = 0
        /\ ~Chosen /\ ~MasksOthers => Top.regs.RAX = Ok /\ executed = <<app_call>>
        /\ Chosen /\ Asked.fail.p = 0 => ~Failed
        /\ Chosen /\ status = "on" /\ Asked.fail.p = Denom /\ Covered /\ Positive(Asked.error_wts) =>
             Top.regs.RAX \in {-e : e \in Values(Asked.error_wts, "nerror")}

\* The kernel executes the very call the application made, with its arguments,
\* once; a call that is not executed presents an error of the plan, whatever
\* its weights; with a bias of 1 every call is executed and with a bias of 0 no
\* failing one is (handle_sigsys, fail_maybe, continue_syscall, syscall).  Of the
\* mask changes that leave SIGSYS alone only the first is claimed.
ExecutedAsCalled ==
    Finishing =>
        /\ executed \in {<<>>, <<app_call>>}
        /\ executed = <<>> /\ ~MasksOthers =>
             /\ Top.regs.RAX \in {-e : e \in Values(Asked.error_wts, "nerror")}
             /\ Top.drawn /\ Asked.fail.after_bias < Denom
        /\ executed # <<>> /\ Top.drawn /\ Covered => Asked.fail.after_bias > 0

\* Errors with positive weights that sum to 1 are presented with just these
\* probabilities: of the Denom draws, each error gets as many as its weight
\* (ActiveOutcome's table and the lower_bound in fail_maybe, against the
\* weights of sysfail_error_wt_t).
SharesMatchWeights ==
    status = "on" =>
        \A n \in DOMAIN plan :
            LET wt == error_weights(FirstOf(c_plan.syscall_outcomes, "syscall", n).error_wts) IN
            (\A e \in DOMAIN wt : wt[e] > 0) /\ SumFunction(wt) = Denom =>
                \A e \in DOMAIN wt : Cardinality({k \in Draw : ErrorsAt(plan[n], k) = {e}}) = wt[e]

\* A drawn failure always happens, before or after the syscall, and no other
\* does, when the weights sum to at least 1 (fail_maybe).
FailsWhenDrawn == Finishing /\ (Top.drawn => Covered) => (Top.drawn <=> Top.regs.RAX < 0)

\* Sleeps are not the plan's own business: it has no outcome for nanosleep, or
\* one that only interrupts it.
SleepsUndisturbed ==
    SYS_nanosleep \in DOMAIN plan =>
        /\ plan[SYS_nanosleep].delay.p = 0
        /\ plan[SYS_nanosleep].fail.after_bias = 0
        /\ Range(plan[SYS_nanosleep].errors) \subseteq {EINTR}

Positively(d) == IF d > 0 THEN d ELSE 0

\* A call that is executed is delayed by just what was drawn, before or after, and
\* no call by more than was drawn or than max_delay, also when the sleep is
\* interrupted or the thread is removed meanwhile; a delay before the call is
\* never cut short (fail_maybe, sleep).  A delay put off for a call that then
\* fails without being executed is not claimed: the code's early return loses it.
DelayedAsDrawn ==
    Finishing /\ SleepsUndisturbed =>
        LET asked == Positively(Top.delay) + Positively(Top.delay_after) IN
        /\ executed # <<>> => slept = asked
        /\ slept \in Positively(Top.delay) .. asked
        /\ slept > 0 => slept <= Asked.max_delay_usec

\* Every trapped syscall gets an answer, if no outcome of the plan is about the
\* sleeps of fail_maybe itself (handle_sigsys, continue_syscall, self_text).
Answered ==
    app_call # <<>> /\ SYS_nanosleep \notin DOMAIN plan ~> answer # NoAnswer \/ aborted
=============================================================================
