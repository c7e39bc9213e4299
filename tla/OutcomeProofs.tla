--------------------------- MODULE OutcomeProofs ---------------------------
(***************************************************************************)
(* Theorems about the outcome of a trapped call, for every plan, memory    *)
(* map, set of threads and bound: from sysfail_start to the answer.        *)
(***************************************************************************)
EXTENDS CSession, PlanProofs

-----------------------------------------------------------------------------
(* The inductive invariant.                                                 *)

IntRange == -IntMax - 1 .. IntMax
Pcs == {"sigsys", "only", "delay", "sleep", "fail", "call", "sleep_after", "finish", "done"}
Regs ==
    [RAX : Int, RDI : Int, RSI : Int, RDX : Int, R10 : Int, R8 : Int, R9 : Int,
     RCX : {Address("app"), Address("libc")}]
Frames ==
    [regs : Regs, pc : Pcs, delay : IntRange, delay_after : IntRange, fail_with : Int,
     drawn : BOOLEAN]

\* The trapped calls are frames, those still to be decided on are of the plan,
\* and only the innermost is not asleep.
Undecided == {"delay", "sleep", "fail"}
Stacked ==
    /\ c_plan \in CPlans
    /\ stack \in Seq(Frames)
    /\ \A i \in 2 .. Depth : stack[i].regs.RDI \in Nat
    /\ \A i \in 1 .. Depth : stack[i].pc \in Undecided => stack[i].regs.RAX \in DOMAIN plan
    /\ \A i \in 1 .. Depth - 1 : Sleeping(stack[i]) /\ Duration(stack[i]) > 0

\* A session that was started has its plan, threads are injected by the
\* selector while it is on, and a call trapped because its thread was.
Started ==
    /\ status \in {"on", "stopped"} => c_plan # NULL /\ plan = ActivePlan(c_plan)
    /\ status \notin {"on", "stopped"} => plan = <<>>
    /\ injected # {} => status = "on"
    /\ \A t \in injected : selector(c_plan, t)
    /\ caller = NoThd => stack = <<>> /\ executed = <<>> /\ slept = 0
    /\ stack # <<>> =>
         /\ status \in {"on", "stopped"} /\ caller # NoThd /\ selector(c_plan, caller)
         /\ app_call \in Calls

Untouched == {"sigsys", "only", "delay"}
Early == Untouched \cup {"sleep", "fail", "call"}
Late == {"sleep_after", "finish"}
Ruled == {"delay", "sleep", "fail", "call"} \cup Late

PlanErrors == Values(Asked.error_wts, "nerror")

\* What the draws of Fail left behind when the call is to be executed.
FailDrawn(f) ==
    /\ Asked.fail.p = 0 => ~f.drawn
    /\ Asked.fail.p = Denom => f.drawn
    /\ f.drawn /\ Covered => f.fail_with \in PlanErrors /\ Asked.fail.after_bias > 0

\* The four ways to the end: the call failed before it was executed, was none
\* of the plan's, was a mask change the handler dropped, or was executed and
\* then perhaps failed.
FailedBefore(f) ==
    /\ executed = <<>> /\ Chosen /\ f.drawn
    /\ f.regs.RAX \in {-e : e \in PlanErrors}
    /\ Asked.fail.after_bias < Denom /\ Asked.fail.p # 0
PassedBy(f) ==
    /\ executed = <<app_call>> /\ ~(Chosen /\ status = "on")
    /\ ~f.drawn /\ f.regs.RAX = Ok
    /\ slept = 0 /\ f.delay = 0 /\ f.delay_after = 0
LeftOut(f) ==
    /\ executed = <<>> /\ MasksOthers /\ ~Chosen
    /\ ~f.drawn /\ f.regs.RAX = SYS_rt_sigprocmask
    /\ slept = 0 /\ f.delay = 0 /\ f.delay_after = 0
WentThrough(f) ==
    /\ executed = <<app_call>> /\ Chosen /\ FailDrawn(f)
    /\ f.regs.RAX = IF f.fail_with # NoError THEN -f.fail_with ELSE Ok
Ended(f) == FailedBefore(f) \/ PassedBy(f) \/ LeftOut(f) \/ WentThrough(f)

\* The frame f of the application's call.
MainFrame(f) ==
    /\ Arguments(f.regs, app_call)
    /\ f.pc \in Untouched => slept = 0 /\ f.delay = 0 /\ f.delay_after = 0
    /\ f.pc \in Early => f.regs.RAX = app_call[1] /\ executed = <<>>
    /\ f.pc \in Late => f.regs.RAX = Ok /\ executed = <<app_call>>
    /\ f.pc \in Ruled => Chosen
    /\ f.pc = "only" => ~(Chosen /\ status = "on")
    /\ f.pc \in Early \ {"call"} => ~f.drawn
    /\ ~f.drawn => f.fail_with = NoError
    /\ f.pc \in {"call"} \cup Late => FailDrawn(f)
    /\ f.delay = 0 \/ f.delay_after = 0
    /\ f.pc = "sleep" => f.delay_after = 0
    /\ f.delay > 0 => f.delay <= Asked.max_delay_usec
    /\ f.delay_after > 0 => f.delay_after <= Asked.max_delay_usec
    /\ f.pc = "done" => Ended(f)

Main == stack # <<>> => MainFrame(stack[1])

\* What has been slept when the application's call is at this point.
Paid(f) ==
    CASE f.pc \in {"sigsys", "only", "delay", "sleep"} -> 0
      [] f.pc \in {"fail", "call", "sleep_after"} -> Positively(f.delay)
      [] f.pc = "finish" -> Positively(f.delay) + Positively(f.delay_after)
      [] f.pc = "done" -> Positively(f.delay)
                           + (IF executed = <<>> THEN 0 ELSE Positively(f.delay_after))

\* The frame g of a sleep of f.
SleepFrame(g, f) ==
    /\ g.regs.RDI = Duration(f)
    /\ g.delay = 0 /\ g.delay_after = 0 /\ g.fail_with = NoError
    /\ g.pc \in Early => g.regs.RAX = SYS_nanosleep /\ slept = Paid(f)
    /\ g.pc \in Late => g.regs.RAX = Ok /\ slept = Paid(f) + Duration(f)
    /\ g.pc \in Ruled => SYS_nanosleep \in DOMAIN plan
    /\ g.pc = "done" => \/ g.regs.RAX = -EINTR /\ slept = Paid(f)
                        \/ g.regs.RAX = Ok /\ slept = Paid(f) + Duration(f)

Slept ==
    SleepsUndisturbed /\ stack # <<>> =>
        \/ Depth = 1 /\ slept = Paid(stack[1])
        \/ Depth = 2 /\ SleepFrame(stack[2], stack[1])

-----------------------------------------------------------------------------
(* Lemmas about plans.                                                      *)

\* The outcome the plan gives for a syscall.
Given(n) == FirstOf(c_plan.syscall_outcomes, "syscall", n)

\* The entry of the active plan is the outcome the C plan gives, converted.
LEMMA PlanEntry ==
    ASSUME c_plan \in CPlans, c_plan # NULL, plan = ActivePlan(c_plan), NEW n \in DOMAIN plan
    PROVE  /\ n \in Values(c_plan.syscall_outcomes, "syscall")
           /\ Given(n) \in sysfail_syscall_outcome_t
           /\ plan[n] = ActiveOutcome(Given(n))
  <1>1. c_plan \in sysfail_plan_t
    BY CSessionAssumption
  <1>2. c_plan.syscall_outcomes \in Seq(sysfail_syscall_outcome_t)
    BY <1>1 DEF sysfail_plan_t
  <1> DEFINE list == c_plan.syscall_outcomes
  <1>3. n \in Values(list, "syscall") /\ plan[n] = ActiveOutcome(Given(n))
    BY DEF ActivePlan, Given
  <1> HIDE DEF list
  <1>4. Len(list) \in Nat /\ DOMAIN list = 1 .. Len(list)
    BY <1>2 DEF list
  <1>5. \A i \in 1 .. Len(list) : list[i] \in sysfail_syscall_outcome_t
    BY <1>2 DEF list
  <1>6. \E i \in 1 .. Len(list) : FirstOf(list, "syscall", n) = list[i]
    BY <1>3, <1>4, FirstFound
  <1>7. FirstOf(list, "syscall", n) \in sysfail_syscall_outcome_t
    BY <1>5, <1>6
  <1> QED
    BY <1>3, <1>7 DEF Given, list

\* The fields of a well-formed outcome.
LEMMA OutcomeShape ==
    ASSUME NEW a \in sysfail_syscall_outcome_t
    PROVE  /\ a.fail.p \in Int /\ a.fail.after_bias \in Int
           /\ a.delay.p \in Int /\ a.delay.after_bias \in Int
           /\ a.max_delay_usec \in Nat /\ a.ctx \in Int
           /\ a.eligible \in sysfail_invocation_predicate_t \cup {NULL}
           /\ a.error_wts \in Seq(sysfail_error_wt_t)
  <1>1. /\ a.fail \in sysfail_probability_t /\ a.delay \in sysfail_probability_t
        /\ a.max_delay_usec \in Nat /\ a.ctx \in Int
        /\ a.eligible \in sysfail_invocation_predicate_t \cup {NULL}
        /\ a.error_wts \in Seq(sysfail_error_wt_t)
    BY DEF sysfail_syscall_outcome_t
  <1> QED
    BY <1>1 DEF sysfail_probability_t

\* What a draw finds in the table of a well-formed outcome.
LEMMA OutcomeErrors ==
    ASSUME NEW a \in sysfail_syscall_outcome_t, NEW k \in Draw
    PROVE  LET o == ActiveOutcome(a)
           IN  /\ WeightTable(error_weights(a.error_wts))
               /\ Values(a.error_wts, "nerror") \in SUBSET (Nat \ {0})
               /\ \A e \in ErrorsAt(o, k) : e \in Int
               /\ ~AtEnd(o, k) => ErrorsAt(o, k) \in SUBSET (Values(a.error_wts, "nerror") \cap Range(o.errors))
               /\ SumFunction(error_weights(a.error_wts)) >= Denom => ~AtEnd(o, k)
  <1> DEFINE o == ActiveOutcome(a)
             wt == error_weights(a.error_wts)
  <1>1. a.error_wts \in Seq(sysfail_error_wt_t)
    BY OutcomeShape
  <1>2. /\ DOMAIN wt = Values(a.error_wts, "nerror") /\ IsFiniteSet(DOMAIN wt)
        /\ DOMAIN wt \in SUBSET (Nat \ {0}) /\ \A e \in DOMAIN wt : wt[e] \in Int
    BY <1>1, Weights
  <1>3. WeightTable(wt)
    BY <1>2 DEF WeightTable
  <1>4. o.errors = error_by_cumulative_p(wt)
    BY DEF ActiveOutcome
  <1>5. k \in Int /\ k >= 0 /\ k < Denom /\ Denom \in Int
    BY PlanAssumption DEF Draw
  <1> HIDE DEF o, wt
  <1>6. ASSUME ~AtEnd(o, k)
        PROVE  ErrorsAt(o, k) \in SUBSET (DOMAIN wt \cap Range(o.errors))
    <2> DEFINE m == Min(AtOrAbove(o, k))
    <2>1. m \in AtOrAbove(o, k) /\ ErrorsAt(o, k) = {o.errors[m]} /\ o.errors[m] \in DOMAIN wt
      BY <1>3, <1>4, <1>5, <1>6, Found
    <2>2. m \in DOMAIN o.errors
      BY <2>1 DEF AtOrAbove
    <2> QED
      BY <2>1, <2>2 DEF Range
  <1>7. ASSUME AtEnd(o, k) PROVE \A e \in ErrorsAt(o, k) : e \in Int
    BY <1>7 DEF ErrorsAt, NoError, Garbage
  <1>8. ASSUME SumFunction(wt) >= Denom PROVE ~AtEnd(o, k)
    <2>1. SumFunction(wt) \in Int
      BY <1>3, SumInt DEF WeightTable, SumFunction
    <2>2. SumFunction(wt) > k
      BY <1>5, <1>8, <2>1
    <2> QED
      BY <1>3, <1>4, <1>5, <2>2, Found
  <1>9. \A e \in ErrorsAt(o, k) : e \in Int
    BY <1>2, <1>6, <1>7
  <1> QED
    BY <1>2, <1>3, <1>6, <1>8, <1>9 DEF o, wt
-----------------------------------------------------------------------------
(* Lemmas about the stack of trapped calls.                                 *)

\* The fields of a frame.
LEMMA FrameShape ==
    ASSUME NEW f \in Frames
    PROVE  /\ f.pc \in Pcs /\ f.delay \in IntRange /\ f.delay_after \in IntRange
           /\ f.fail_with \in Int /\ f.drawn \in BOOLEAN
           /\ f.regs \in Regs /\ f.regs.RAX \in Int /\ f.regs.RDI \in Int
           /\ f.delay \in Int /\ f.delay_after \in Int /\ Duration(f) \in Int
  <1>1. /\ f.pc \in Pcs /\ f.delay \in IntRange /\ f.delay_after \in IntRange
        /\ f.fail_with \in Int /\ f.drawn \in BOOLEAN /\ f.regs \in Regs
    BY DEF Frames
  <1>2. f.regs.RAX \in Int /\ f.regs.RDI \in Int
    BY <1>1 DEF Regs
  <1>3. f.delay \in Int /\ f.delay_after \in Int
    BY <1>1, PlanAssumption DEF IntRange
  <1> QED
    BY <1>1, <1>2, <1>3 DEF Duration

\* The innermost frame.
LEMMA TopShape ==
    ASSUME Stacked, stack # <<>>
    PROVE  Depth \in Nat \ {0} /\ Depth = Len(stack) /\ Top \in Frames /\ stack[1] \in Frames
  BY DEF Stacked, Depth, Top

\* Replacing the innermost frame leaves the others as they are.
LEMMA Replaced ==
    ASSUME Stacked, stack # <<>>, NEW f \in Frames, Become(f)
    PROVE  /\ stack' \in Seq(Frames) /\ Len(stack') = Len(stack) /\ stack' # <<>>
           /\ stack'[Len(stack)] = f
           /\ \A i \in 1 .. Len(stack) - 1 : stack'[i] = stack[i]
  <1>1. stack \in Seq(Frames) /\ Len(stack) \in Nat \ {0}
    BY DEF Stacked
  <1>2. stack' = [stack EXCEPT ![Len(stack)] = f]
    BY DEF Become, Depth
  <1> QED
    BY <1>1, <1>2

\* The kinds of change a frame undergoes keep it a frame.
LEMMA FrameUpdate ==
    ASSUME NEW f \in Frames
    PROVE  /\ \A pc \in Pcs : [f EXCEPT !.pc = pc] \in Frames
           /\ \A pc \in Pcs, d \in IntRange :
                /\ [f EXCEPT !.pc = pc, !.delay = d] \in Frames
                /\ [f EXCEPT !.pc = pc, !.delay_after = d] \in Frames
           /\ \A pc \in Pcs, n \in Int : [f EXCEPT !.pc = pc, !.regs.RAX = n] \in Frames
           /\ \A pc \in Pcs, e \in Int :
                [[f EXCEPT !.drawn = TRUE] EXCEPT !.pc = pc, !.fail_with = e] \in Frames
           /\ \A pc \in Pcs, n \in Int :
                [[f EXCEPT !.drawn = TRUE] EXCEPT !.pc = pc, !.regs.RAX = n] \in Frames
           /\ \A pc \in Pcs : [[f EXCEPT !.drawn = TRUE] EXCEPT !.pc = pc] \in Frames
           /\ Awake(f) \in Frames
  <1> USE DEF Frames
  <1>1. \A n \in Int : [f.regs EXCEPT !.RAX = n] \in Regs
    BY DEF Regs
  <1>2. \A pc \in Pcs : [f EXCEPT !.pc = pc] \in Frames
    OBVIOUS
  <1>3. \A pc \in Pcs, d \in IntRange :
          /\ [f EXCEPT !.pc = pc, !.delay = d] \in Frames
          /\ [f EXCEPT !.pc = pc, !.delay_after = d] \in Frames
    OBVIOUS
  <1>4. \A pc \in Pcs, n \in Int : [f EXCEPT !.pc = pc, !.regs.RAX = n] \in Frames
    BY <1>1
  <1>5. \A pc \in Pcs, e \in Int :
          [[f EXCEPT !.drawn = TRUE] EXCEPT !.pc = pc, !.fail_with = e] \in Frames
    OBVIOUS
  <1>6. \A pc \in Pcs, n \in Int :
          [[f EXCEPT !.drawn = TRUE] EXCEPT !.pc = pc, !.regs.RAX = n] \in Frames
    BY <1>1
  <1>7. \A pc \in Pcs : [[f EXCEPT !.drawn = TRUE] EXCEPT !.pc = pc] \in Frames
    OBVIOUS
  <1>8. Awake(f) \in Frames
    BY <1>2 DEF Awake, Pcs
  <1> QED
    BY <1>2, <1>3, <1>4, <1>5, <1>6, <1>7, <1>8

\* A new frame is one.
LEMMA NewFrame ==
    ASSUME NEW c \in [1 .. 7 -> Int], NEW addr \in {Address("app"), Address("libc")}
    PROVE  /\ Frame(c, addr) \in Frames
           /\ Frame(c, addr).regs.RAX = c[1] /\ Arguments(Frame(c, addr).regs, c)
           /\ Frame(c, addr).regs.RDI = c[2]
           /\ Frame(c, addr).pc = "sigsys" /\ ~Frame(c, addr).drawn
           /\ Frame(c, addr).delay = 0 /\ Frame(c, addr).delay_after = 0
           /\ Frame(c, addr).fail_with = NoError
  <1>1. Registers(c, addr) \in Regs /\ Arguments(Registers(c, addr), c)
        /\ Registers(c, addr).RAX = c[1] /\ Registers(c, addr).RDI = c[2]
    BY DEF Registers, Regs, Arguments
  <1>2. 0 \in IntRange
    BY PlanAssumption DEF IntRange
  <1> QED
    BY <1>1, <1>2 DEF Frame, Frames, Pcs, NoError

\* Frames do not change their kind while the memory map stays the same.
LEMMA SameFrames == UNCHANGED maps => Frames' = Frames
  BY DEF Frames, Regs, Address

Rest == UNCHANGED <<api, members, client>>

\* A step of the handler that replaces the innermost frame keeps the types.
LEMMA ReplacedTypes ==
    ASSUME TypeOK, Stacked, stack # <<>>, NEW f \in Frames, Become(f),
           f.regs.RDI = Top.regs.RDI, f.pc \in Undecided => f.regs.RAX \in DOMAIN plan, Rest,
           aborted' \in BOOLEAN, slept' \in Nat,
           executed' \in {<<>>} \cup {<<c>> : c \in Calls}
    PROVE  TypeOK' /\ Stacked'
  <1>1. /\ stack' \in Seq(Frames) /\ Len(stack') = Len(stack) /\ stack' # <<>>
        /\ stack'[Len(stack)] = f
        /\ \A i \in 1 .. Len(stack) - 1 : stack'[i] = stack[i]
    BY Replaced
  <1>2. Frames' = Frames
    BY SameFrames DEF Rest, api
  <1>3. Len(stack) \in Nat \ {0} /\ Depth = Len(stack) /\ Depth' = Len(stack) /\ Top = stack[Len(stack)]
    BY <1>1, TopShape DEF Depth, Top
  <1>4. c_plan' \in CPlans /\ stack' \in Seq(Frames')
    BY <1>1, <1>2 DEF Rest, api, Stacked
  <1>5. ASSUME NEW i \in 2 .. Len(stack) PROVE stack'[i].regs.RDI \in Nat
    BY <1>1, <1>3 DEF Stacked
  <1>6. ASSUME NEW i \in 1 .. Len(stack) - 1 PROVE Sleeping(stack'[i]) /\ Duration(stack'[i]) > 0
    BY <1>1, <1>3 DEF Stacked
  <1>10. ASSUME NEW i \in 1 .. Len(stack), stack'[i].pc \in Undecided
         PROVE  stack'[i].regs.RAX \in DOMAIN plan'
    BY <1>1, <1>3, <1>10 DEF Stacked, Rest, api
  <1>7. Stacked'
    BY <1>3, <1>4, <1>5, <1>6, <1>10 DEF Stacked
  <1>8. \A i \in 1 .. Len(stack) :
          /\ stack'[i].pc \in Pcs
          /\ stack'[i].delay \in IntRange /\ stack'[i].delay_after \in IntRange
    <2>1. \A i \in 1 .. Len(stack) : stack'[i] \in Frames
      BY <1>1
    <2> QED
      BY <2>1, FrameShape
  <1>9. TypeOK'
    BY <1>3, <1>8 DEF Rest, api, members, client, TypeOK, Pcs, IntRange
  <1> QED
    BY <1>7, <1>9

\* Where the innermost frame is, the plan's outcome for it is well formed.
LEMMA TopOutcome ==
    ASSUME Stacked, Started, stack # <<>>, Top.regs.RAX \in DOMAIN plan
    PROVE  /\ Outcome = ActiveOutcome(Given(Top.regs.RAX))
           /\ Given(Top.regs.RAX) \in sysfail_syscall_outcome_t
           /\ Top.regs.RAX \in Values(c_plan.syscall_outcomes, "syscall")
  <1>1. c_plan \in CPlans /\ c_plan # NULL /\ plan = ActivePlan(c_plan)
    BY DEF Stacked, Started
  <1> QED
    BY <1>1, PlanEntry DEF Outcome

\* The fields of a converted outcome.
LEMMA Converted ==
    ASSUME NEW a
    PROVE  /\ ActiveOutcome(a).fail = a.fail /\ ActiveOutcome(a).delay = a.delay
           /\ ActiveOutcome(a).max_delay = a.max_delay_usec
           /\ ActiveOutcome(a).check.eligible = a.eligible /\ ActiveOutcome(a).check.ctx = a.ctx
  BY DEF ActiveOutcome
-----------------------------------------------------------------------------
(* What the steps of the handler do to the innermost frame.                 *)

\* f differs from g at most in its pc.
SamePast(f, g) ==
    /\ f.regs = g.regs /\ f.delay = g.delay /\ f.delay_after = g.delay_after
    /\ f.fail_with = g.fail_with /\ f.drawn = g.drawn

\* handle_sigsys aborts, goes on to the plan's outcome, passes the call by or
\* drops it.
LEMMA SigsysEffect ==
    ASSUME Stacked, handle_sigsys
    PROVE  /\ stack # <<>> /\ Top.pc = "sigsys" /\ UNCHANGED <<executed, slept>>
           /\ \/ UNCHANGED stack /\ aborted' = TRUE
              \/ UNCHANGED aborted /\
                 \E f \in Frames :
                    /\ Become(f) /\ SamePast(f, Top)
                    /\ \/ f.pc = "delay" /\ Planned /\ ~Aborts(Outcome.check) /\ eligible(Outcome.check, Top.regs)
                       \/ f.pc = "only" /\ (Planned => ~Aborts(Outcome.check) /\ ~eligible(Outcome.check, Top.regs))
                       \/ f.pc = "done" /\ Dropped
  <1>1. stack # <<>> /\ Top.pc = "sigsys" /\ UNCHANGED <<executed, slept>>
    BY DEF handle_sigsys, At
  <1>2. Top \in Frames
    BY <1>1, TopShape
  <1>3. ASSUME NEW pc \in {"delay", "only", "done"}
        PROVE  /\ [Top EXCEPT !.pc = pc] \in Frames /\ SamePast([Top EXCEPT !.pc = pc], Top)
               /\ [Top EXCEPT !.pc = pc].pc = pc
    <2>1. [Top EXCEPT !.pc = pc] \in Frames
      BY <1>2, FrameUpdate DEF Pcs
    <2> QED
      BY <1>2, <2>1 DEF SamePast, Frames
  <1>4. CASE UNCHANGED stack /\ aborted' = TRUE
    BY <1>1, <1>4
  <1>5. CASE /\ Planned /\ ~Aborts(Outcome.check) /\ eligible(Outcome.check, Top.regs)
             /\ Become([Top EXCEPT !.pc = "delay"]) /\ UNCHANGED aborted
    BY <1>1, <1>3, <1>5
  <1>6. CASE /\ Planned => ~Aborts(Outcome.check) /\ ~eligible(Outcome.check, Top.regs)
             /\ Become([Top EXCEPT !.pc = "only"]) /\ UNCHANGED aborted
    BY <1>1, <1>3, <1>6
  <1>7. CASE Dropped /\ Become([Top EXCEPT !.pc = "done"]) /\ UNCHANGED aborted
    BY <1>1, <1>3, <1>7
  <1> QED
    BY <1>4, <1>5, <1>6, <1>7 DEF handle_sigsys

\* f is g after a draw of Delay.
Delayed(f, g) ==
    /\ f.regs = g.regs /\ f.fail_with = g.fail_with /\ f.drawn = g.drawn
    /\ \/ f.pc = "fail" /\ f.delay = g.delay /\ f.delay_after = g.delay_after
       \/ /\ Outcome.delay.p > 0
          /\ f.pc = "fail" /\ f.delay = g.delay /\ f.delay_after \in Delays(Outcome)
       \/ /\ Outcome.delay.p > 0
          /\ f.pc = "sleep" /\ f.delay \in Delays(Outcome) /\ f.delay_after = g.delay_after

\* A delay of the plan is drawn, or none.
LEMMA DelayEffect ==
    ASSUME Stacked, Started, Delay
    PROVE  /\ stack # <<>> /\ Top.pc = "delay" /\ UNCHANGED <<executed, slept, aborted>>
           /\ \E f \in Frames : Become(f) /\ Delayed(f, Top)
  <1>1. stack # <<>> /\ Top.pc = "delay" /\ UNCHANGED <<executed, slept, aborted>>
    BY DEF Delay, At
  <1>2. Top \in Frames /\ Depth \in Nat \ {0}
    BY <1>1, TopShape
  <1>3. Top.regs.RAX \in DOMAIN plan
    BY <1>1, <1>2 DEF Stacked, Undecided, Top
  <1>4. Given(Top.regs.RAX) \in sysfail_syscall_outcome_t /\ Outcome = ActiveOutcome(Given(Top.regs.RAX))
    BY <1>1, <1>3, TopOutcome
  <1>5. Outcome.max_delay \in Nat /\ Outcome.delay.p \in Int
    BY <1>4, Converted, OutcomeShape
  <1>6. \A d \in Delays(Outcome) : d \in IntRange
    BY <1>5, DelayRange DEF IntRange
  <1>7. CASE Become([Top EXCEPT !.pc = "fail"])
    <2>1. [Top EXCEPT !.pc = "fail"] \in Frames
      BY <1>2, FrameUpdate DEF Pcs
    <2>2. Delayed([Top EXCEPT !.pc = "fail"], Top)
      BY <1>2 DEF Delayed, Frames
    <2> QED
      BY <1>1, <1>7, <2>1, <2>2
  <1>8. ASSUME NEW k \in Draw, NEW d \in Delays(Outcome), k < Outcome.delay.p,
               Become([Top EXCEPT !.pc = "fail", !.delay_after = d])
        PROVE  \E f \in Frames : Become(f) /\ Delayed(f, Top)
    <2>1. [Top EXCEPT !.pc = "fail", !.delay_after = d] \in Frames
      BY <1>2, <1>6, FrameUpdate DEF Pcs
    <2>2. Outcome.delay.p > 0
      BY <1>5, <1>8, PlanAssumption DEF Draw
    <2>3. Delayed([Top EXCEPT !.pc = "fail", !.delay_after = d], Top)
      BY <1>2, <2>2 DEF Delayed, Frames
    <2> QED
      BY <1>8, <2>1, <2>3
  <1>9. ASSUME NEW k \in Draw, NEW d \in Delays(Outcome), k < Outcome.delay.p,
               Become([Top EXCEPT !.pc = "sleep", !.delay = d])
        PROVE  \E f \in Frames : Become(f) /\ Delayed(f, Top)
    <2>1. [Top EXCEPT !.pc = "sleep", !.delay = d] \in Frames
      BY <1>2, <1>6, FrameUpdate DEF Pcs
    <2>2. Outcome.delay.p > 0
      BY <1>5, <1>9, PlanAssumption DEF Draw
    <2>3. Delayed([Top EXCEPT !.pc = "sleep", !.delay = d], Top)
      BY <1>2, <2>2 DEF Delayed, Frames
    <2> QED
      BY <1>9, <2>1, <2>3
  <1> QED
    BY <1>1, <1>7, <1>8, <1>9 DEF Delay

\* f is g after the draws of Fail.
Summed(a) == SumFunction(error_weights(a.error_wts)) >= Denom
Decided(f, g, a) ==
    /\ f.delay = g.delay /\ f.delay_after = g.delay_after
    /\ \/ /\ f.pc = "call" /\ f.regs = g.regs /\ f.drawn = g.drawn /\ f.fail_with = g.fail_with
          /\ a.fail.p < Denom
       \/ /\ f.pc = "call" /\ f.regs = g.regs /\ f.drawn = TRUE /\ a.fail.p > 0 /\ a.fail.after_bias > 0
          /\ Summed(a) => f.fail_with \in Values(a.error_wts, "nerror")
       \/ /\ f.pc = "call" /\ f.regs = g.regs /\ f.drawn = TRUE /\ f.fail_with = g.fail_with
          /\ a.fail.p > 0 /\ ~Summed(a)
       \/ /\ f.pc = "done" /\ f.drawn = TRUE /\ f.fail_with = g.fail_with
          /\ a.fail.p > 0 /\ a.fail.after_bias < Denom
          /\ \E e \in Values(a.error_wts, "nerror") \cap Range(Outcome.errors) :
               f.regs = [g.regs EXCEPT !.RAX = -e]

\* Fail draws whether, when and with which error the call fails.
LEMMA FailEffect ==
    ASSUME Stacked, Started, Fail
    PROVE  /\ stack # <<>> /\ Top.pc = "fail" /\ UNCHANGED <<executed, slept, aborted>>
           /\ \E f \in Frames : Become(f) /\ Decided(f, Top, Given(Top.regs.RAX))
  <1>1. stack # <<>> /\ Top.pc = "fail" /\ UNCHANGED <<executed, slept, aborted>>
    BY DEF Fail, At
  <1>2. Top \in Frames /\ Depth \in Nat \ {0}
    BY <1>1, TopShape
  <1>3. Top.regs.RAX \in DOMAIN plan
    BY <1>1, <1>2 DEF Stacked, Undecided, Top
  <1> DEFINE a == Given(Top.regs.RAX)
  <1>4. a \in sysfail_syscall_outcome_t /\ Outcome = ActiveOutcome(a)
    BY <1>1, <1>3, TopOutcome
  <1>5. /\ Outcome.fail = a.fail /\ a.fail.p \in Int /\ a.fail.after_bias \in Int
        /\ Denom \in Nat \ {0}
    BY <1>4, Converted, OutcomeShape, PlanAssumption
  <1> HIDE DEF a
  <1>6. ASSUME NEW k \in Draw, ~(k < Outcome.fail.p), Become([Top EXCEPT !.pc = "call"])
        PROVE  \E f \in Frames : Become(f) /\ Decided(f, Top, a)
    <2>1. [Top EXCEPT !.pc = "call"] \in Frames
      BY <1>2, FrameUpdate DEF Pcs
    <2>2. a.fail.p < Denom
      BY <1>5, <1>6 DEF Draw
    <2>3. Decided([Top EXCEPT !.pc = "call"], Top, a)
      BY <1>2, <2>2 DEF Decided, Frames
    <2> QED
      BY <1>6, <2>1, <2>3
  <1> DEFINE drawn == [Top EXCEPT !.drawn = TRUE]
  <1>7. ASSUME NEW k \in Draw, NEW k_err \in Draw, NEW k_after \in Draw,
               NEW e \in ErrorsAt(Outcome, k_err), k < Outcome.fail.p
        PROVE  /\ a.fail.p > 0 /\ e \in Int
               /\ After(Outcome.fail, k_after) => a.fail.after_bias > 0
               /\ ~After(Outcome.fail, k_after) => a.fail.after_bias < Denom
               /\ ~AtEnd(Outcome, k_err) => e \in Values(a.error_wts, "nerror") \cap Range(Outcome.errors)
               /\ Summed(a) => ~AtEnd(Outcome, k_err)
    <2>1. a.fail.p > 0
      BY <1>5, <1>7 DEF Draw
    <2>2. /\ After(Outcome.fail, k_after) => a.fail.after_bias > 0
          /\ ~After(Outcome.fail, k_after) => a.fail.after_bias < Denom
      BY <1>5 DEF Draw, After
    <2>3. /\ e \in Int /\ (Summed(a) => ~AtEnd(Outcome, k_err))
          /\ ~AtEnd(Outcome, k_err) => e \in Values(a.error_wts, "nerror") \cap Range(Outcome.errors)
      BY <1>4, OutcomeErrors DEF Summed
    <2> QED
      BY <2>1, <2>2, <2>3
  <1>8. ASSUME NEW k \in Draw, NEW k_err \in Draw, NEW k_after \in Draw,
               NEW e \in ErrorsAt(Outcome, k_err), k < Outcome.fail.p,
               After(Outcome.fail, k_after), Become([drawn EXCEPT !.pc = "call", !.fail_with = e])
        PROVE  \E f \in Frames : Become(f) /\ Decided(f, Top, a)
    <2> DEFINE f == [drawn EXCEPT !.pc = "call", !.fail_with = e]
    <2>0. /\ a.fail.p > 0 /\ e \in Int /\ a.fail.after_bias > 0
          /\ Summed(a) => e \in Values(a.error_wts, "nerror")
      BY <1>7, <1>8
    <2>1. f \in Frames
      BY <1>2, <2>0, FrameUpdate DEF Pcs
    <2>2. /\ f.delay = Top.delay /\ f.delay_after = Top.delay_after /\ f.pc = "call"
          /\ f.regs = Top.regs /\ f.drawn = TRUE /\ f.fail_with = e
      BY <1>2 DEF Frames
    <2>3. Decided(f, Top, a)
      BY <2>0, <2>2 DEF Decided
    <2> QED
      BY <1>8, <2>1, <2>3
  <1>9. ASSUME NEW k \in Draw, NEW k_err \in Draw, NEW k_after \in Draw,
               NEW e \in ErrorsAt(Outcome, k_err), k < Outcome.fail.p,
               ~After(Outcome.fail, k_after), ~AtEnd(Outcome, k_err),
               Become([drawn EXCEPT !.pc = "done", !.regs.RAX = Negated(e)])
        PROVE  \E f \in Frames : Become(f) /\ Decided(f, Top, a)
    <2> DEFINE f == [drawn EXCEPT !.pc = "done", !.regs.RAX = -e]
    <2>0. /\ a.fail.p > 0 /\ e \in Int /\ -e \in Int /\ a.fail.after_bias < Denom
          /\ e \in Values(a.error_wts, "nerror") \cap Range(Outcome.errors)
      BY <1>7, <1>9
    <2>1. f \in Frames
      BY <1>2, <2>0, FrameUpdate DEF Pcs
    <2>2. /\ f.delay = Top.delay /\ f.delay_after = Top.delay_after /\ f.pc = "done"
          /\ f.regs = [Top.regs EXCEPT !.RAX = -e] /\ f.drawn = TRUE /\ f.fail_with = Top.fail_with
      BY <1>2 DEF Frames
    <2>3. Decided(f, Top, a)
      BY <2>0, <2>2 DEF Decided
    <2> QED
      BY <1>9, <2>1, <2>3 DEF Negated
  <1>10. ASSUME NEW k \in Draw, NEW k_err \in Draw, NEW k_after \in Draw,
               NEW e \in ErrorsAt(Outcome, k_err), k < Outcome.fail.p,
               AtEnd(Outcome, k_err), Become([drawn EXCEPT !.pc = "call"])
        PROVE  \E f \in Frames : Become(f) /\ Decided(f, Top, a)
    <2> DEFINE f == [drawn EXCEPT !.pc = "call"]
    <2>0. a.fail.p > 0 /\ ~Summed(a)
      BY <1>7, <1>10
    <2>1. f \in Frames
      BY <1>2, FrameUpdate DEF Pcs
    <2>2. /\ f.delay = Top.delay /\ f.delay_after = Top.delay_after /\ f.pc = "call"
          /\ f.regs = Top.regs /\ f.drawn = TRUE /\ f.fail_with = Top.fail_with
      BY <1>2 DEF Frames
    <2>3. Decided(f, Top, a)
      BY <2>0, <2>2 DEF Decided
    <2> QED
      BY <1>10, <2>1, <2>3
  <1>11. \E f \in Frames : Become(f) /\ Decided(f, Top, a)
    BY <1>6, <1>8, <1>9, <1>10 DEF Fail
  <1> QED
    BY <1>1, <1>11 DEF a

\* The call is made, and its answer replaces its number.
LEMMA ContinueEffect ==
    ASSUME Stacked, continue_syscall
    PROVE  /\ stack # <<>> /\ Top.pc \in {"only", "call"} /\ UNCHANGED aborted
           /\ Depth = 1 => executed' = Append(executed, Continued(Top.regs)) /\ slept' = slept
           /\ Depth # 1 => executed' = executed /\ slept' = slept + Top.regs.RDI
           /\ \E f \in Frames :
                /\ Become(f) /\ f.regs = [Top.regs EXCEPT !.RAX = Ok]
                /\ f.delay = Top.delay /\ f.delay_after = Top.delay_after
                /\ f.fail_with = Top.fail_with /\ f.drawn = Top.drawn
                /\ \/ Top.pc = "only" /\ f.pc = "done"
                   \/ Top.pc = "call" /\ f.pc = "sleep_after"
  <1>1. stack # <<>> /\ Top.pc \in {"only", "call"} /\ UNCHANGED aborted
    BY DEF continue_syscall, At
  <1>2. Top \in Frames
    BY <1>1, TopShape
  <1>3. Continued(Top.regs)[2] = Top.regs.RDI
    BY DEF Continued, syscall, Kernel
  <1>4. /\ Depth = 1 => executed' = Append(executed, Continued(Top.regs)) /\ slept' = slept
        /\ Depth # 1 => executed' = executed /\ slept' = slept + Top.regs.RDI
    BY <1>3 DEF continue_syscall, Execute
  <1>5. ASSUME NEW pc \in Pcs
        PROVE  LET f == [Top EXCEPT !.pc = pc, !.regs.RAX = Ok]
               IN  /\ f \in Frames /\ f.regs = [Top.regs EXCEPT !.RAX = Ok] /\ f.pc = pc
                   /\ f.delay = Top.delay /\ f.delay_after = Top.delay_after
                   /\ f.fail_with = Top.fail_with /\ f.drawn = Top.drawn
    <2>0. Ok \in Int
      BY FailMaybeAssumption
    <2>1. [Top EXCEPT !.pc = pc, !.regs.RAX = Ok] \in Frames
      BY <1>2, <2>0, FrameUpdate
    <2> QED
      BY <1>2, <2>1 DEF Frames
  <1>6. CASE Top.pc = "only" /\ Become([Top EXCEPT !.pc = "done", !.regs.RAX = Ok])
    BY <1>1, <1>4, <1>5, <1>6 DEF Pcs
  <1>7. CASE Top.pc = "call" /\ Become([Top EXCEPT !.pc = "sleep_after", !.regs.RAX = Ok])
    BY <1>1, <1>4, <1>5, <1>7 DEF Pcs
  <1> QED
    BY <1>6, <1>7 DEF continue_syscall, At

\* The error that was put off, if any, replaces the answer.
LEMMA FinishEffect ==
    ASSUME Stacked, Finish
    PROVE  /\ stack # <<>> /\ Top.pc = "finish" /\ UNCHANGED <<executed, slept, aborted>>
           /\ \E f \in Frames :
                /\ Become(f) /\ f.pc = "done"
                /\ f.regs = [Top.regs EXCEPT !.RAX = IF Top.fail_with # NoError
                                                     THEN -Top.fail_with ELSE Top.regs.RAX]
                /\ f.delay = Top.delay /\ f.delay_after = Top.delay_after
                /\ f.fail_with = Top.fail_with /\ f.drawn = Top.drawn
  <1>1. stack # <<>> /\ Top.pc = "finish" /\ UNCHANGED <<executed, slept, aborted>>
    BY DEF Finish, At
  <1>2. Top \in Frames
    BY <1>1, TopShape
  <1> DEFINE n == IF Top.fail_with # NoError THEN -Top.fail_with ELSE Top.regs.RAX
             f == [Top EXCEPT !.pc = "done", !.regs.RAX = n]
  <1>3. n \in Int
    BY <1>2, FrameShape
  <1>4. f \in Frames
    BY <1>2, <1>3, FrameUpdate DEF Pcs
  <1>5. Become(f)
    BY <1>2 DEF Finish, Negated, Frames
  <1>6. /\ f.pc = "done" /\ f.regs = [Top.regs EXCEPT !.RAX = n]
        /\ f.delay = Top.delay /\ f.delay_after = Top.delay_after
        /\ f.fail_with = Top.fail_with /\ f.drawn = Top.drawn
    BY <1>2 DEF Frames
  <1> HIDE DEF f
  <1> QED
    BY <1>1, <1>4, <1>5, <1>6

\* Waking up only moves on.
LEMMA AwakeFrame ==
    ASSUME NEW f \in Frames, Sleeping(f)
    PROVE  /\ Awake(f) \in Frames /\ SamePast(Awake(f), f)
           /\ f.pc = "sleep" => Awake(f).pc = "fail"
           /\ f.pc = "sleep_after" => Awake(f).pc = "finish"
  <1>1. Awake(f) \in Frames
    BY FrameUpdate
  <1> QED
    BY <1>1 DEF Awake, SamePast, Frames, Sleeping

\* A delay is slept, at once or in a call that traps, or is none.
LEMMA SleepEffect ==
    ASSUME Stacked, sleep
    PROVE  /\ stack # <<>> /\ Sleeping(Top) /\ UNCHANGED <<executed, aborted>>
           /\ \/ Duration(Top) <= 0 /\ Become(Awake(Top)) /\ slept' = slept
              \/ Duration(Top) > 0 /\ Become(Awake(Top)) /\ slept' = slept + Duration(Top)
              \/ /\ Duration(Top) > 0 /\ Depth < MaxDepth /\ slept' = slept
                 /\ stack' = Append(stack, Frame(<<SYS_nanosleep, Duration(Top), 0, 0, 0, 0, 0>>, Address("libc")))
  BY DEF sleep, At, Sleeping

\* The thread returns from a sleep that trapped.
LEMMA WakeEffect ==
    ASSUME Stacked, Wake
    PROVE  /\ Depth \in Nat /\ Depth > 1 /\ Top.pc = "done" /\ UNCHANGED <<executed, slept, aborted>>
           /\ Sleeping(stack[Depth - 1]) /\ Duration(stack[Depth - 1]) > 0
           /\ Len(stack') = Depth - 1 /\ stack' \in Seq(Frames) /\ stack' # <<>>
           /\ \A i \in 1 .. Depth - 2 : stack'[i] = stack[i]
           /\ stack'[Depth - 1] = IF Interrupted(Top.regs.RAX) THEN stack[Depth - 1]
                                                               ELSE Awake(stack[Depth - 1])
  <1>1. stack # <<>> /\ Depth > 1 /\ Top.pc = "done" /\ UNCHANGED <<executed, slept, aborted>>
    BY DEF Wake, At
  <1>2. stack \in Seq(Frames) /\ Depth \in Nat /\ Depth = Len(stack)
    BY <1>1, TopShape DEF Stacked
  <1>3. stack[Depth - 1] \in Frames
    BY <1>1, <1>2
  <1>4. Sleeping(stack[Depth - 1]) /\ Duration(stack[Depth - 1]) > 0
    BY <1>1, <1>2 DEF Stacked
  <1> DEFINE f == IF Interrupted(Top.regs.RAX) THEN stack[Depth - 1] ELSE Awake(stack[Depth - 1])
             s == SubSeq(stack, 1, Depth - 2)
  <1>5. f \in Frames
    BY <1>3, <1>4, AwakeFrame
  <1>6. stack' = Append(s, f)
    BY DEF Wake
  <1>7. s \in Seq(Frames) /\ Len(s) = Depth - 2 /\ \A i \in 1 .. Depth - 2 : s[i] = stack[i]
    BY <1>1, <1>2
  <1> HIDE DEF f, s
  <1>8. /\ Len(stack') = Depth - 1 /\ stack' \in Seq(Frames)
        /\ \A i \in 1 .. Depth - 2 : stack'[i] = s[i]
        /\ stack'[Depth - 1] = f
    BY <1>1, <1>2, <1>5, <1>6, <1>7
  <1>9. stack' # <<>>
    BY <1>1, <1>2, <1>8
  <1> QED
    BY <1>1, <1>2, <1>4, <1>7, <1>8, <1>9 DEF f
-----------------------------------------------------------------------------
(* The frame of the application's call.                                     *)

\* What the plan asks for does not change while it and the call do not.
LEMMA SamePlan ==
    ASSUME UNCHANGED <<c_plan, caller, app_call>>
    PROVE  /\ Asked' = Asked /\ Chosen' = Chosen /\ Covered' = Covered /\ PlanErrors' = PlanErrors
  <1>1. Asked' = Asked
    BY DEF Asked
  <1> QED
    BY <1>1 DEF Chosen, Covered, PlanErrors, Compared

\* A frame stays as it is said to be when nothing it is about changes.
LEMMA MainKept ==
    ASSUME NEW f, MainFrame(f), UNCHANGED <<c_plan, caller, app_call, executed>>,
           status' = "on" => status = "on",
           slept' = slept \/ f.pc \in {"sleep", "sleep_after"}
    PROVE  MainFrame(f)'
  <1>1. /\ Asked' = Asked /\ Chosen' = Chosen /\ Covered' = Covered /\ PlanErrors' = PlanErrors
    BY SamePlan
  <1>2. FailDrawn(f)' = FailDrawn(f)
    BY <1>1 DEF FailDrawn
  <1>3. ASSUME f.pc = "done", Ended(f) PROVE Ended(f)'
    <2>1. MasksOthers' = MasksOthers
      BY DEF MasksOthers, BlocksSigsys
    <2> QED
      BY <1>1, <1>2, <1>3, <2>1 DEF Ended, FailedBefore, PassedBy, LeftOut, WentThrough
  <1> QED
    BY <1>1, <1>2, <1>3 DEF MainFrame, Untouched

\* The plan's entry for the application's call is what the plan asks for.
LEMMA MainOutcome ==
    ASSUME Stacked, Started, stack # <<>>, Depth = 1, Top.regs.RAX = app_call[1],
           app_call[1] \in DOMAIN plan
    PROVE  /\ Given(Top.regs.RAX) = Asked /\ Asked \in sysfail_syscall_outcome_t
           /\ Outcome = ActiveOutcome(Asked)
           /\ app_call[1] \in Values(c_plan.syscall_outcomes, "syscall")
  <1>1. Given(Top.regs.RAX) = Asked
    BY DEF Given, Asked
  <1> QED
    BY <1>1, TopOutcome

\* The predicate is asked about the value of the application's call.
LEMMA EligibleAsAsked ==
    ASSUME Stacked, Started, stack # <<>>, Depth = 1, Top.regs.RAX = app_call[1],
           Arguments(Top.regs, app_call), Planned, ~Aborts(Outcome.check)
    PROVE  /\ eligible(Outcome.check, Top.regs)
                 <=> (Asked.eligible = NULL \/ Compared(Asked.eligible) = Asked.ctx)
           /\ app_call[1] \in Values(c_plan.syscall_outcomes, "syscall")
  <1>1. app_call \in [1 .. 7 -> Int]
    BY CSessionAssumption DEF Started
  <1>2. /\ Outcome = ActiveOutcome(Asked) /\ Asked \in sysfail_syscall_outcome_t
        /\ app_call[1] \in Values(c_plan.syscall_outcomes, "syscall")
    BY MainOutcome DEF Planned
  <1>3. Outcome.check.eligible = Asked.eligible /\ Outcome.check.ctx = Asked.ctx
    BY <1>2, Converted
  <1>4. CASE Asked.eligible = NULL
    BY <1>2, <1>3, <1>4 DEF eligible
  <1>5. CASE Asked.eligible # NULL
    <2> DEFINE e == Asked.eligible
               i == IF e.via = "c" THEN e.n + 2 ELSE e.n + 1
    <2>1. e \in sysfail_invocation_predicate_t
      BY <1>2, <1>5, OutcomeShape
    <2>2. e.via = "c" => e.n <= 5
      BY <1>3, <1>5, <2>1 DEF Aborts, sysfail_invocation_predicate_t
    <2>3. i \in 1 .. 7 /\ Seen(e, Top.regs) = app_call[i]
      BY <1>1, <2>1, <2>2, SeenAsCalled
    <2>4. Compared(e) = app_call[i]
      BY <1>1, <2>3 DEF Compared
    <2> QED
      BY <1>2, <1>3, <1>5, <2>3, <2>4 DEF eligible
  <1> QED
    BY <1>4, <1>5

\* handle_sigsys goes on to the plan's outcome just for the calls chosen by it.
LEMMA MainSigsys ==
    ASSUME Stacked, Started, stack # <<>>, Depth = 1, MainFrame(Top), Top.pc = "sigsys", Rest,
           UNCHANGED <<executed, slept>>, NEW f \in Frames, SamePast(f, Top),
           \/ f.pc = "delay" /\ Planned /\ ~Aborts(Outcome.check) /\ eligible(Outcome.check, Top.regs)
           \/ f.pc = "only" /\ (Planned => ~Aborts(Outcome.check) /\ ~eligible(Outcome.check, Top.regs))
           \/ f.pc = "done" /\ Dropped
    PROVE  MainFrame(f)'
  <1>1. /\ Asked' = Asked /\ Chosen' = Chosen /\ Covered' = Covered /\ PlanErrors' = PlanErrors
        /\ UNCHANGED <<app_call, status>>
    BY SamePlan DEF Rest, api, client
  <1>2. /\ Arguments(Top.regs, app_call) /\ Top.regs.RAX = app_call[1] /\ executed = <<>> /\ slept = 0
        /\ Top.delay = 0 /\ Top.delay_after = 0 /\ ~Top.drawn /\ Top.fail_with = NoError
    BY DEF MainFrame, Untouched, Early
  <1>3. c_plan.selector = NULL \/ caller = c_plan.ctx
    BY DEF Started, selector
  <1>4. ASSUME f.pc = "delay" PROVE Chosen
    <2>1. Planned /\ ~Aborts(Outcome.check) /\ eligible(Outcome.check, Top.regs)
      BY <1>4
    <2>2. /\ Asked.eligible = NULL \/ Compared(Asked.eligible) = Asked.ctx
          /\ app_call[1] \in Values(c_plan.syscall_outcomes, "syscall")
      BY <1>2, <2>1, EligibleAsAsked
    <2> QED
      BY <1>2, <1>3, <2>1, <2>2 DEF Chosen, Planned
  <1>5. ASSUME f.pc = "only" PROVE ~(Chosen /\ status = "on")
    <2>1. SUFFICES ASSUME Chosen, status = "on" PROVE FALSE
      OBVIOUS
    <2>2. plan = ActivePlan(c_plan)
      BY <2>1 DEF Started
    <2>3. app_call[1] \in DOMAIN plan
      BY <2>1, <2>2 DEF Chosen, ActivePlan
    <2>4. Planned
      BY <1>2, <2>1, <2>3 DEF Planned, Chosen
    <2>5. ~Aborts(Outcome.check) /\ ~eligible(Outcome.check, Top.regs)
      BY <1>5, <2>4
    <2> QED
      BY <1>2, <2>1, <2>4, <2>5, EligibleAsAsked DEF Chosen
  <1>6. /\ Arguments(f.regs, app_call) /\ f.regs.RAX = app_call[1]
        /\ f.delay = 0 /\ f.delay_after = 0 /\ ~f.drawn /\ f.fail_with = NoError
    BY <1>2 DEF SamePast
  <1>7. ASSUME f.pc = "done" PROVE LeftOut(f)'
    <2>1. app_call[1] = SYS_rt_sigprocmask /\ ~BlocksSigsys(app_call[2], app_call[3])
      BY <1>2, <1>7 DEF Dropped, Arguments
    <2>2. MasksOthers' /\ ~Chosen
      BY <1>1, <2>1 DEF MasksOthers, BlocksSigsys, Chosen, Exempt
    <2> QED
      BY <1>1, <1>2, <1>6, <2>1, <2>2 DEF LeftOut
  <1> QED
    BY <1>1, <1>2, <1>4, <1>5, <1>6, <1>7 DEF MainFrame, Ended, Untouched, Early, Late, Ruled

\* A delay is drawn for a call of the plan, within the plan's bound.
LEMMA MainDelay ==
    ASSUME Stacked, Started, stack # <<>>, Depth = 1, MainFrame(Top), Top.pc = "delay", Rest,
           UNCHANGED <<executed, slept>>, NEW f \in Frames, Delayed(f, Top)
    PROVE  MainFrame(f)'
  <1>1. /\ Asked' = Asked /\ Chosen' = Chosen /\ Covered' = Covered /\ PlanErrors' = PlanErrors
        /\ UNCHANGED <<app_call, status>>
    BY SamePlan DEF Rest, api, client
  <1>2. /\ Arguments(Top.regs, app_call) /\ Top.regs.RAX = app_call[1] /\ executed = <<>> /\ slept = 0
        /\ Top.delay = 0 /\ Top.delay_after = 0 /\ ~Top.drawn /\ Top.fail_with = NoError /\ Chosen
    BY DEF MainFrame, Untouched, Early, Ruled
  <1>3. Top.regs.RAX \in DOMAIN plan
    BY DEF Stacked, Undecided, Top
  <1>4. Outcome = ActiveOutcome(Asked) /\ Asked \in sysfail_syscall_outcome_t
    BY <1>2, <1>3, MainOutcome
  <1>5. Outcome.max_delay \in Nat /\ Outcome.max_delay = Asked.max_delay_usec
    BY <1>4, Converted, OutcomeShape
  <1>6. \A d \in Delays(Outcome) : d > 0 => d <= Asked.max_delay_usec
    BY <1>5, DelayRange
  <1>7. /\ Arguments(f.regs, app_call) /\ f.regs.RAX = app_call[1] /\ ~f.drawn /\ f.fail_with = NoError
        /\ f.pc \in {"sleep", "fail"} /\ (f.delay = 0 \/ f.delay_after = 0)
        /\ f.pc = "sleep" => f.delay_after = 0
        /\ f.delay > 0 => f.delay <= Asked.max_delay_usec
        /\ f.delay_after > 0 => f.delay_after <= Asked.max_delay_usec
    BY <1>2, <1>6 DEF Delayed
  <1> QED
    BY <1>1, <1>2, <1>7 DEF MainFrame, Untouched, Early, Late, Ruled

\* A call that fails does so with an error of the plan, or is executed first.
LEMMA MainFail ==
    ASSUME Stacked, Started, stack # <<>>, Depth = 1, MainFrame(Top), Top.pc = "fail", Rest,
           UNCHANGED <<executed, slept>>, NEW f \in Frames, Decided(f, Top, Given(Top.regs.RAX))
    PROVE  MainFrame(f)'
  <1>1. /\ Asked' = Asked /\ Chosen' = Chosen /\ Covered' = Covered /\ PlanErrors' = PlanErrors
        /\ UNCHANGED <<app_call, status>>
    BY SamePlan DEF Rest, api, client
  <1>2. /\ Arguments(Top.regs, app_call) /\ Top.regs.RAX = app_call[1] /\ executed = <<>>
        /\ ~Top.drawn /\ Top.fail_with = NoError /\ Chosen
        /\ (Top.delay = 0 \/ Top.delay_after = 0)
        /\ Top.delay > 0 => Top.delay <= Asked.max_delay_usec
        /\ Top.delay_after > 0 => Top.delay_after <= Asked.max_delay_usec
    BY DEF MainFrame, Untouched, Early, Ruled
  <1>3. Top.regs.RAX \in DOMAIN plan
    BY DEF Stacked, Undecided, Top
  <1>4. Given(Top.regs.RAX) = Asked /\ Asked \in sysfail_syscall_outcome_t
    BY <1>2, <1>3, MainOutcome
  <1>5. /\ Summed(Asked) = Covered /\ Values(Asked.error_wts, "nerror") = PlanErrors
        /\ Asked.fail.p \in Int /\ Denom \in Nat \ {0}
    BY <1>4, OutcomeShape, PlanAssumption DEF Summed, Covered, PlanErrors
  <1>6. CASE f.pc = "done"
    <2>1. PICK e \in PlanErrors : f.regs = [Top.regs EXCEPT !.RAX = -e]
      BY <1>4, <1>5, <1>6 DEF Decided
    <2>2. Arguments(f.regs, app_call) /\ f.regs.RAX = -e
      <3>1. Top.regs \in Regs
        BY TopShape, FrameShape
      <3> QED
        BY <1>2, <2>1, <3>1 DEF Arguments, Regs
    <2>3. f.drawn /\ Asked.fail.p # 0 /\ Asked.fail.after_bias < Denom
      BY <1>4, <1>5, <1>6 DEF Decided
    <2>4. FailedBefore(f)'
      BY <1>1, <1>2, <2>2, <2>3 DEF FailedBefore
    <2>5. f.delay = Top.delay /\ f.delay_after = Top.delay_after
      BY DEF Decided
    <2> QED
      BY <1>1, <1>2, <1>6, <2>2, <2>3, <2>4, <2>5 DEF MainFrame, Ended, Untouched, Early, Late, Ruled
  <1>7. CASE f.pc = "call"
    <2>1. /\ f.regs = Top.regs /\ f.delay = Top.delay /\ f.delay_after = Top.delay_after
      BY <1>7 DEF Decided
    <2>2. ~f.drawn => f.fail_with = NoError
      BY <1>2, <1>7 DEF Decided
    <2>3. FailDrawn(f)
      BY <1>2, <1>4, <1>5, <1>7 DEF Decided, FailDrawn
    <2>4. FailDrawn(f)'
      BY <1>1, <2>3 DEF FailDrawn
    <2> QED
      BY <1>1, <1>2, <1>7, <2>1, <2>2, <2>4 DEF MainFrame, Untouched, Early, Late, Ruled
  <1> QED
    BY <1>6, <1>7 DEF Decided

\* The kernel executes the application's call as it was made.
LEMMA MainContinue ==
    ASSUME Stacked, Started, stack # <<>>, Depth = 1, MainFrame(Top), Top.pc \in {"only", "call"}, Rest,
           executed' = Append(executed, Continued(Top.regs)), slept' = slept,
           NEW f \in Frames, f.regs = [Top.regs EXCEPT !.RAX = Ok],
           f.delay = Top.delay, f.delay_after = Top.delay_after,
           f.fail_with = Top.fail_with, f.drawn = Top.drawn,
           \/ Top.pc = "only" /\ f.pc = "done"
           \/ Top.pc = "call" /\ f.pc = "sleep_after"
    PROVE  MainFrame(f)' /\ executed = <<>> /\ executed' = <<app_call>>
  <1>1. /\ Asked' = Asked /\ Chosen' = Chosen /\ Covered' = Covered /\ PlanErrors' = PlanErrors
        /\ UNCHANGED <<app_call, status>>
    BY SamePlan DEF Rest, api, client
  <1>2. /\ Arguments(Top.regs, app_call) /\ Top.regs.RAX = app_call[1] /\ executed = <<>>
        /\ (Top.delay = 0 \/ Top.delay_after = 0)
        /\ Top.delay > 0 => Top.delay <= Asked.max_delay_usec
        /\ Top.delay_after > 0 => Top.delay_after <= Asked.max_delay_usec
        /\ ~Top.drawn => Top.fail_with = NoError
    BY DEF MainFrame, Early, Untouched
  <1>3. app_call \in [1 .. 7 -> Int]
    BY CSessionAssumption DEF Started
  <1>4. Continued(Top.regs) = app_call
    BY <1>2, <1>3, ContinuedAsCalled
  <1>5. executed' = <<app_call>>
    BY <1>2, <1>4
  <1>6. Arguments(f.regs, app_call) /\ f.regs.RAX = Ok
    <2>1. Top.regs \in Regs
      BY TopShape, FrameShape
    <2> QED
      BY <1>2, <2>1 DEF Arguments, Regs
  <1>7. CASE Top.pc = "only" /\ f.pc = "done"
    <2>1. /\ slept = 0 /\ Top.delay = 0 /\ Top.delay_after = 0 /\ ~Top.drawn
          /\ ~(Chosen /\ status = "on")
      BY <1>7 DEF MainFrame, Untouched, Early
    <2>2. PassedBy(f)'
      BY <1>1, <1>5, <1>6, <2>1 DEF PassedBy
    <2> QED
      BY <1>1, <1>2, <1>5, <1>6, <1>7, <2>1, <2>2 DEF MainFrame, Ended, Untouched, Early, Late, Ruled
  <1>8. CASE Top.pc = "call" /\ f.pc = "sleep_after"
    <2>1. Chosen /\ FailDrawn(Top)
      BY <1>8 DEF MainFrame, Ruled
    <2>2. FailDrawn(f)'
      BY <1>1, <2>1 DEF FailDrawn
    <2> QED
      BY <1>1, <1>2, <1>5, <1>6, <1>8, <2>1, <2>2 DEF MainFrame, Untouched, Early, Late, Ruled
  <1> QED
    BY <1>2, <1>5, <1>7, <1>8

\* The answer is the kernel's, or the error that was put off.
LEMMA MainFinish ==
    ASSUME Stacked, Started, stack # <<>>, Depth = 1, MainFrame(Top), Top.pc = "finish", Rest,
           UNCHANGED <<executed, slept>>,
           NEW f \in Frames, f.pc = "done",
           f.regs = [Top.regs EXCEPT !.RAX = IF Top.fail_with # NoError
                                             THEN -Top.fail_with ELSE Top.regs.RAX],
           f.delay = Top.delay, f.delay_after = Top.delay_after,
           f.fail_with = Top.fail_with, f.drawn = Top.drawn
    PROVE  MainFrame(f)'
  <1>1. /\ Asked' = Asked /\ Chosen' = Chosen /\ Covered' = Covered /\ PlanErrors' = PlanErrors
        /\ UNCHANGED <<app_call, status>>
    BY SamePlan DEF Rest, api, client
  <1>2. /\ Arguments(Top.regs, app_call) /\ Top.regs.RAX = Ok /\ executed = <<app_call>>
        /\ (Top.delay = 0 \/ Top.delay_after = 0)
        /\ Top.delay > 0 => Top.delay <= Asked.max_delay_usec
        /\ Top.delay_after > 0 => Top.delay_after <= Asked.max_delay_usec
        /\ ~Top.drawn => Top.fail_with = NoError
        /\ Chosen /\ FailDrawn(Top)
    BY DEF MainFrame, Late, Ruled
  <1>3. Top.regs \in Regs
    BY TopShape, FrameShape
  <1>4. Arguments(f.regs, app_call)
    BY <1>2, <1>3 DEF Arguments, Regs
  <1>5. f.regs.RAX = IF f.fail_with # NoError THEN -f.fail_with ELSE Ok
    BY <1>2, <1>3 DEF Regs
  <1>6. FailDrawn(f)'
    BY <1>1, <1>2 DEF FailDrawn
  <1>7. WentThrough(f)'
    BY <1>1, <1>2, <1>5, <1>6 DEF WentThrough
  <1> QED
    BY <1>1, <1>2, <1>4, <1>7 DEF MainFrame, Ended, Untouched, Early, Late, Ruled

\* A call that was slept on goes on.
LEMMA MainAwake ==
    ASSUME NEW f, NEW g, MainFrame(g), Sleeping(g), SamePast(f, g),
           g.pc = "sleep" => f.pc = "fail", g.pc = "sleep_after" => f.pc = "finish",
           UNCHANGED <<c_plan, caller, app_call, status, executed>>
    PROVE  MainFrame(f)'
  <1>1. /\ Asked' = Asked /\ Chosen' = Chosen /\ Covered' = Covered /\ PlanErrors' = PlanErrors
    BY SamePlan
  <1>2. /\ Arguments(g.regs, app_call) /\ Chosen
        /\ (g.delay = 0 \/ g.delay_after = 0)
        /\ g.delay > 0 => g.delay <= Asked.max_delay_usec
        /\ g.delay_after > 0 => g.delay_after <= Asked.max_delay_usec
        /\ ~g.drawn => g.fail_with = NoError
    BY DEF MainFrame, Late, Ruled, Sleeping
  <1>3. CASE g.pc = "sleep"
    <2>1. g.regs.RAX = app_call[1] /\ executed = <<>> /\ ~g.drawn
      BY <1>3 DEF MainFrame, Early
    <2> QED
      BY <1>1, <1>2, <1>3, <2>1 DEF MainFrame, Untouched, Early, Late, Ruled, SamePast
  <1>4. CASE g.pc = "sleep_after"
    <2>1. g.regs.RAX = Ok /\ executed = <<app_call>> /\ FailDrawn(g)
      BY <1>4 DEF MainFrame, Late
    <2>2. FailDrawn(f)'
      BY <1>1, <2>1 DEF FailDrawn, SamePast
    <2> QED
      BY <1>1, <1>2, <1>4, <2>1, <2>2 DEF MainFrame, Untouched, Early, Late, Ruled, SamePast
  <1> QED
    BY <1>3, <1>4 DEF Sleeping
-----------------------------------------------------------------------------
(* Steps of the handler: types and the application's call.                  *)

\* Replacing the innermost frame, when that is the application's or not.
LEMMA ReplacedMain ==
    ASSUME Stacked, Main, stack # <<>>, NEW f \in Frames, Become(f), Rest,
           Depth = 1 => MainFrame(f)', Depth # 1 => executed' = executed
    PROVE  Main'
  <1>1. /\ Len(stack') = Len(stack) /\ stack'[Len(stack)] = f
        /\ \A i \in 1 .. Len(stack) - 1 : stack'[i] = stack[i]
    BY Replaced
  <1>2. Depth \in Nat \ {0} /\ Depth = Len(stack)
    BY TopShape
  <1>3. CASE Depth = 1
    BY <1>1, <1>2, <1>3 DEF Main
  <1>4. CASE Depth # 1
    <2> DEFINE g == stack[1]
    <2>1. g.pc \in {"sleep", "sleep_after"} /\ stack'[1] = g /\ MainFrame(g)
      BY <1>1, <1>2, <1>4 DEF Stacked, Main, Sleeping
    <2>2. PICK h : h = g
      OBVIOUS
    <2>3. MainFrame(h)'
      BY <1>4, <2>1, <2>2, MainKept DEF Rest, api, client
    <2> QED
      BY <2>1, <2>2, <2>3 DEF Main
  <1> QED
    BY <1>3, <1>4

Safe == TypeOK /\ Stacked /\ Started /\ Main

\* The frame of the application's call is innermost when there is one frame.
LEMMA OneFrame ==
    ASSUME Stacked, Main, stack # <<>>, Depth = 1
    PROVE  MainFrame(Top)
  BY DEF Main, Top

\* handle_sigsys keeps the invariant.
LEMMA SafeSigsys == ASSUME Safe, handle_sigsys, Rest PROVE (TypeOK /\ Stacked /\ Main)'
  <1>0. TypeOK /\ Stacked /\ Started /\ Main
    BY DEF Safe
  <1>1. stack # <<>> /\ Top.pc = "sigsys" /\ UNCHANGED <<executed, slept>>
    BY <1>0, SigsysEffect
  <1>2. CASE UNCHANGED stack /\ aborted' = TRUE
    <2>1. Main'
      <3>1. PICK h : h = stack[1]
        OBVIOUS
      <3>2. MainFrame(h)'
        BY <1>0, <1>1, <3>1, MainKept DEF Main, Rest, api, client
      <3> QED
        BY <1>2, <3>1, <3>2 DEF Main
    <2>2. Frames' = Frames /\ Depth' = Depth
      BY <1>2, SameFrames DEF Rest, api, Depth
    <2>3. Stacked'
      BY <1>0, <1>2, <2>2 DEF Stacked, Rest, api
    <2>4. TypeOK'
      BY <1>0, <1>1, <1>2, <2>2 DEF TypeOK, Rest, api, members, client
    <2> QED
      BY <2>1, <2>3, <2>4
  <1>3. ASSUME UNCHANGED aborted, NEW f \in Frames, Become(f), SamePast(f, Top),
               \/ f.pc = "delay" /\ Planned /\ ~Aborts(Outcome.check) /\ eligible(Outcome.check, Top.regs)
               \/ f.pc = "only" /\ (Planned => ~Aborts(Outcome.check) /\ ~eligible(Outcome.check, Top.regs))
               \/ f.pc = "done" /\ Dropped
        PROVE  (TypeOK /\ Stacked /\ Main)'
    <2>1. f.pc \in Undecided => f.regs.RAX \in DOMAIN plan
      BY <1>3 DEF Undecided, SamePast, Planned
    <2>2. (TypeOK /\ Stacked)'
      BY <1>0, <1>1, <1>3, <2>1, ReplacedTypes DEF SamePast, TypeOK
    <2>3. Depth = 1 => MainFrame(f)'
      BY <1>0, <1>1, <1>3, OneFrame, MainSigsys
    <2> QED
      BY <1>0, <1>1, <1>3, <2>2, <2>3, ReplacedMain
  <1> QED
    BY <1>0, <1>2, <1>3, SigsysEffect

\* Delay keeps the invariant.
LEMMA SafeDelay == ASSUME Safe, Delay, Rest PROVE (TypeOK /\ Stacked /\ Main)'
  <1>0. TypeOK /\ Stacked /\ Started /\ Main
    BY DEF Safe
  <1>1. stack # <<>> /\ Top.pc = "delay" /\ UNCHANGED <<executed, slept, aborted>>
    BY <1>0, DelayEffect
  <1>2. PICK f \in Frames : Become(f) /\ Delayed(f, Top)
    BY <1>0, DelayEffect
  <1>3. f.regs.RDI = Top.regs.RDI /\ f.regs.RAX \in DOMAIN plan
    BY <1>0, <1>1, <1>2, TopShape DEF Delayed, Stacked, Undecided, Top
  <1>4. (TypeOK /\ Stacked)'
    BY <1>0, <1>1, <1>2, <1>3, ReplacedTypes DEF TypeOK
  <1>5. Depth = 1 => MainFrame(f)'
    BY <1>0, <1>1, <1>2, OneFrame, MainDelay
  <1> QED
    BY <1>0, <1>1, <1>2, <1>4, <1>5, ReplacedMain

\* Fail keeps the invariant.
LEMMA SafeFail == ASSUME Safe, Fail, Rest PROVE (TypeOK /\ Stacked /\ Main)'
  <1>0. TypeOK /\ Stacked /\ Started /\ Main
    BY DEF Safe
  <1>1. stack # <<>> /\ Top.pc = "fail" /\ UNCHANGED <<executed, slept, aborted>>
    BY <1>0, FailEffect
  <1>2. PICK f \in Frames : Become(f) /\ Decided(f, Top, Given(Top.regs.RAX))
    BY <1>0, FailEffect
  <1>3. f.regs.RDI = Top.regs.RDI /\ f.pc \notin Undecided
    <2>1. Top.regs \in Regs
      BY <1>0, <1>1, TopShape, FrameShape
    <2> QED
      BY <1>2, <2>1 DEF Decided, Undecided, Regs
  <1>4. (TypeOK /\ Stacked)'
    BY <1>0, <1>1, <1>2, <1>3, ReplacedTypes DEF TypeOK
  <1>5. Depth = 1 => MainFrame(f)'
    BY <1>0, <1>1, <1>2, OneFrame, MainFail
  <1> QED
    BY <1>0, <1>1, <1>2, <1>4, <1>5, ReplacedMain

\* continue_syscall keeps the invariant.
LEMMA SafeContinue == ASSUME Safe, continue_syscall, Rest PROVE (TypeOK /\ Stacked /\ Main)'
  <1>0. TypeOK /\ Stacked /\ Started /\ Main
    BY DEF Safe
  <1>1. /\ stack # <<>> /\ Top.pc \in {"only", "call"} /\ UNCHANGED aborted
        /\ Depth = 1 => executed' = Append(executed, Continued(Top.regs)) /\ slept' = slept
        /\ Depth # 1 => executed' = executed /\ slept' = slept + Top.regs.RDI
    BY <1>0, ContinueEffect
  <1>2. PICK f \in Frames :
          /\ Become(f) /\ f.regs = [Top.regs EXCEPT !.RAX = Ok]
          /\ f.delay = Top.delay /\ f.delay_after = Top.delay_after
          /\ f.fail_with = Top.fail_with /\ f.drawn = Top.drawn
          /\ \/ Top.pc = "only" /\ f.pc = "done"
             \/ Top.pc = "call" /\ f.pc = "sleep_after"
    BY <1>0, ContinueEffect
  <1>3. f.regs.RDI = Top.regs.RDI /\ f.pc \notin Undecided
    <2>1. Top.regs \in Regs
      BY <1>0, <1>1, TopShape, FrameShape
    <2> QED
      BY <1>2, <2>1 DEF Undecided, Regs
  <1>4. Depth = 1 => MainFrame(f)' /\ executed' = <<app_call>>
    BY <1>0, <1>1, <1>2, OneFrame, MainContinue
  <1>5. slept' \in Nat /\ executed' \in {<<>>} \cup {<<c>> : c \in Calls}
    <2>1. slept \in Nat /\ executed \in {<<>>} \cup {<<c>> : c \in Calls} /\ app_call \in Calls
      BY <1>0, <1>1 DEF TypeOK, Started
    <2>2. CASE Depth = 1
      BY <1>1, <1>4, <2>1, <2>2
    <2>3. CASE Depth # 1
      <3>1. Depth \in Nat \ {0}
        BY <1>0, <1>1, TopShape
      <3>2. Top.regs.RDI \in Nat
        BY <1>0, <2>3, <3>1 DEF Stacked, Top
      <3> QED
        BY <1>1, <2>1, <2>3, <3>2
    <2> QED
      BY <2>2, <2>3
  <1>6. aborted' \in BOOLEAN
    BY <1>0, <1>1 DEF TypeOK
  <1>7. (TypeOK /\ Stacked)'
    BY <1>0, <1>1, <1>2, <1>3, <1>5, <1>6, ReplacedTypes
  <1> QED
    BY <1>0, <1>1, <1>2, <1>4, <1>7, ReplacedMain

\* Finish keeps the invariant.
LEMMA SafeFinish == ASSUME Safe, Finish, Rest PROVE (TypeOK /\ Stacked /\ Main)'
  <1>0. TypeOK /\ Stacked /\ Started /\ Main
    BY DEF Safe
  <1>1. stack # <<>> /\ Top.pc = "finish" /\ UNCHANGED <<executed, slept, aborted>>
    BY <1>0, FinishEffect
  <1>2. PICK f \in Frames :
          /\ Become(f) /\ f.pc = "done"
          /\ f.regs = [Top.regs EXCEPT !.RAX = IF Top.fail_with # NoError
                                               THEN -Top.fail_with ELSE Top.regs.RAX]
          /\ f.delay = Top.delay /\ f.delay_after = Top.delay_after
          /\ f.fail_with = Top.fail_with /\ f.drawn = Top.drawn
    BY <1>0, FinishEffect
  <1>3. f.regs.RDI = Top.regs.RDI /\ f.pc \notin Undecided
    <2>1. Top.regs \in Regs
      BY <1>0, <1>1, TopShape, FrameShape
    <2> QED
      BY <1>2, <2>1 DEF Undecided, Regs
  <1>4. (TypeOK /\ Stacked)'
    BY <1>0, <1>1, <1>2, <1>3, ReplacedTypes DEF TypeOK
  <1>5. Depth = 1 => MainFrame(f)'
    BY <1>0, <1>1, <1>2, OneFrame, MainFinish
  <1> QED
    BY <1>0, <1>1, <1>2, <1>4, <1>5, ReplacedMain

\* A step of the handler that leaves a stack of frames keeps the types.
LEMMA StackTypes ==
    ASSUME TypeOK, Rest, stack' \in Seq(Frames), Len(stack') <= MaxDepth,
           UNCHANGED <<executed, slept, aborted>>
    PROVE  TypeOK'
  <1>1. Depth' = Len(stack') /\ Len(stack') \in Nat
    BY DEF Depth
  <1>2. \A i \in 1 .. Len(stack') : stack'[i] \in Frames
    OBVIOUS
  <1>3. \A i \in 1 .. Len(stack') :
          /\ stack'[i].pc \in Pcs
          /\ stack'[i].delay \in IntRange /\ stack'[i].delay_after \in IntRange
    BY <1>2, FrameShape
  <1> QED
    BY <1>1, <1>3 DEF Rest, api, members, client, TypeOK, Pcs, IntRange

\* The call of a sleep that traps.
LEMMA Pushed ==
    ASSUME Stacked, stack # <<>>, Duration(Top) > 0,
           stack' = Append(stack, Frame(<<SYS_nanosleep, Duration(Top), 0, 0, 0, 0, 0>>, Address("libc")))
    PROVE  LET g == stack'[Depth + 1]
           IN  /\ stack' \in Seq(Frames) /\ Len(stack') = Depth + 1 /\ stack' # <<>>
               /\ \A i \in 1 .. Depth : stack'[i] = stack[i]
               /\ g.pc = "sigsys" /\ g.regs.RAX = SYS_nanosleep
               /\ g.regs.RDI = Duration(Top) /\ g.regs.RDI \in Nat
               /\ g.delay = 0 /\ g.delay_after = 0 /\ g.fail_with = NoError
  <1>1. Depth \in Nat \ {0} /\ Depth = Len(stack) /\ Top \in Frames /\ stack \in Seq(Frames)
    BY TopShape DEF Stacked
  <1>2. Duration(Top) \in Int /\ SYS_nanosleep \in Int
    BY <1>1, FrameShape, FailMaybeAssumption
  <1> DEFINE c == <<SYS_nanosleep, Duration(Top), 0, 0, 0, 0, 0>>
             n == Frame(c, Address("libc"))
  <1>3. c \in [1 .. 7 -> Int] /\ c[1] = SYS_nanosleep /\ c[2] = Duration(Top)
    BY <1>2
  <1> HIDE DEF c
  <1>4. /\ n \in Frames /\ n.pc = "sigsys" /\ n.regs.RAX = SYS_nanosleep /\ n.regs.RDI = Duration(Top)
        /\ n.delay = 0 /\ n.delay_after = 0 /\ n.fail_with = NoError
    BY <1>3, NewFrame
  <1>5. stack' = Append(stack, n)
    BY DEF c
  <1> HIDE DEF n
  <1>6. /\ stack' \in Seq(Frames) /\ Len(stack') = Depth + 1
        /\ \A i \in 1 .. Depth : stack'[i] = stack[i]
        /\ stack'[Depth + 1] = n
    BY <1>1, <1>4, <1>5
  <1>7. stack' # <<>>
    BY <1>1, <1>6
  <1>8. Duration(Top) \in Nat
    BY <1>2
  <1> QED
    BY <1>4, <1>6, <1>7, <1>8

\* The application's frame stays the same while it sleeps.
LEMMA MainSame ==
    ASSUME Stacked, Main, stack # <<>>, stack' # <<>>, stack'[1] = stack[1], Rest,
           UNCHANGED <<executed, slept>>
    PROVE  Main'
  <1>1. PICK h : h = stack[1]
    OBVIOUS
  <1>2. MainFrame(h)'
    BY <1>1, MainKept DEF Main, Rest, api, client
  <1> QED
    BY <1>1, <1>2 DEF Main

\* sleep keeps the invariant, whether it traps or not.
LEMMA SafeSleep == ASSUME Safe, sleep, Rest PROVE (TypeOK /\ Stacked /\ Main)'
  <1>0. TypeOK /\ Stacked /\ Started /\ Main
    BY DEF Safe
  <1>1. stack # <<>> /\ Sleeping(Top) /\ UNCHANGED <<executed, aborted>>
    BY <1>0, SleepEffect
  <1>2. Top \in Frames /\ Depth \in Nat \ {0} /\ Depth = Len(stack) /\ stack \in Seq(Frames)
        /\ Duration(Top) \in Int /\ slept \in Nat /\ MaxDepth \in Nat
    BY <1>0, <1>1, TopShape, FrameShape, FailMaybeAssumption DEF Stacked, TypeOK
  <1>3. ASSUME Become(Awake(Top)), slept' \in Nat
        PROVE  (TypeOK /\ Stacked /\ Main)'
    <2>1. PICK f \in Frames : f = Awake(Top)
      BY <1>1, <1>2, AwakeFrame
    <2>2. /\ Become(f) /\ SamePast(f, Top)
          /\ Top.pc = "sleep" => f.pc = "fail"
          /\ Top.pc = "sleep_after" => f.pc = "finish"
      BY <1>1, <1>2, <1>3, <2>1, AwakeFrame
    <2>3. f.pc \in Undecided => f.regs.RAX \in DOMAIN plan
      <3>1. Top.pc \in Undecided => Top.regs.RAX \in DOMAIN plan
        BY <1>0, <1>2 DEF Stacked, Top
      <3> QED
        BY <1>1, <2>2, <3>1 DEF Undecided, SamePast, Sleeping
    <2>4. (TypeOK /\ Stacked)'
      BY <1>0, <1>1, <1>3, <2>2, <2>3, ReplacedTypes DEF SamePast, TypeOK
    <2>5. ASSUME Depth = 1 PROVE MainFrame(f)'
      <3>1. MainFrame(Top)
        BY <1>0, <1>1, <2>5, OneFrame
      <3>2. PICK g : g = Top
        OBVIOUS
      <3> QED
        BY <1>1, <2>2, <3>1, <3>2, MainAwake DEF Rest, api, client
    <2> QED
      BY <1>0, <1>1, <2>2, <2>4, <2>5, ReplacedMain
  <1>4. ASSUME Duration(Top) > 0, Depth < MaxDepth, slept' = slept,
               stack' = Append(stack, Frame(<<SYS_nanosleep, Duration(Top), 0, 0, 0, 0, 0>>, Address("libc")))
        PROVE  (TypeOK /\ Stacked /\ Main)'
    <2>1. /\ stack' \in Seq(Frames) /\ Len(stack') = Depth + 1 /\ stack' # <<>>
          /\ \A i \in 1 .. Depth : stack'[i] = stack[i]
          /\ stack'[Depth + 1].pc = "sigsys" /\ stack'[Depth + 1].regs.RDI \in Nat
      BY <1>0, <1>1, <1>4, Pushed
    <2>2. TypeOK'
      BY <1>0, <1>1, <1>2, <1>4, <2>1, StackTypes
    <2>3. Main'
      BY <1>0, <1>1, <1>2, <1>4, <2>1, MainSame
    <2>4. Depth' = Depth + 1 /\ c_plan' = c_plan /\ plan' = plan /\ Frames' = Frames
      BY <2>1, SameFrames DEF Depth, Rest, api
    <2>5. ASSUME NEW i \in 2 .. Depth + 1 PROVE stack'[i].regs.RDI \in Nat
      <3>1. CASE i = Depth + 1
        BY <2>1, <3>1
      <3>2. CASE i # Depth + 1
        BY <1>0, <1>2, <2>1, <3>2 DEF Stacked
      <3> QED
        BY <3>1, <3>2
    <2>6. ASSUME NEW i \in 1 .. Depth + 1, stack'[i].pc \in Undecided PROVE stack'[i].regs.RAX \in DOMAIN plan
      BY <1>0, <1>2, <2>1, <2>6 DEF Stacked, Undecided
    <2>7. ASSUME NEW i \in 1 .. Depth PROVE Sleeping(stack'[i]) /\ Duration(stack'[i]) > 0
      <3>1. CASE i = Depth
        BY <1>1, <1>4, <2>1, <3>1 DEF Top
      <3>2. CASE i # Depth
        BY <1>0, <1>2, <2>1, <3>2 DEF Stacked
      <3> QED
        BY <3>1, <3>2
    <2>8. Stacked'
      BY <1>0, <1>2, <2>1, <2>4, <2>5, <2>6, <2>7 DEF Stacked
    <2> QED
      BY <2>2, <2>3, <2>8
  <1> QED
    BY <1>0, <1>2, <1>3, <1>4, SleepEffect

\* Returning from a sleep that trapped keeps the invariant.
LEMMA SafeWake == ASSUME Safe, Wake, Rest PROVE (TypeOK /\ Stacked /\ Main)'
  <1>0. TypeOK /\ Stacked /\ Started /\ Main
    BY DEF Safe
  <1>1. /\ Depth \in Nat /\ Depth > 1 /\ UNCHANGED <<executed, slept, aborted>>
        /\ Sleeping(stack[Depth - 1]) /\ Duration(stack[Depth - 1]) > 0
        /\ Len(stack') = Depth - 1 /\ stack' \in Seq(Frames) /\ stack' # <<>>
        /\ \A i \in 1 .. Depth - 2 : stack'[i] = stack[i]
        /\ stack'[Depth - 1] = IF Interrupted(Top.regs.RAX) THEN stack[Depth - 1]
                                                            ELSE Awake(stack[Depth - 1])
    BY <1>0, WakeEffect
  <1>2. stack # <<>> /\ Depth = Len(stack) /\ stack \in Seq(Frames) /\ MaxDepth \in Nat
    BY <1>0, <1>1, FailMaybeAssumption DEF Depth, Stacked
  <1> DEFINE g == stack[Depth - 1]
             f == stack'[Depth - 1]
  <1>3. /\ f = g \/ /\ SamePast(f, g)
                    /\ g.pc = "sleep" => f.pc = "fail"
                    /\ g.pc = "sleep_after" => f.pc = "finish"
        /\ Sleeping(g)
    <2>1. g \in Frames
      BY <1>1, <1>2
    <2> QED
      BY <1>1, <2>1, AwakeFrame
  <1>4. TypeOK'
    <2>1. Depth <= MaxDepth
      BY <1>0 DEF TypeOK
    <2> QED
      BY <1>0, <1>1, <1>2, <2>1, StackTypes
  <1>5. Depth' = Depth - 1 /\ c_plan' = c_plan /\ plan' = plan /\ Frames' = Frames
    BY <1>1, SameFrames DEF Depth, Rest, api
  <1>6. f.regs = g.regs
    BY <1>3 DEF SamePast
  <1>7. f.pc \in Undecided => f.regs.RAX \in DOMAIN plan
    <2>1. g.pc \in Undecided => g.regs.RAX \in DOMAIN plan
      BY <1>0, <1>1 DEF Stacked
    <2> QED
      BY <1>3, <1>6, <2>1 DEF Undecided, SamePast, Sleeping
  <1>8. Stacked'
    <2>1. ASSUME NEW i \in 2 .. Depth - 1 PROVE stack'[i].regs.RDI \in Nat
      <3>1. stack[i].regs.RDI \in Nat
        <4>1. i \in 2 .. Depth
          BY <1>1
        <4> QED
          BY <1>0, <4>1 DEF Stacked
      <3>2. stack'[i] = stack[i] \/ (stack'[i] = f /\ stack[i] = g)
        BY <1>1
      <3> QED
        BY <1>6, <3>1, <3>2
    <2>2. ASSUME NEW i \in 1 .. Depth - 1, stack'[i].pc \in Undecided PROVE stack'[i].regs.RAX \in DOMAIN plan
      BY <1>0, <1>1, <1>7, <2>2 DEF Stacked
    <2>3. ASSUME NEW i \in 1 .. Depth - 2 PROVE Sleeping(stack'[i]) /\ Duration(stack'[i]) > 0
      BY <1>0, <1>1 DEF Stacked
    <2> QED
      BY <1>0, <1>1, <1>5, <2>1, <2>2, <2>3 DEF Stacked
  <1>9. Main'
    <2>1. CASE Depth = 2 /\ f # g
      <3>1. MainFrame(g) /\ g = stack[1] /\ f = stack'[1]
        BY <1>0, <1>2, <2>1 DEF Main
      <3>2. PICK x : x = f
        OBVIOUS
      <3>3. PICK y : y = g
        OBVIOUS
      <3>4. MainFrame(x)'
        BY <1>1, <1>3, <2>1, <3>1, <3>2, <3>3, MainAwake DEF Rest, api, client
      <3> QED
        BY <3>1, <3>2, <3>4 DEF Main
    <2>2. CASE Depth # 2 \/ f = g
      <3>1. stack'[1] = stack[1]
        BY <1>1, <2>2
      <3> QED
        BY <1>0, <1>1, <1>2, <3>1, MainSame
    <2> QED
      BY <2>1, <2>2
  <1> QED
    BY <1>4, <1>8, <1>9

\* Every step of the handler keeps the application's call on its way.
LEMMA SafeHandler == ASSUME Safe, Handler PROVE Safe'
  <1>1. Rest /\ TrapStep
    BY DEF Handler, Rest
  <1>2. (TypeOK /\ Stacked /\ Main)'
    BY <1>1, SafeSigsys, SafeDelay, SafeFail, SafeContinue, SafeFinish, SafeSleep, SafeWake DEF TrapStep
  <1>3. stack # <<>>
    <2>1. Stacked /\ Started
      BY DEF Safe
    <2>2. ASSUME Wake PROVE stack # <<>>
      BY <2>2 DEF Wake, At
    <2> QED
      BY <1>1, <2>1, <2>2, SigsysEffect, DelayEffect, FailEffect, ContinueEffect, FinishEffect, SleepEffect
      DEF TrapStep
  <1>4. Started'
    BY <1>1, <1>3 DEF Safe, Started, Rest, api, members, client
  <1> QED
    BY <1>2, <1>4 DEF Safe
-----------------------------------------------------------------------------
(* Steps of the application and of the session.                             *)

\* What a step that leaves the trapped call alone leaves of it.
Aside == UNCHANGED <<c_plan, maps, stack, executed, slept, aborted, caller, app_call, answer>>

\* Such a step keeps the trapped call as it is.
LEMMA SafeAside ==
    ASSUME Stacked, Main, Aside, status' = "on" => status = "on" \/ stack = <<>>,
           plan' = plan \/ stack = <<>>
    PROVE  (Stacked /\ Main)'
  <1>1. Frames' = Frames /\ Depth' = Depth
    BY SameFrames DEF Aside, Depth
  <1>2. Stacked'
    <2>1. CASE plan' = plan
      BY <1>1, <2>1 DEF Stacked, Aside
    <2>2. CASE stack = <<>>
      <3>1. Depth = 0
        BY <2>2 DEF Depth
      <3> QED
        BY <1>1, <2>2, <3>1 DEF Stacked, Aside
    <2> QED
      BY <2>1, <2>2
  <1>3. Main'
    <2>1. CASE stack = <<>>
      BY <2>1 DEF Main, Aside
    <2>2. CASE stack # <<>>
      <3>1. PICK h : h = stack[1]
        OBVIOUS
      <3>2. MainFrame(h)'
        BY <2>2, <3>1, MainKept DEF Main, Aside
      <3> QED
        BY <3>1, <3>2 DEF Main, Aside
    <2> QED
      BY <2>1, <2>2
  <1> QED
    BY <1>2, <1>3

\* Types of what such a step changes.
LEMMA TypesAside ==
    ASSUME TypeOK, Aside, status' \in {"off", "on", "stopped", "null", "threw", "asserted"},
           threads' \in SUBSET Thd, known' \in SUBSET Thd, injected' \in SUBSET Thd
    PROVE  TypeOK'
  BY DEF TypeOK, Aside, Depth

\* sysfail_start keeps the invariant, also when it fails.
LEMMA SafeStart == ASSUME Safe, sysfail_start PROVE Safe'
  <1>0. TypeOK /\ Stacked /\ Started /\ Main
    BY DEF Safe
  <1>1. Aside /\ status = "off" /\ UNCHANGED threads
    BY DEF sysfail_start, Aside, client, trap
  <1>2. stack = <<>> /\ injected = {} /\ plan = <<>>
    BY <1>0, <1>1 DEF Started
  <1>3. (Stacked /\ Main)'
    BY <1>0, <1>1, <1>2, SafeAside
  <1>4. TypeOK'
    BY <1>0, <1>1, TypesAside DEF sysfail_start, Present, TypeOK
  <1>5. Started'
    <2>1. stack' = <<>> /\ (caller' = NoThd => executed' = <<>> /\ slept' = 0)
      BY <1>0, <1>1, <1>2 DEF Started, Aside
    <2>2. CASE status' = "on" /\ c_plan # NULL /\ plan' = ActivePlan(c_plan) /\ Present(threads)
      BY <1>1, <1>2, <2>1, <2>2 DEF Started, Present, Aside
    <2>3. CASE status' \in {"null", "threw", "asserted"} /\ UNCHANGED <<plan, injected>>
      BY <1>1, <1>2, <2>1, <2>3 DEF Started
    <2> QED
      BY <2>2, <2>3 DEF sysfail_start
  <1> QED
    BY <1>3, <1>4, <1>5 DEF Safe

\* The functions of the session keep the invariant while a call is trapped.
LEMMA SafeSession ==
    ASSUME Safe,
           \/ stop \/ discover_threads \/ poll
           \/ \E t \in Thd : add_thread(t) \/ remove_thread(t) \/ Spawn(t)
    PROVE  Safe'
  <1>0. TypeOK /\ Stacked /\ Started /\ Main
    BY DEF Safe
  <1>1. Aside /\ plan' = plan /\ status = "on" /\ status' \in {"on", "stopped"}
    BY DEF stop, discover_threads, poll, add_thread, remove_thread, Spawn, Op, Aside, api, client, trap
  <1>2. (Stacked /\ Main)'
    BY <1>0, <1>1, SafeAside
  <1>3. /\ threads' \in SUBSET Thd /\ known' \in SUBSET Thd /\ injected' \in SUBSET Thd
        /\ status' # "on" => injected' = {}
        /\ \A t \in injected' : t \in injected \/ selector(c_plan, t)
    BY <1>0, <1>1 DEF TypeOK, stop, discover_threads, poll, add_thread, remove_thread, Spawn, Present, api
  <1>4. TypeOK'
    BY <1>0, <1>1, <1>3, TypesAside
  <1>5. Started'
    BY <1>0, <1>1, <1>3 DEF Started, Aside
  <1> QED
    BY <1>2, <1>4, <1>5 DEF Safe

\* A call of the application, trapped or not, establishes its frame.
LEMMA SafeCall == ASSUME Safe, NEW t \in Thd, NEW c \in Calls, Call(t, c) PROVE Safe'
  <1>0. TypeOK /\ Stacked /\ Started /\ Main
    BY DEF Safe
  <1>1. /\ caller = NoThd /\ caller' = t /\ app_call' = c /\ t # NoThd
        /\ UNCHANGED <<api, members, slept, aborted>>
    BY CSessionAssumption DEF Call
  <1>2. stack = <<>> /\ executed = <<>> /\ slept = 0
    BY <1>0, <1>1 DEF Started
  <1>3. c \in [1 .. 7 -> Int] /\ Frames' = Frames
    BY <1>1, CSessionAssumption, SameFrames DEF api
  <1>4. CASE Traps(t, Address("app")) /\ stack' = <<Frame(c, Address("app"))>> /\ UNCHANGED <<executed, answer>>
    <2> DEFINE f == Frame(c, Address("app"))
    <2>1. /\ f \in Frames /\ f.regs.RAX = c[1] /\ Arguments(f.regs, c) /\ f.pc = "sigsys" /\ ~f.drawn
          /\ f.delay = 0 /\ f.delay_after = 0 /\ f.fail_with = NoError
      BY <1>3, NewFrame
    <2>2. PICK g \in Frames : g = f
      BY <2>1
    <2>3. stack' = <<g>>
      BY <1>4, <2>2
    <2> HIDE DEF f
    <2>4. Depth' = 1 /\ stack'[1] = g /\ stack' # <<>> /\ stack' \in Seq(Frames)
      BY <2>3 DEF Depth
    <2>5. MainFrame(g)'
      BY <1>1, <1>2, <1>4, <2>1, <2>2 DEF MainFrame, Untouched, Early, Late, Ruled
    <2>6. Main'
      BY <2>4, <2>5 DEF Main
    <2>7. Stacked'
      <3>1. c_plan' \in CPlans
        BY <1>0, <1>1 DEF Stacked, api
      <3>2. \A i \in 1 .. 1 : stack'[i].pc \notin Undecided
        BY <2>1, <2>2, <2>4 DEF Undecided
      <3> QED
        BY <1>3, <2>4, <3>1, <3>2 DEF Stacked
    <2>8. TypeOK'
      <3>1. g.pc \in Pcs /\ g.delay \in IntRange /\ g.delay_after \in IntRange
        BY FrameShape
      <3>2. 1 <= MaxDepth
        BY FailMaybeAssumption
      <3> QED
        BY <1>0, <1>1, <1>4, <2>4, <3>1, <3>2 DEF TypeOK, api, members, Pcs, IntRange
    <2>9. Started'
      <3>1. status = "on" /\ selector(c_plan, t)
        BY <1>0, <1>4 DEF Traps, Started
      <3> QED
        BY <1>0, <1>1, <3>1 DEF Started, api, members
    <2> QED
      BY <2>6, <2>7, <2>8, <2>9 DEF Safe
  <1>5. CASE executed' = <<c>> /\ answer' = Ok /\ UNCHANGED stack
    <2>1. stack' = <<>> /\ Depth' = 0
      BY <1>2, <1>5 DEF Depth
    <2>2. Stacked' /\ Main'
      BY <1>0, <1>1, <1>3, <2>1 DEF Stacked, Main, api
    <2>3. TypeOK'
      <3>1. Ok \in Int /\ 0 <= MaxDepth
        BY FailMaybeAssumption
      <3> QED
        BY <1>0, <1>1, <1>5, <2>1, <3>1 DEF TypeOK, api, members
    <2>4. Started'
      BY <1>0, <1>1, <2>1 DEF Started, api, members
    <2> QED
      BY <2>2, <2>3, <2>4 DEF Safe
  <1> QED
    BY <1>4, <1>5 DEF Call

\* Returning to the application keeps the invariant.
LEMMA SafeRestore == ASSUME Safe, sysfail_restore PROVE Safe'
  <1>0. TypeOK /\ Stacked /\ Started /\ Main
    BY DEF Safe
  <1>1. /\ stack # <<>> /\ answer' = Top.regs.RAX /\ stack' = <<>>
        /\ UNCHANGED <<api, members, caller, app_call, executed, slept, aborted>>
    BY DEF sysfail_restore, At
  <1>2. Frames' = Frames /\ Depth' = 0
    BY <1>1, SameFrames DEF api, Depth
  <1>3. Stacked' /\ Main'
    BY <1>0, <1>1, <1>2 DEF Stacked, Main, api
  <1>4. answer' \in Int /\ 0 <= MaxDepth
    BY <1>0, <1>1, TopShape, FrameShape, FailMaybeAssumption
  <1>5. TypeOK'
    BY <1>0, <1>1, <1>2, <1>4 DEF TypeOK, api, members
  <1>6. Started'
    BY <1>0, <1>1 DEF Started, api, members
  <1> QED
    BY <1>3, <1>5, <1>6 DEF Safe

\* The invariant holds initially.
LEMMA SafeInit == Init => Safe
  <1> SUFFICES ASSUME Init PROVE Safe
    OBVIOUS
  <1>1. Depth = 0 /\ 0 <= MaxDepth /\ <<>> \in Seq(Frames)
    BY FailMaybeAssumption DEF Init, Depth
  <1>2. TypeOK
    <2>1. \A i \in 1 .. 0 : FALSE
      OBVIOUS
    <2>2. threads \in SUBSET Thd /\ known \in SUBSET Thd /\ injected \in SUBSET Thd
      BY DEF Init
    <2>3. answer \in Int /\ slept \in Nat /\ Depth <= MaxDepth
      BY <1>1 DEF Init, NoAnswer
    <2>5. aborted \in BOOLEAN
      BY Zenon DEF Init
    <2>4. /\ caller \in Thd \cup {NoThd} /\ app_call \in Calls \cup {<<>>}
          /\ executed \in {<<>>} \cup {<<c>> : c \in Calls}
          /\ status \in {"off", "on", "stopped", "null", "threw", "asserted"}
      BY DEF Init
    <2> QED
      BY <1>1, <2>1, <2>2, <2>3, <2>4, <2>5 DEF TypeOK
  <1>3. Stacked /\ Main
    BY <1>1 DEF Init, Stacked, Main
  <1>4. Started
    BY DEF Init, Started
  <1> QED
    BY <1>2, <1>3, <1>4 DEF Safe

\* Every step keeps the invariant.
LEMMA SafeNext == Safe /\ [Next]_vars => Safe'
  <1> SUFFICES ASSUME Safe, [Next]_vars PROVE Safe'
    OBVIOUS
  <1>1. CASE UNCHANGED vars
    <2>1. Aside /\ UNCHANGED <<plan, status, threads, known, injected>>
      BY <1>1 DEF vars, api, members, client, trap, Aside
    <2>2. (Stacked /\ Main)'
      BY <2>1, SafeAside DEF Safe
    <2>3. TypeOK'
      BY <2>1, TypesAside DEF Safe, TypeOK
    <2>4. Started'
      BY <2>1 DEF Safe, Started, Aside
    <2> QED
      BY <2>2, <2>3, <2>4 DEF Safe
  <1> QED
    BY <1>1, SafeStart, SafeSession, SafeCall, SafeHandler, SafeRestore DEF Next
-----------------------------------------------------------------------------
(* Theorems.                                                                *)

\* The invariant holds throughout.
LEMMA Invariance == Spec => []Safe
  BY SafeInit, SafeNext, PTL DEF Spec

\* The variables keep their types, through any nesting of calls in the handler
\* and whatever threads are added, removed or created meanwhile.
THEOREM TypeCorrect == Spec => []TypeOK
  <1>1. Safe => TypeOK
    BY DEF Safe
  <1> QED
    BY <1>1, Invariance, PTL

\* What is known of the application's call when it is about to be answered.
LEMMA AtTheEnd ==
    ASSUME Safe, Finishing
    PROVE  /\ Top \in Frames /\ MainFrame(Top)
           /\ Ended(Top)
           /\ Ok \in Nat /\ NoError = 0
           /\ Chosen => Asked \in sysfail_syscall_outcome_t /\ PlanErrors \in SUBSET (Nat \ {0})
  <1>1. Stacked /\ Started /\ Main /\ Depth = 1 /\ Top.pc = "done"
    BY DEF Safe, Finishing
  <1>2. stack # <<>>
    BY <1>1 DEF Depth
  <1>3. Top \in Frames /\ MainFrame(Top)
    BY <1>1, <1>2, TopShape, OneFrame
  <1>4. Ended(Top)
    BY <1>1, <1>3 DEF MainFrame
  <1>5. ASSUME Chosen PROVE Asked \in sysfail_syscall_outcome_t /\ PlanErrors \in SUBSET (Nat \ {0})
    <2>1. c_plan \in CPlans /\ c_plan # NULL /\ plan = ActivePlan(c_plan)
      BY <1>1, <1>2 DEF Stacked, Started
    <2>2. app_call[1] \in DOMAIN plan
      BY <1>5, <2>1 DEF Chosen, ActivePlan
    <2>3. Asked \in sysfail_syscall_outcome_t
      BY <2>1, <2>2, PlanEntry DEF Given, Asked
    <2>4. 0 \in Draw
      BY PlanAssumption DEF Draw
    <2>5. Values(Asked.error_wts, "nerror") \in SUBSET (Nat \ {0})
      BY <2>3, <2>4, OutcomeErrors
    <2> QED
      BY <2>3, <2>5 DEF PlanErrors
  <1> QED
    BY <1>3, <1>4, <1>5, FailMaybeAssumption DEF NoError

\* Calls the plan is not about present no error and are not delayed, and but for
\* mask changes that leave SIGSYS alone they are executed and answered by the
\* kernel; calls it is about fail or not as its probabilities of 0 and 1 say,
\* with an error of the plan (sysfail_start, invp::p, sysfail_syscall_arg,
\* handle_sigsys, fail_maybe).
THEOREM FollowsPlan == Spec => []OutcomeAsPlanned
  <1>1. ASSUME Safe, Finishing
        PROVE  /\ ~Chosen => Top.regs.RAX >= 0 /\ slept = 0
               /\ ~Chosen /\ ~MasksOthers => Top.regs.RAX = Ok /\ executed = <<app_call>>
               /\ Chosen /\ Asked.fail.p = 0 => ~Failed
               /\ Chosen /\ status = "on" /\ Asked.fail.p = Denom /\ Covered =>
                    Top.regs.RAX \in {-e : e \in PlanErrors}
    <2>1. /\ Ended(Top) /\ MainFrame(Top)
          /\ Ok \in Nat /\ NoError = 0 /\ (Chosen => PlanErrors \in SUBSET (Nat \ {0}))
      BY <1>1, AtTheEnd
    <2>2. CASE FailedBefore(Top)
      BY <2>2 DEF FailedBefore
    <2>3. CASE PassedBy(Top)
      BY <2>1, <2>3 DEF PassedBy, Failed
    <2>4. CASE LeftOut(Top)
      BY <2>4, FailMaybeAssumption DEF LeftOut
    <2>5. CASE WentThrough(Top)
      BY <2>1, <2>5 DEF WentThrough, FailDrawn, Failed, MainFrame
    <2> QED
      BY <2>1, <2>2, <2>3, <2>4, <2>5 DEF Ended
  <1>2. Safe => OutcomeAsPlanned
    BY <1>1 DEF OutcomeAsPlanned, PlanErrors
  <1> QED
    BY <1>2, Invariance, PTL

\* The kernel executes the call the application made, with its arguments and at
\* most once; if it does not, and the call is no mask change that leaves SIGSYS
\* alone, an error of the plan is presented; a bias of 0 or 1 decides which
\* (handle_sigsys, fail_maybe, continue_syscall, syscall).
THEOREM ExecutesTheCall == Spec => []ExecutedAsCalled
  <1>1. ASSUME Safe, Finishing
        PROVE  /\ executed \in {<<>>, <<app_call>>}
               /\ executed = <<>> /\ ~MasksOthers =>
                    /\ Top.regs.RAX \in {-e : e \in PlanErrors}
                    /\ Top.drawn /\ Asked.fail.after_bias < Denom
               /\ executed # <<>> /\ Top.drawn /\ Covered => Asked.fail.after_bias > 0
    <2>1. Ended(Top)
      BY <1>1, AtTheEnd
    <2>2. CASE FailedBefore(Top)
      BY <2>2 DEF FailedBefore
    <2>3. CASE PassedBy(Top)
      BY <2>3 DEF PassedBy
    <2>4. CASE LeftOut(Top)
      BY <2>4 DEF LeftOut
    <2>5. CASE WentThrough(Top)
      BY <2>5 DEF WentThrough, FailDrawn
    <2> QED
      BY <2>1, <2>2, <2>3, <2>4, <2>5 DEF Ended
  <1>2. Safe => ExecutedAsCalled
    BY <1>1 DEF ExecutedAsCalled, PlanErrors
  <1> QED
    BY <1>2, Invariance, PTL

\* When the weights of an outcome sum to at least 1, a call fails just when the
\* draw says so, before or after it is executed (fail_maybe).
THEOREM FailureFollowsDraw == Spec => []FailsWhenDrawn
  <1>1. ASSUME Safe, Finishing, Top.drawn => Covered
        PROVE  Top.drawn <=> Top.regs.RAX < 0
    <2>1. /\ Ended(Top) /\ MainFrame(Top)
          /\ NoError = 0 /\ Ok \in Nat /\ Top \in Frames
          /\ Chosen => PlanErrors \in SUBSET (Nat \ {0})
      BY <1>1, AtTheEnd
    <2>2. CASE FailedBefore(Top)
      <3>1. Top.drawn /\ \E e \in PlanErrors : Top.regs.RAX = -e
        BY <2>2 DEF FailedBefore
      <3>2. Top.regs.RAX < 0
        BY <2>1, <2>2, <3>1 DEF FailedBefore
      <3> QED
        BY <3>1, <3>2
    <2>3. CASE PassedBy(Top)
      BY <2>1, <2>3 DEF PassedBy
    <2>4. CASE WentThrough(Top)
      <3>1. CASE Top.drawn
        <4>1. Top.fail_with \in PlanErrors
          BY <1>1, <2>4, <3>1 DEF WentThrough, FailDrawn
        <4>2. Top.fail_with \in Nat \ {0}
          BY <2>1, <2>4, <4>1 DEF WentThrough
        <4>3. Top.regs.RAX < 0
          BY <2>1, <2>4, <4>2 DEF WentThrough
        <4> QED
          BY <3>1, <4>3
      <3>2. CASE ~Top.drawn
        BY <2>1, <2>4, <3>2 DEF WentThrough, MainFrame
      <3> QED
        BY <3>1, <3>2
    <2>5. CASE LeftOut(Top)
      BY <2>5, FailMaybeAssumption DEF LeftOut
    <2> QED
      BY <2>1, <2>2, <2>3, <2>4, <2>5 DEF Ended
  <1>2. Safe => FailsWhenDrawn
    BY <1>1 DEF FailsWhenDrawn
  <1> QED
    BY <1>2, Invariance, PTL

\* Positive weights that sum to 1 are the probabilities of their errors, for
\* every plan and every resolution (ActiveOutcome, fail_maybe's lower_bound).
THEOREM WeightsRespected == Spec => []SharesMatchWeights
  <1>1. ASSUME Safe, status = "on", NEW n \in DOMAIN plan,
               \A e \in DOMAIN error_weights(Given(n).error_wts) : error_weights(Given(n).error_wts)[e] > 0,
               SumFunction(error_weights(Given(n).error_wts)) = Denom,
               NEW e \in DOMAIN error_weights(Given(n).error_wts)
        PROVE  Cardinality({k \in Draw : ErrorsAt(plan[n], k) = {e}}) = error_weights(Given(n).error_wts)[e]
    <2> DEFINE wt == error_weights(Given(n).error_wts)
    <2>1. c_plan \in CPlans /\ c_plan # NULL /\ plan = ActivePlan(c_plan)
      BY <1>1 DEF Safe, Stacked, Started
    <2>2. Given(n) \in sysfail_syscall_outcome_t /\ plan[n] = ActiveOutcome(Given(n))
      BY <2>1, PlanEntry
    <2>3. 0 \in Draw
      BY PlanAssumption DEF Draw
    <2>4. WeightTable(wt)
      BY <2>2, <2>3, OutcomeErrors
    <2>5. plan[n].errors = error_by_cumulative_p(wt)
      BY <2>2 DEF ActiveOutcome
    <2> HIDE DEF wt
    <2>6. (\A d \in DOMAIN wt : wt[d] > 0) /\ SumFunction(wt) = Denom /\ e \in DOMAIN wt
      BY <1>1 DEF wt
    <2>7. Cardinality({k \in Draw : ErrorsAt(plan[n], k) = {e}}) = wt[e]
      BY <2>4, <2>5, <2>6, Shares
    <2> QED
      BY <2>7 DEF wt
  <1>2. Safe => SharesMatchWeights
    BY <1>1 DEF SharesMatchWeights, Given
  <1> QED
    BY <1>2, Invariance, PTL
-----------------------------------------------------------------------------
(* Delays.                                                                  *)

\* What was slept for a call that waits does not depend on what is executed.
LEMMA PaidAsleep ==
    ASSUME NEW f, Sleeping(f)
    PROVE  /\ Paid(f)' = Paid(f)
           /\ f.pc = "sleep" => Paid(f) = 0
           /\ f.pc = "sleep_after" => Paid(f) = Positively(f.delay)
  BY DEF Paid, Sleeping

\* Waking up, the call has paid its delay.
LEMMA PaidAwake ==
    ASSUME NEW f \in Frames, NEW g \in Frames, Sleeping(g), SamePast(f, g),
           g.pc = "sleep" => f.pc = "fail", g.pc = "sleep_after" => f.pc = "finish"
    PROVE  /\ Paid(f)' = IF Duration(g) > 0 THEN Paid(g) + Duration(g) ELSE Paid(g)
           /\ Paid(g) \in Nat /\ Duration(g) \in Int
  <1>1. g.delay \in Int /\ g.delay_after \in Int /\ f.delay = g.delay /\ f.delay_after = g.delay_after
    BY FrameShape DEF SamePast
  <1>2. CASE g.pc = "sleep"
    BY <1>1, <1>2 DEF Paid, Duration, Positively
  <1>3. CASE g.pc = "sleep_after"
    BY <1>1, <1>3 DEF Paid, Duration, Positively
  <1> QED
    BY <1>2, <1>3 DEF Sleeping

\* A step that replaces the innermost frame, with one frame or with two.
LEMMA ReplacedSlept ==
    ASSUME Stacked, Slept, stack # <<>>, NEW f \in Frames, Become(f), Rest,
           Depth = 1 /\ slept = Paid(Top) /\ SleepsUndisturbed => slept' = Paid(f)',
           ASSUME NEW g, Depth = 2, SleepFrame(Top, g), Sleeping(g), SleepsUndisturbed,
                  Paid(g)' = Paid(g)
           PROVE  SleepFrame(f, g)'
    PROVE  Slept'
  <1>1. /\ Len(stack') = Len(stack) /\ stack'[Len(stack)] = f
        /\ \A i \in 1 .. Len(stack) - 1 : stack'[i] = stack[i]
    BY Replaced
  <1>2. Depth \in Nat \ {0} /\ Depth = Len(stack) /\ Depth' = Depth
    BY <1>1, TopShape DEF Depth
  <1>3. SUFFICES ASSUME SleepsUndisturbed
                 PROVE  \/ Depth = 1 /\ slept' = Paid(stack[1])'
                        \/ Depth = 2 /\ SleepFrame(stack[2], stack[1])'
    <2>1. SleepsUndisturbed' = SleepsUndisturbed
      BY DEF SleepsUndisturbed, Rest, api
    <2> QED
      BY <1>2, <2>1 DEF Slept
  <1>4. CASE Depth = 1 /\ slept = Paid(stack[1])
    BY <1>1, <1>2, <1>3, <1>4 DEF Top
  <1>5. CASE Depth = 2 /\ SleepFrame(stack[2], stack[1])
    <2>1. PICK g : g = stack[1]
      OBVIOUS
    <2>2. Sleeping(g) /\ SleepFrame(Top, g)
      BY <1>2, <1>5, <2>1 DEF Stacked, Top
    <2>3. SleepFrame(f, g)'
      BY <1>3, <1>5, <2>2, PaidAsleep
    <2> QED
      BY <1>1, <1>2, <1>5, <2>1, <2>3
  <1> QED
    BY <1>3, <1>4, <1>5 DEF Slept

\* The outcome of the plan for a sleep, when it only interrupts.
LEMMA SleepOutcome ==
    ASSUME SleepsUndisturbed, SYS_nanosleep \in DOMAIN plan, Top.regs.RAX = SYS_nanosleep
    PROVE  Outcome.delay.p = 0 /\ Outcome.fail.after_bias = 0 /\ Range(Outcome.errors) \subseteq {EINTR}
  BY DEF SleepsUndisturbed, Outcome

\* handle_sigsys sleeps nothing.
LEMMA SleptSigsys == ASSUME Safe, Slept, handle_sigsys, Rest PROVE Slept'
  <1>0. TypeOK /\ Stacked /\ Started /\ Main
    BY DEF Safe
  <1>1. stack # <<>> /\ Top.pc = "sigsys" /\ UNCHANGED <<executed, slept>>
    BY <1>0, SigsysEffect
  <1>2. CASE UNCHANGED stack
    BY <1>1, <1>2 DEF Slept, SleepsUndisturbed, SleepFrame, Paid, Depth, Rest, api
  <1>3. ASSUME NEW f \in Frames, Become(f), SamePast(f, Top),
               (f.pc = "delay" /\ Planned) \/ f.pc = "only" \/ (f.pc = "done" /\ Dropped)
        PROVE  Slept'
    <2>1. Depth = 1 /\ slept = Paid(Top) => slept' = Paid(f)'
      <3>1. Depth = 1 => executed = <<>> /\ Top.delay = 0
        BY <1>0, <1>1, OneFrame DEF MainFrame, Untouched, Early
      <3> QED
        BY <1>1, <1>3, <3>1 DEF Paid, Positively, SamePast
    <2>2. ASSUME NEW g, SleepFrame(Top, g), Paid(g)' = Paid(g)
          PROVE  SleepFrame(f, g)'
      <3>1. plan' = plan
        BY DEF Rest, api
      <3>2. f.pc # "done"
        BY <1>1, <1>3, <2>2, FailMaybeAssumption DEF SleepFrame, Dropped, Early, Untouched
      <3> QED
        BY <1>1, <1>3, <2>2, <3>1, <3>2 DEF SleepFrame, SamePast, Planned, Early, Untouched, Late, Ruled
    <2> QED
      BY <1>0, <1>1, <1>3, <2>1, <2>2, ReplacedSlept
  <1> QED
    BY <1>0, <1>2, <1>3, SigsysEffect

\* Drawing a delay sleeps nothing; the sleep itself is not delayed.
LEMMA SleptDelay == ASSUME Safe, Slept, Delay, Rest PROVE Slept'
  <1>0. TypeOK /\ Stacked /\ Started /\ Main
    BY DEF Safe
  <1>1. stack # <<>> /\ Top.pc = "delay" /\ UNCHANGED <<executed, slept, aborted>>
    BY <1>0, DelayEffect
  <1>2. PICK f \in Frames : Become(f) /\ Delayed(f, Top)
    BY <1>0, DelayEffect
  <1>3. ASSUME Depth = 1, slept = Paid(Top) PROVE slept' = Paid(f)'
    <2>1. Top.delay = 0
      BY <1>0, <1>1, <1>3, OneFrame DEF MainFrame, Untouched
    <2> QED
      BY <1>1, <1>2, <1>3, <2>1 DEF Delayed, Paid, Positively
  <1>4. ASSUME NEW g, SleepFrame(Top, g), SleepsUndisturbed, Paid(g)' = Paid(g)
        PROVE  SleepFrame(f, g)'
    <2>1. Top.regs.RAX = SYS_nanosleep /\ SYS_nanosleep \in DOMAIN plan
      BY <1>1, <1>4 DEF SleepFrame, Early, Untouched, Ruled
    <2>2. Outcome.delay.p = 0
      BY <1>4, <2>1, SleepOutcome
    <2>3. plan' = plan
      BY DEF Rest, api
    <2>4. SamePast(f, Top) /\ f.pc = "fail"
      BY <1>2, <2>2 DEF Delayed, SamePast
    <2> QED
      BY <1>1, <1>4, <2>1, <2>3, <2>4 DEF SleepFrame, SamePast, Early, Untouched, Late, Ruled
  <1> QED
    BY <1>0, <1>1, <1>2, <1>3, <1>4, ReplacedSlept

\* A sleep fails only with EINTR, before it is executed.
LEMMA SleptFail == ASSUME Safe, Slept, Fail, Rest PROVE Slept'
  <1>0. TypeOK /\ Stacked /\ Started /\ Main
    BY DEF Safe
  <1>1. stack # <<>> /\ Top.pc = "fail" /\ UNCHANGED <<executed, slept, aborted>>
    BY <1>0, FailEffect
  <1>2. PICK f \in Frames : Become(f) /\ Decided(f, Top, Given(Top.regs.RAX))
    BY <1>0, FailEffect
  <1>3. ASSUME Depth = 1, slept = Paid(Top) PROVE slept' = Paid(f)'
    <2>1. executed = <<>> /\ Top.delay \in Int
      BY <1>0, <1>1, <1>3, OneFrame, TopShape, FrameShape DEF MainFrame, Early
    <2> QED
      BY <1>1, <1>2, <1>3, <2>1 DEF Decided, Paid, Positively
  <1>4. ASSUME NEW g, SleepFrame(Top, g), SleepsUndisturbed, Paid(g)' = Paid(g)
        PROVE  SleepFrame(f, g)'
    <2>1. Top.regs.RAX = SYS_nanosleep /\ SYS_nanosleep \in DOMAIN plan
      BY <1>1, <1>4 DEF SleepFrame, Early, Untouched, Ruled
    <2>2. Outcome.fail.after_bias = 0 /\ Range(Outcome.errors) \subseteq {EINTR}
      BY <1>4, <2>1, SleepOutcome
    <2>3. plan' = plan
      BY DEF Rest, api
    <2> DEFINE a == Given(Top.regs.RAX)
    <2>4. a.fail.after_bias = 0
      <3>1. Outcome = ActiveOutcome(a)
        BY <1>0, <1>1, <2>1, TopOutcome
      <3> QED
        BY <2>2, <3>1, Converted
    <2>5. \/ f.pc = "call" /\ f.regs = Top.regs
          \/ f.pc = "done" /\ f.regs = [Top.regs EXCEPT !.RAX = -EINTR]
      BY <1>2, <2>2, <2>4 DEF Decided
    <2>6. f.delay = Top.delay /\ f.delay_after = Top.delay_after /\ f.fail_with = Top.fail_with
      BY <1>2, <2>4 DEF Decided
    <2>7. Top.regs \in Regs
      BY <1>0, <1>1, TopShape, FrameShape
    <2>8. f.regs.RDI = Top.regs.RDI /\ (f.pc = "done" => f.regs.RAX = -EINTR)
      BY <2>5, <2>7 DEF Regs
    <2> QED
      BY <1>1, <1>4, <2>1, <2>3, <2>5, <2>6, <2>8 DEF SleepFrame, Early, Untouched, Late, Ruled
  <1> QED
    BY <1>0, <1>1, <1>2, <1>3, <1>4, ReplacedSlept

\* Executing a trapped sleep pays for its delay.
LEMMA SleptContinue == ASSUME Safe, Slept, continue_syscall, Rest PROVE Slept'
  <1>0. TypeOK /\ Stacked /\ Started /\ Main
    BY DEF Safe
  <1>1. /\ stack # <<>> /\ Top.pc \in {"only", "call"}
        /\ Depth = 1 => executed' = Append(executed, Continued(Top.regs)) /\ slept' = slept
        /\ Depth # 1 => executed' = executed /\ slept' = slept + Top.regs.RDI
    BY <1>0, ContinueEffect
  <1>2. PICK f \in Frames :
          /\ Become(f) /\ f.regs = [Top.regs EXCEPT !.RAX = Ok]
          /\ f.delay = Top.delay /\ f.delay_after = Top.delay_after
          /\ f.fail_with = Top.fail_with /\ f.drawn = Top.drawn
          /\ \/ Top.pc = "only" /\ f.pc = "done"
             \/ Top.pc = "call" /\ f.pc = "sleep_after"
    BY <1>0, ContinueEffect
  <1>3. ASSUME Depth = 1, slept = Paid(Top) PROVE slept' = Paid(f)'
    <2>1. MainFrame(Top) /\ slept' = slept
      BY <1>0, <1>1, <1>3, OneFrame
    <2>2. CASE Top.pc = "only"
      <3>1. slept = 0 /\ f.delay = 0 /\ f.delay_after = 0 /\ f.pc = "done"
        BY <1>2, <2>1, <2>2 DEF MainFrame, Untouched
      <3> QED
        BY <2>1, <3>1 DEF Paid, Positively
    <2>3. CASE Top.pc = "call"
      BY <1>2, <1>3, <2>1, <2>3 DEF Paid
    <2> QED
      BY <1>1, <2>2, <2>3
  <1>4. ASSUME NEW g, Depth = 2, SleepFrame(Top, g), Paid(g)' = Paid(g)
        PROVE  SleepFrame(f, g)'
    <2>1. Top.regs \in Regs
      BY <1>0, <1>1, TopShape, FrameShape
    <2>2. f.regs.RDI = Top.regs.RDI /\ f.regs.RAX = Ok
      BY <1>2, <2>1 DEF Regs
    <2>3. plan' = plan /\ slept' = slept + Duration(g) /\ slept = Paid(g)
      BY <1>1, <1>4 DEF Rest, api, SleepFrame, Early, Untouched
    <2> QED
      BY <1>1, <1>2, <1>4, <2>2, <2>3 DEF SleepFrame, Early, Untouched, Late, Ruled, Duration
  <1> QED
    BY <1>0, <1>1, <1>2, <1>3, <1>4, ReplacedSlept

\* Finishing sleeps nothing.
LEMMA SleptFinish == ASSUME Safe, Slept, Finish, Rest PROVE Slept'
  <1>0. TypeOK /\ Stacked /\ Started /\ Main
    BY DEF Safe
  <1>1. stack # <<>> /\ Top.pc = "finish" /\ UNCHANGED <<executed, slept, aborted>>
    BY <1>0, FinishEffect
  <1>2. PICK f \in Frames :
          /\ Become(f) /\ f.pc = "done"
          /\ f.regs = [Top.regs EXCEPT !.RAX = IF Top.fail_with # NoError
                                               THEN -Top.fail_with ELSE Top.regs.RAX]
          /\ f.delay = Top.delay /\ f.delay_after = Top.delay_after
          /\ f.fail_with = Top.fail_with /\ f.drawn = Top.drawn
    BY <1>0, FinishEffect
  <1>3. ASSUME Depth = 1, slept = Paid(Top) PROVE slept' = Paid(f)'
    <2>1. executed = <<app_call>>
      BY <1>0, <1>1, <1>3, OneFrame DEF MainFrame, Late
    <2>2. executed' # <<>>
      BY <1>1, <2>1
    <2> QED
      BY <1>1, <1>2, <1>3, <2>2 DEF Paid
  <1>4. ASSUME NEW g, SleepFrame(Top, g), Paid(g)' = Paid(g)
        PROVE  SleepFrame(f, g)'
    <2>1. Top.regs \in Regs
      BY <1>0, <1>1, TopShape, FrameShape
    <2>2. Top.fail_with = NoError /\ Top.regs.RAX = Ok /\ slept = Paid(g) + Duration(g)
      BY <1>1, <1>4 DEF SleepFrame, Late
    <2>3. f.regs.RDI = Top.regs.RDI /\ f.regs.RAX = Ok
      BY <1>2, <2>1, <2>2 DEF Regs
    <2> QED
      BY <1>1, <1>2, <1>4, <2>2, <2>3 DEF SleepFrame, Early, Untouched, Late, Ruled, Duration
  <1> QED
    BY <1>0, <1>1, <1>2, <1>3, <1>4, ReplacedSlept

\* A sleep pays for the delay at once, or traps.
LEMMA SleptSleep == ASSUME Safe, Slept, sleep, Rest PROVE Slept'
  <1>0. TypeOK /\ Stacked /\ Started /\ Main
    BY DEF Safe
  <1>1. stack # <<>> /\ Sleeping(Top) /\ UNCHANGED <<executed, aborted>>
    BY <1>0, SleepEffect
  <1>2. /\ Top \in Frames /\ Depth \in Nat \ {0} /\ Depth = Len(stack)
        /\ Duration(Top) \in Int /\ slept \in Nat
    BY <1>0, <1>1, TopShape, FrameShape DEF TypeOK
  <1>3. ASSUME Become(Awake(Top)),
               slept' = IF Duration(Top) > 0 THEN slept + Duration(Top) ELSE slept
        PROVE  Slept'
    <2>1. PICK f \in Frames : f = Awake(Top)
      BY <1>1, <1>2, AwakeFrame
    <2>2. /\ Become(f) /\ SamePast(f, Top)
          /\ Top.pc = "sleep" => f.pc = "fail"
          /\ Top.pc = "sleep_after" => f.pc = "finish"
      BY <1>1, <1>2, <1>3, <2>1, AwakeFrame
    <2>3. ASSUME slept = Paid(Top) PROVE slept' = Paid(f)'
      <3>1. PICK g \in Frames : g = Top
        BY <1>2
      <3>2. Paid(f)' = IF Duration(g) > 0 THEN Paid(g) + Duration(g) ELSE Paid(g)
        BY <1>1, <2>2, <3>1, PaidAwake
      <3> QED
        BY <1>3, <2>3, <3>1, <3>2
    <2>4. ASSUME NEW g, SleepFrame(Top, g), Paid(g)' = Paid(g) PROVE SleepFrame(f, g)'
      <3>1. Duration(Top) = 0
        BY <2>4 DEF SleepFrame, Duration
      <3>2. slept' = slept /\ plan' = plan
        BY <1>3, <3>1 DEF Rest, api
      <3> QED
        BY <1>1, <2>2, <2>4, <3>2
        DEF SleepFrame, SamePast, Early, Untouched, Late, Ruled, Sleeping, Duration
    <2> QED
      BY <1>0, <1>1, <2>2, <2>3, <2>4, ReplacedSlept
  <1>4. ASSUME Duration(Top) > 0, slept' = slept,
               stack' = Append(stack, Frame(<<SYS_nanosleep, Duration(Top), 0, 0, 0, 0, 0>>, Address("libc")))
        PROVE  Slept'
    <2>1. /\ Len(stack') = Depth + 1 /\ \A i \in 1 .. Depth : stack'[i] = stack[i]
          /\ stack'[Depth + 1].pc = "sigsys" /\ stack'[Depth + 1].regs.RAX = SYS_nanosleep
          /\ stack'[Depth + 1].regs.RDI = Duration(Top)
          /\ stack'[Depth + 1].delay = 0 /\ stack'[Depth + 1].delay_after = 0
          /\ stack'[Depth + 1].fail_with = NoError
      BY <1>0, <1>1, <1>4, Pushed
    <2>2. Depth' = Depth + 1 /\ SleepsUndisturbed' = SleepsUndisturbed
      BY <2>1 DEF Depth, SleepsUndisturbed, Rest, api
    <2>3. SUFFICES ASSUME SleepsUndisturbed PROVE Depth' = 2 /\ SleepFrame(stack[2], stack[1])'
      BY <2>2 DEF Slept
    <2>4. ~(Depth = 2 /\ SleepFrame(stack[2], stack[1]))
      BY <1>4 DEF SleepFrame, Duration, Top
    <2>5. Depth = 1 /\ slept = Paid(stack[1])
      BY <1>1, <2>3, <2>4 DEF Slept
    <2>6. PICK g : g = stack[1]
      OBVIOUS
    <2>7. PICK f : f = stack'[2]
      OBVIOUS
    <2>8. g = Top /\ stack'[1] = g /\ Paid(g)' = Paid(g)
      BY <1>1, <2>1, <2>5, <2>6, PaidAsleep DEF Top
    <2>9. SleepFrame(f, g)'
      BY <1>4, <2>1, <2>5, <2>6, <2>7, <2>8 DEF SleepFrame, Early, Untouched, Late, Ruled, Duration
    <2> QED
      BY <2>2, <2>5, <2>7, <2>8, <2>9
  <1> QED
    BY <1>0, <1>2, <1>3, <1>4, SleepEffect

\* An interrupted sleep is started again, another has been paid for.
LEMMA SleptWake == ASSUME Safe, Slept, Wake, Rest PROVE Slept'
  <1>0. TypeOK /\ Stacked /\ Started /\ Main
    BY DEF Safe
  <1>1. /\ Depth \in Nat /\ Depth > 1 /\ Top.pc = "done" /\ UNCHANGED <<executed, slept, aborted>>
        /\ Sleeping(stack[Depth - 1]) /\ Duration(stack[Depth - 1]) > 0
        /\ Len(stack') = Depth - 1 /\ stack' \in Seq(Frames)
        /\ stack'[Depth - 1] = IF Interrupted(Top.regs.RAX) THEN stack[Depth - 1]
                                                            ELSE Awake(stack[Depth - 1])
    BY <1>0, WakeEffect
  <1>2. stack # <<>> /\ Depth = Len(stack) /\ stack \in Seq(Frames) /\ slept \in Nat
    BY <1>0, <1>1 DEF Depth, Stacked, TypeOK
  <1>3. Depth' = Depth - 1 /\ SleepsUndisturbed' = SleepsUndisturbed
    BY <1>1 DEF Depth, SleepsUndisturbed, Rest, api
  <1>4. SUFFICES ASSUME SleepsUndisturbed PROVE Depth' = 1 /\ slept' = Paid(stack[1])'
    BY <1>3 DEF Slept
  <1>5. Depth = 2 /\ SleepFrame(stack[2], stack[1])
    BY <1>1, <1>2, <1>4 DEF Slept
  <1>11. stack[1] \in Frames /\ stack'[1] \in Frames
    BY <1>1, <1>2, <1>5
  <1>6. PICK g \in Frames : g = stack[1]
    BY <1>11
  <1>7. PICK f \in Frames : f = stack'[1]
    BY <1>11
  <1>8. \/ Top.regs.RAX = -EINTR /\ slept = Paid(g)
        \/ Top.regs.RAX = Ok /\ slept = Paid(g) + Duration(g)
    BY <1>1, <1>5, <1>6 DEF SleepFrame, Top
  <1>9. CASE Top.regs.RAX = -EINTR /\ slept = Paid(g)
    <2>1. f = g /\ Paid(g)' = Paid(g)
      BY <1>1, <1>5, <1>6, <1>7, <1>9, PaidAsleep DEF Interrupted
    <2> QED
      BY <1>1, <1>3, <1>5, <1>7, <1>9, <2>1
  <1>10. CASE Top.regs.RAX = Ok /\ slept = Paid(g) + Duration(g)
    <2>1. Ok # -EINTR
      BY FailMaybeAssumption
    <2>2. f = Awake(g) /\ Sleeping(g) /\ Duration(g) > 0
      BY <1>1, <1>5, <1>6, <1>7, <1>10, <2>1 DEF Interrupted
    <2>3. Paid(f)' = Paid(g) + Duration(g)
      BY <2>2, AwakeFrame, PaidAwake
    <2> QED
      BY <1>1, <1>3, <1>5, <1>7, <1>10, <2>3
  <1> QED
    BY <1>8, <1>9, <1>10

\* What was slept is what was drawn, at every step.
LEMMA SleptNext == Safe /\ Slept /\ [Next]_vars => Slept'
  <1> SUFFICES ASSUME Safe, Slept, [Next]_vars PROVE Slept'
    OBVIOUS
  <1>1. ASSUME UNCHANGED <<stack, slept, executed, plan>> PROVE Slept'
    BY <1>1 DEF Slept, SleepsUndisturbed, SleepFrame, Paid, Depth
  <1>2. CASE UNCHANGED vars
    BY <1>1, <1>2 DEF vars, api, trap
  <1>3. CASE sysfail_start
    <2>1. stack = <<>>
      BY <1>3 DEF Safe, Started, sysfail_start
    <2>2. stack' = <<>>
      BY <1>3, <2>1 DEF sysfail_start, trap
    <2> QED
      BY <2>2 DEF Slept
  <1>4. CASE \/ stop \/ discover_threads \/ poll
             \/ \E t \in Thd : add_thread(t) \/ remove_thread(t) \/ Spawn(t)
    BY <1>1, <1>4 DEF stop, discover_threads, poll, add_thread, remove_thread, Spawn, api, trap
  <1>5. ASSUME NEW t \in Thd, NEW c \in Calls, Call(t, c) PROVE Slept'
    <2>1. stack = <<>> /\ slept = 0 /\ slept' = slept
      BY <1>5 DEF Safe, Started, Call
    <2>2. CASE stack' = <<>>
      BY <2>2 DEF Slept
    <2>3. CASE stack' = <<Frame(c, Address("app"))>>
      <3>1. c \in [1 .. 7 -> Int]
        BY CSessionAssumption
      <3>2. PICK f : f = Frame(c, Address("app"))
        OBVIOUS
      <3>3. f.pc = "sigsys"
        BY <3>1, <3>2, NewFrame
      <3>4. Depth' = 1 /\ stack'[1] = f
        BY <2>3, <3>2 DEF Depth
      <3>5. Paid(f)' = 0
        BY <3>3 DEF Paid
      <3> QED
        BY <2>1, <3>4, <3>5 DEF Slept
    <2> QED
      BY <1>5, <2>1, <2>2, <2>3 DEF Call
  <1>6. CASE Handler
    <2>1. TrapStep /\ Rest
      BY <1>6 DEF Handler, Rest
    <2> QED
      BY <2>1, SleptSigsys, SleptDelay, SleptFail, SleptContinue, SleptFinish, SleptSleep, SleptWake
      DEF TrapStep
  <1>7. CASE sysfail_restore
    BY <1>7 DEF sysfail_restore, Slept
  <1> QED
    BY <1>2, <1>3, <1>4, <1>5, <1>6, <1>7 DEF Next

\* A call that is executed is delayed by just what was drawn, and no call by more
\* or beyond max_delay, also when the sleep traps and is interrupted by the plan
\* itself (fail_maybe, sleep).
THEOREM DelayFollowsDraw == Spec => []DelayedAsDrawn
  <1>1. Init => Safe /\ Slept
    BY SafeInit DEF Init, Slept
  <1>2. Safe /\ Slept /\ [Next]_vars => (Safe /\ Slept)'
    BY SafeNext, SleptNext
  <1>3. Safe /\ Slept => DelayedAsDrawn
    <2>1. SUFFICES ASSUME Safe, Slept, Finishing, SleepsUndisturbed
                   PROVE  /\ executed # <<>> => slept = Positively(Top.delay) + Positively(Top.delay_after)
                          /\ slept \in Positively(Top.delay) .. (Positively(Top.delay) + Positively(Top.delay_after))
                          /\ slept > 0 => slept <= Asked.max_delay_usec
      BY DEF DelayedAsDrawn
    <2>2. Top \in Frames /\ MainFrame(Top) /\ Depth = 1 /\ Top.pc = "done" /\ stack # <<>>
      BY <2>1, AtTheEnd DEF Finishing, Depth
    <2>3. slept = Paid(Top)
      BY <2>1, <2>2 DEF Slept, Top
    <2>4. slept = Positively(Top.delay)
                    + (IF executed = <<>> THEN 0 ELSE Positively(Top.delay_after))
      BY <2>2, <2>3 DEF Paid
    <2>5. /\ Top.delay \in Int /\ Top.delay_after \in Int
          /\ Top.delay = 0 \/ Top.delay_after = 0
          /\ Top.delay > 0 => Top.delay <= Asked.max_delay_usec
          /\ Top.delay_after > 0 => Top.delay_after <= Asked.max_delay_usec
      BY <2>2, FrameShape DEF MainFrame
    <2>6. /\ Positively(Top.delay) \in Nat /\ Positively(Top.delay_after) \in Nat
          /\ Positively(Top.delay) > 0 => Positively(Top.delay) <= Asked.max_delay_usec
          /\ Positively(Top.delay_after) > 0 => Positively(Top.delay_after) <= Asked.max_delay_usec
          /\ Positively(Top.delay) = 0 \/ Positively(Top.delay_after) = 0
      BY <2>5 DEF Positively
    <2> HIDE DEF Positively
    <2>7. CASE executed = <<>>
      BY <2>4, <2>6, <2>7
    <2>8. CASE executed # <<>>
      BY <2>4, <2>6, <2>8
    <2> QED
      BY <2>7, <2>8
  <1> QED
    BY <1>1, <1>2, <1>3, PTL DEF Spec
=============================================================================
