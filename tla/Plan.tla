-------------------------------- MODULE Plan --------------------------------
(***************************************************************************)
(* How sysfail reads what an application asks for: the conversion of a C   *)
(* plan (src/src/cwrapper.cc, src/include/sysfail.h) into the tables       *)
(* fail_maybe uses (src/src/session.cc), the predicates' view of a trapped *)
(* call's registers (src/src/inv_pred.cc), and the text range whose        *)
(* syscalls are exempt (src/src/map.cc).                                   *)
(*                                                                         *)
(* Probabilities and weights are multiples of 1/Denom.  A draw k of        *)
(* 0 .. Denom - 1 stands for the reals strictly between k/Denom and        *)
(* (k+1)/Denom, so each k is equally likely.  A call is the sequence of    *)
(* its number and its six arguments.                                       *)
(***************************************************************************)
EXTENDS Integers, Sequences, FiniteSets, FiniteSetsExt, Functions

CONSTANTS
    Denom,   \* resolution of probabilities and weights
    IntMax,  \* the greatest int
    NULL     \* the null pointer

ASSUME PlanAssumption ==
    /\ Denom \in Nat \ {0}
    /\ IntMax \in Nat

Draw == 0 .. Denom - 1
NoError == 0

\* What a plan is made of; errors are errno numbers.
sysfail_probability_t == [p : Int, after_bias : Int]
sysfail_error_wt_t == [nerror : Nat \ {0}, weight : Int]
sysfail_invocation_predicate_t == [via : {"c"}, n : Nat] \cup [via : {"p"}, n : 0 .. 6]
sysfail_syscall_outcome_t ==
    [syscall : Int, fail : sysfail_probability_t, delay : sysfail_probability_t,
     max_delay_usec : Nat, ctx : Int, eligible : sysfail_invocation_predicate_t \cup {NULL},
     error_wts : Seq(sysfail_error_wt_t)]

\* A value that is no error of the plan, read through an end() iterator.
Garbage == 77

\* The first element of the list for which the field has the value v.
FirstOf(list, field, v) ==
    list[Min({i \in DOMAIN list : list[i][field] = v})]
Values(list, field) == {list[i][field] : i \in DOMAIN list}
-----------------------------------------------------------------------------
(* Registers.                                                               *)

\* The registers of a trapped call: rcx has been overwritten by the kernel
\* with the address the call came from.
Registers(c, addr) ==
    [RAX |-> c[1], RDI |-> c[2], RSI |-> c[3], RDX |-> c[4], R10 |-> c[5],
     R8 |-> c[6], R9 |-> c[7], RCX |-> addr]

\* What the kernel makes of the registers of a syscall instruction.
Kernel(r) == <<r.RAX, r.RDI, r.RSI, r.RDX, r.R10, r.R8, r.R9>>

\* Mutant of syscall: the fourth argument is left where functions take it.
syscall_rcx(arg, n) ==
    Kernel([RAX |-> n, RDI |-> arg[1], RSI |-> arg[2], RDX |-> arg[3], R10 |-> 0,
            R8 |-> arg[5], R9 |-> arg[6], RCX |-> arg[4]])

syscall(arg, n) ==
    Kernel([RAX |-> n, RDI |-> arg[1], RSI |-> arg[2], RDX |-> arg[3], R10 |-> arg[4],
            R8 |-> arg[5], R9 |-> arg[6], RCX |-> 0])

\* The call continue_syscall makes for a trapped one.
Continued(r) == syscall(<<r.RDI, r.RSI, r.RDX, r.R10, r.R8, r.R9>>, r.RAX)

\* invp::p hands a predicate of the given arity the number and the arguments.
p(arity, r) == SubSeq(<<r.RAX, r.RDI, r.RSI, r.RDX, r.R10, r.R8, r.R9>>, 1, arity + 1)

\* Mutant of sysfail_syscall_arg: arguments are counted from one.
sysfail_syscall_arg_from_one(r, arg) == <<r.RAX, r.RDI, r.RSI, r.RDX, r.R10, r.R8>>[arg + 1]

sysfail_syscall_arg(r, arg) == <<r.RDI, r.RSI, r.RDX, r.R10, r.R8, r.R9>>[arg + 1]
-----------------------------------------------------------------------------
(* Predicates.  A user's predicate compares one value with its user data:   *)
(* through the C API the argument with index n, through invp::p the last    *)
(* value that a predicate of arity n is given.                              *)

\* sysfail_syscall_arg ends the process for an index out of range.
Aborts(check) == check.eligible # NULL /\ check.eligible.via = "c" /\ check.eligible.n > 5

\* What the predicate of an outcome sees of the call.
Seen(e, r) == IF e.via = "c" THEN sysfail_syscall_arg(r, e.n) ELSE p(e.n, r)[e.n + 1]

eligible(check, r) == check.eligible # NULL => Seen(check.eligible, r) = check.ctx

\* The plan's thread predicate compares the tid with the plan's user data.
selector(c_plan, tid) == c_plan.selector = NULL \/ tid = c_plan.ctx

tdisc_strategy(c_plan) == IF c_plan.strategy = 1 THEN "ProcPoll" ELSE "None"
-----------------------------------------------------------------------------
(* Outcomes.                                                                *)

\* The constructor of Probability throws unless both values are in [0, 1].
Probability(q) == q.p \in 0 .. Denom /\ q.after_bias \in 0 .. Denom

\* map::insert keeps the first weight given for an error.
error_weights(wts) == [e \in Values(wts, "nerror") |-> FirstOf(wts, "nerror", e).weight]

\* The sum of the weights up to and including e, in the order of std::map.
Cumulative(wt, e) == SumFunctionOnSet(wt, {d \in DOMAIN wt : d <= e})

\* Mutant of error_by_cumulative_p: the key is the sum before the weight is added.
error_by_preceding_p(wt) ==
    [c \in {Cumulative(wt, e) - wt[e] : e \in DOMAIN wt} |->
        Max({e \in DOMAIN wt : Cumulative(wt, e) - wt[e] = c})]

\* Errors with the same sum share a key: the last one written stays.
error_by_cumulative_p(wt) ==
    [c \in {Cumulative(wt, e) : e \in DOMAIN wt} |->
        Max({e \in DOMAIN wt : Cumulative(wt, e) = c})]

ActiveOutcome(o) ==
    [fail |-> o.fail, delay |-> o.delay, max_delay |-> o.max_delay_usec,
     errors |-> error_by_cumulative_p(error_weights(o.error_wts)),
     check |-> [eligible |-> o.eligible, ctx |-> o.ctx]]

\* unordered_map::insert keeps the first outcome given for a syscall.
ActivePlan(c_plan) ==
    [n \in Values(c_plan.syscall_outcomes, "syscall") |->
        ActiveOutcome(FirstOf(c_plan.syscall_outcomes, "syscall", n))]

\* Some Probability of the plan is out of range.
Throws(c_plan) ==
    \E o \in Range(c_plan.syscall_outcomes) : ~Probability(o.fail) \/ ~Probability(o.delay)

\* The draw came out below the bias: after the syscall.
After(q, k) == q.after_bias # 0 /\ k < q.after_bias

\* std::map::lower_bound for a draw, and the error e->second yields; at the
\* end it is undefined: zero or any other value.
AtOrAbove(o, k) == {c \in DOMAIN o.errors : c > k}
AtEnd(o, k) == AtOrAbove(o, k) = {}
ErrorsAt(o, k) == IF AtEnd(o, k) THEN {NoError, Garbage} ELSE {o.errors[Min(AtOrAbove(o, k))]}

\* How many values int has, 2 to the power of its width.
IntSpan == 2 * (IntMax + 1)

\* Mutant of ToInt: the value is not narrowed.
ToLong(n) == n

\* Conversion of an unsigned or wider number to int.
ToInt(n) ==
    LET m == n % IntSpan IN IF m <= IntMax THEN m ELSE m - IntSpan

\* uniform_int_distribution<int>(0, max_delay): the bound is narrowed to int.
\* For a negative one the result is undefined; libstdc++ works with unsigned
\* numbers and converts what it draws.
Delays(o) == {ToInt(u) : u \in 0 .. o.max_delay % IntSpan}
-----------------------------------------------------------------------------
(* The memory map: lines [start, end, x, file] of /proc/self/maps.          *)

\* Mutant of AddrRange: the range is taken to include its end.
AddrRange_inclusive(line) == [start |-> line.start, length |-> line.end - line.start - 1]

AddrRange(line) == [start |-> line.start, length |-> line.end - line.start]

\* The executable mappings of libsysfail; self_text asserts that there is one.
SelfTexts(maps) == {AddrRange(line) : line \in {m \in maps : m.x /\ m.file = "libsysfail"}}

\* The kernel's test for the range given to PR_SET_SYSCALL_USER_DISPATCH.
InRange(range, addr) == addr >= range.start /\ addr < range.start + range.length
=============================================================================
