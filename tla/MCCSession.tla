----------------------------- MODULE MCCSession -----------------------------
(* Instances of CSession for TLC.                                          *)
EXTENDS CSession

CONSTANTS t1, t2

SYS_write == 1

Q(p0, bias) == [p |-> p0, after_bias |-> bias]
Wt(e, w) == [nerror |-> e, weight |-> w]
Never == Q(0, 0)
Always == Q(Denom, 0)

Node(n, f, d, usec, wts) ==
    [syscall |-> n, fail |-> f, delay |-> d, max_delay_usec |-> usec, ctx |-> 0,
     eligible |-> NULL, error_wts |-> wts]
If(node, via0, n0, ctx0) == [node EXCEPT !.eligible = [via |-> via0, n |-> n0], !.ctx = ctx0]

Plan0(nodes) == [strategy |-> 0, ctx |-> t1, selector |-> NULL, syscall_outcomes |-> nodes]

\* Every mix of draws and of weights, for one syscall.
Fails == {Never, Q(2, 0), Q(2, 2), Q(2, 4), Always, Q(4, 2), Q(4, 4)}
Slows == {Never, Q(2, 2), Always, Q(4, 4)}
Mixes ==
    {<<>>, <<Wt(4, 4)>>, <<Wt(5, 3)>>, <<Wt(5, 1), Wt(4, 3)>>, <<Wt(4, 2), Wt(5, 1), Wt(11, 1)>>,
     <<Wt(11, 2), Wt(11, 4), Wt(4, 1)>>, <<Wt(4, 0), Wt(5, 4)>>, <<Wt(4, 3), Wt(5, 0), Wt(11, 2)>>}
Weighted ==
    {Plan0(<<Node(SYS_write, f, d, 1, wts)>>) : f \in Fails, d \in Slows, wts \in Mixes}

\* Lists with predicates, repeated and missing syscalls, outcomes for exempt
\* calls and for nanosleep, delays beyond int, and probabilities out of range.
EIO == <<Wt(5, 4)>>
Writes == Node(SYS_write, Always, Never, 1, EIO)
Delays5 == Node(SYS_write, Never, Q(4, 2), 5, <<>>)
Lists ==
    {<<If(Writes, "c", n, 10 + v)>> : n \in 0 .. 6, v \in 1 .. 6} \cup
    {<<If(Writes, "p", n, 10 + v)>> : n \in 1 .. 6, v \in 1 .. 6} \cup
    {<<If(Writes, "p", 0, SYS_write)>>,
     <<Node(SYS_write, Never, Never, 1, EIO), Writes>>,
     <<If(Writes, "c", 0, 99), Writes>>,
     <<Node(SYS_exit, Always, Never, 1, EIO), Writes>>,
     <<Node(SYS_rt_sigprocmask, Always, Always, 1, EIO), Node(SYS_rt_sigreturn, Always, Always, 1, EIO)>>,
     <<Node(SYS_write, Q(Denom + 1, 0), Never, 1, EIO)>>,
     <<Writes, Node(SYS_exit, Never, Q(0, -1), 1, EIO)>>,
     <<Delays5>>, <<[Delays5 EXCEPT !.max_delay_usec = 9]>>,
     <<Delays5, Node(SYS_nanosleep, Q(2, 0), Never, 0, <<Wt(EINTR, 4)>>)>>,
     <<Delays5, Node(SYS_nanosleep, Always, Never, 0, EIO)>>,
     <<Delays5, Node(SYS_nanosleep, Never, Q(2, 0), 1, <<>>)>>}
Structured == {Plan0(nodes) : nodes \in Lists}

\* Selectors and strategies.
Threaded ==
    {[strategy |-> s, ctx |-> c, selector |-> sel, syscall_outcomes |-> <<[Writes EXCEPT !.ctx = 1]>>] :
        s \in 0 .. 2, c \in Thd, sel \in {NULL, "is_ctx"}}

MCCPlans == Weighted \cup Structured \cup Threaded \cup {NULL}

Line(from, to, exec, f) == [start |-> from, end |-> to, x |-> exec, file |-> f]
MCMemMaps ==
    {{Line(2, 4, TRUE, "app"), Line(4, 6, TRUE, "libsysfail"), Line(6, 8, FALSE, "libsysfail"),
      Line(9, 12, TRUE, "libc")},
     {Line(2, 4, TRUE, "app"), Line(9, 12, TRUE, "libc")}}

\* rt_sigprocmask: libc's, one that unblocks SIGSYS and one of another signal.
SIG_UNBLOCK == 1
MCSigsysSets == {12}
MCCalls ==
    {<<n, 11, 12, 13, 14, 15, 16>> : n \in {SYS_write, SYS_exit, SYS_rt_sigreturn}} \cup
    {<<SYS_rt_sigprocmask, how, 12, 13, 14, 15, 16>> : how \in {SIG_SETMASK, SIG_UNBLOCK}} \cup
    {<<SYS_rt_sigprocmask, SIG_BLOCK, 22, 13, 14, 15, 16>>}
=============================================================================
