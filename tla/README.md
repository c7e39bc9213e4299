# sysfail in TLA+

sysfail injects failures and delays into the syscalls of the process it is
linked into. It switches on Linux's syscall user dispatch (SUD) thread by
thread: a dispatched thread whose selector byte is `BLOCK` gets `SIGSYS` for
every syscall made outside libsysfail's own text, and the `SIGSYS` handler
executes, delays or fails the syscall as the session's plan says. SUD can only
be switched on and off by the thread itself, so a session controls other threads
through real-time signals.

This directory specifies the parts of the library (`src/src`, `src/include`)
where that is hard: the control of threads, their discovery, the `SIGSYS` handler
and the signal mask, and what becomes of a plan written in C when a syscall of the
application traps.

## Inventory

| Part | State | Operations | Talks to |
|---|---|---|---|
| `Session` (`session.cc`, `sysfail.hh`) | shared mutex `lck`, the global `session` pointer | constructor, `add`, `remove` (own thread or by tid), `discover_threads`, destructor | calls `ActiveSession` under the shared lock, the destructor under the unique lock |
| `ActiveSession` (`session.cc`, `session.hh`) | `thd_st`: tid to `ThdState` (selector byte `on`, binary semaphore `sig_coord`), a concurrent map with per-entry accessors | `thd_enable`, `thd_disable` (two overloads each), `disarm`, `rearm`, `thd_track`, `fail_maybe` | signals to target threads, callbacks from `ThdMon` |
| Signal handlers (`session.cc`, `signal.cc`) | frames on the target's stack; all handlers may nest | `enable_sysfail`, `disable_sysfail`, `reenable_sysfail`, `handle_sigsys` | release `sig_coord`, write `on`, queue `SIG_REARM` |
| `ThdMon` (`thdmon.cc`) | `known_thds` (tid to generation), `gen`, `stop_ctrl`, `poll_initialized`, the poller thread | constructor, `process`, `scan_tasks`, `rescan_threads`, destructor | reads `/proc/self/task`, calls `thd_track` |
| `fail_maybe`, `ActiveOutcome` (`session.cc`) | table `error_by_cumulative_p`, the trapped context | the whole of one trapped syscall | executes the syscall, sleeps |
| C API (`cwrapper.cc`, `sysfail.h`) | the `Session` behind a `sysfail_session_t` | `sysfail_start`, `stop`, `add_thread`, `remove_thread`, `add_this_thread`, `remove_this_thread`, `discover_threads`, `sysfail_syscall_arg` | converts a list of outcomes into the tables of the plan |
| `inv_pred.cc`, `map.cc` | none, `AddrRange` of libsysfail's text | `invp::p`, `get_mmap`, `self_text` | eligibility of a call, the range exempt from dispatch |
| `syscall.cc`, `restore.S` | none | raw syscalls, return from a handler without `rt_sigreturn` | all handlers |
| `log.cc`, Go binding | none of their own | log, fill C plans from Go | everything; the C API |

The hard behaviours, and what correctness means there:

* **Signals with a pointer.** A controller sends the address of the target's map
  entry in a signal and waits on a semaphore inside that entry. The pointer must
  stay valid until the handler's last use, and the wait must neither end early
  nor last for ever.
* **Competing controllers.** API callers, the poller and the destructor enable
  and disable the same thread; when a call returns its effect must be there.
* **libc's windows.** glibc turns all signals off while it creates or ends a
  thread. A syscall that traps with `SIGSYS` blocked kills the process, so the
  thread must be disarmed inside the window and armed again after it.
* **Death.** Threads exit with control signals pending, and tids are reused.
* **Teardown** while the poller, which takes no session lock, keeps working.
* **Discovery** by reading a directory entry by entry while threads come and go.
* **Weights, biases and delays** that combine into one answer for a syscall.
* **Traps in the handler.** Delays are slept in libc, whose own syscall traps again;
  calls made from libsysfail's text must not.
* **From C plan to answer.** Lists with repeated entries, predicates over registers,
  narrowing conversions and values out of range; a session that is stopped while a
  call is in the handler.

## Modules

| Module | What it is |
|---|---|
| `ThdControl` | Thread control: API calls, the `thd_enable` / `thd_disable` protocol, signal delivery, the handlers, libc windows, thread birth and death, `~Session` |
| `Injection` | The abstract session: a set of injected threads that only selected threads join, and a session that closes when the set is empty |
| `ThdControlProofs` | Theorems about the signal protocol of `ThdControl`, and that it implements `Injection` |
| `SessionProofs` | Theorems about libc's windows and the end of a session (extends `ThdControlProofs`) |
| `ThdMon` | Thread discovery, step by step |
| `Discovery` | The abstract discovery: threads that existed are announced, announced ones that are gone are retracted, and it is up once the threads it found are announced. `ThdMon` implements it; in `ThdControl` the monitor reports whatever it allows |
| `ThdMonProofs` | Theorems about `ThdMon`, among them that it implements `Discovery` |
| `Dispatch` | `handle_sigsys` and the signal mask of one thread, interrupted by the application's own handlers |
| `DispatchProofs` | Theorems about `Dispatch` |
| `Plan` | Operators only: plan conversion, predicates, registers, outcome tables, the exempt text range |
| `FailMaybe` | Trapped syscalls of one thread through `handle_sigsys` and `fail_maybe`, nested where a delay's sleep traps (extends `Plan`) |
| `CSession` | A session of the C API around `FailMaybe`: start, thread operations, stop, and a call of the application |
| `PlanProofs` | Lemmas about `Plan`: sums of weights, the table and what a draw finds in it, delays, registers |
| `OutcomeProofs` | Theorems about `CSession` (extends `CSession` and `PlanProofs`) |
| `MCThdControl`, `MCThdMon`, `MCDispatch`, `MCCSession` | Instances for TLC (names of threads and signals, sets of requests, plans and memory maps) |

Operators carry the names of the code where there is one. An operator introduced
by a comment "Mutant of X" is X with a plausible mistake; no specification uses
it. It serves to show that a property fails when the mistake is made.

### ThdControl

`thd_st`, `on`, `sig_coord` are the members of the code; `accessor[t]` is who
holds the write accessor of t's entry, and a find or insert waits while it is
held. `call[a]` is where controller `a` is in `thd_enable` or `thd_disable`
(`lookup`, `send`, `await`; `apply` in the overloads for the own thread). The
critical steps are those of the code: `LookupEnable` / `LookupDisable` (selector
predicate, idempotency check, accessor), `Send` (first `acquire`, signal, with
`ESRCH` releasing the semaphore again), `Await` (second `acquire`, `release`,
erase). The two semaphore operations in `Send` and in `Await` are one step each:
no other actor touches a semaphore whose accessor is held, except the handler
that the signal starts.

The kernel's part is `sud` (dispatch on), `pending` and `life` (`run`: signals
on, `quiet`: signals off for libc, `dead`). The handlers are frames: `ctl`
(`enable_sysfail`, `disable_sysfail`, then `notify` for the destructor of
`NotifySigHdlrCompletion`), `rearm` and `sigsys`. `enable_handler` installs them
with `SA_NODEFER` and an empty mask, so they nest. Linux sets up frames for all
deliverable signals before the thread continues, lowest number first; thus
`SIG_REARM`, the highest, executes *on top of* a control handler that becomes
deliverable at the same time (`rearm = "over"`). That happens when a window ends.

A window begins with `Quiesce`; an armed thread traps and goes through `disarm`
and `QuiesceArmed`, three steps that control signals may interrupt. It ends with
`Unquiesce` or `Exit`. A trap inside a window (`SigsysBlocked`) ends the process;
`halt` records that, and the two asserts of the code.

A call in progress is the shared lock: `TeardownLock` waits for all of them, and
no API call starts afterwards. The poller (`thd_track`) obeys no lock, as in the
code: it may do anything before and after the step in which `TeardownLock` collects
the tids. Iterating over the concurrent map *while* the poller inserts or erases is
undefined, and the model does not go into it. `Destroy` is the release of the last reference to the `ActiveSession`.

Abstracted: the scan order of `/proc` (in `ThdMon`); exceptions of a failing
`prctl`; a torn read of the `session` pointer; more than one session. Without
polling, the scans of the constructor and of `discover_threads` are a series of
`thd_enable` calls, which `add_tid` already allows. Under `Polling`,
`discover_threads` makes an API thread run `thd_track`; the calls that result are those
of `add_tid` and `remove_tid`, and only `known` is left to the poller in the model.

`Coordinated` is an assumption about the application, not a guard of the code: an
API caller and a libc window of its target exclude each other, and so do the
destructor and the windows of the threads it has collected and not yet disabled.
Threads it is through with, or never knew, may open windows throughout. The docs ask
for no such coordination (`sysfail.hh:183`), so it is off in the safety runs, and
on only in `manual_live`, because without it the liveness properties and
`QuiescentDisarmed` do not hold: `exit_race`, `rearm_race` and `disarm_race` are what
happens then (see Findings). The theorems about windows assume it, the others do not.

### ThdMon

A scan is a sequence of steps: the directory is read, each entry is looked up
(`Visit`), reported and then inserted (`Insert`), the stale generations are
collected (`Collect`) and reported and erased one by one (`Remove`). Threads are
born and die between any two steps. `told[t]` counts reports of t's existence
minus reports of its end; the handler is otherwise abstract. The strategy
(`config`) is part of the initial state. The directory lists the threads alive when
the scan starts; a thread born, or dying, during the scan may or may not be seen by
it. `gen`
wraps after `Gens` generations (`uint32_t` in the code), and the semaphore
`poll_initialized`, released whenever a scan has generation 0, is counted up to 2,
one past its maximum: nobody takes it after the constructor.

The mapping to `Discovery` takes the threads with a positive `told` for announced
and the states of `owner` after the constructor for up. `ThdControl` meets the monitor
in that specification: `thd_track` and `poll_initialized` are enabled whenever
`Discovery` allows the report, so that the session is checked against every report
`ThdMon`, which implements `Discovery`, can make. `ThdControl` claims nothing about
the monitor itself.

### Dispatch

One injected thread, seen from below: `mask` is what the kernel blocks, `asked`
what it would block without sysfail. `stack` holds the main code and the
application's handlers that interrupted it; each context has its own progress
through `handle_sigsys` (`sigsys`, `continue`, `rearm`), because an application's
handler may interrupt the `SIGSYS` handler and trap again. The three steps are
disarm, execution of the `rt_sigprocmask`, and the queueing of `SIG_REARM`. Leaving
a sysfail handler through `sysfail_restore` keeps the mask; an application handler
ends with `rt_sigreturn`, which restores the mask saved at its delivery, whether it
traps or not. `unmask_sigsys` removes `SIGSYS` from the masks of handlers installed
before the session (`HandlerMasks`); handlers installed later (`LateMasks`) keep
theirs. All of the application's handlers share one `sa_mask`. Other syscalls do not
touch this state; what becomes of them is in `FailMaybe`. A null set of `rt_sigprocmask` is left out.
`SIG_REARM` is sent by the thread to itself, so the kernel delivers it before the
thread executes anything else, as soon as it is not blocked (`Runs`); an
application's signal may arrive before it and postpone it. How control signals and
the end of a session interfere with the same handler is in `ThdControl`.

Two definitions say what the application keeps to. `Coupled`: who blocks `SIGSYS`
blocks `SIG_REARM` too, who unblocks `SIG_REARM` unblocks `SIGSYS`, handlers do not
unblock `SIG_REARM`, and no handler is installed during the session with `SIGSYS` in
its mask. `LibcWindows`: masks are changed only as libc does around thread creation
and exit. `MCDispatch` assumes of its instances what the theorems assume.

### Plan, FailMaybe and CSession

A call is the sequence of its number and six arguments. Trapping turns it into
registers (`Registers`, with `rcx` lost to the kernel), `continue_syscall` and
`syscall` turn registers into a call again, and the predicates of both APIs read
them (`p`, `sysfail_syscall_arg`), so that a wrong register shows as a wrong call or
a wrong verdict. Predicates of users compare one argument with their user data.

`ActivePlan` is the conversion: lists become maps that keep the first entry for a
key, weights become the table of cumulative sums. Probabilities and weights are
multiples of `1/Denom`, and a draw is one of `Denom` equally likely intervals, so the
comparison with a probability or a cumulative weight is exact. Reading `e->second`
through `end()` yields zero or a value that is no error of the plan (`Garbage`).
`max_delay` is narrowed to an `int` whose greatest value is `IntMax` (`Delays`); for a
negative bound the distribution is undefined, and modelled as libstdc++ computes it.
`sysfail_probability_t`, `sysfail_error_wt_t`, `sysfail_syscall_outcome_t` and
`sysfail_plan_t` are the types of the C header: probabilities and weights are any
integers, so that values out of range, negative weights and sums other than 1 are
plans too, and errors are positive as `errno` is.

`stack` holds the trapped calls of the thread: the application's and, above it, the
`nanosleep` of a delay, which traps like any other call from libc unless the thread
was removed meanwhile. `drawn` remembers what the draws asked for. A frame takes
`handle_sigsys`, `Delay`, `sleep`, `Fail`, `continue_syscall`, `sleep` and `Finish`; the
early return of the code is `Fail` going to `done`. `continue_syscall` is enabled only
if a call from libsysfail's text does not trap.

`handle_sigsys` has all branches of the code. `exit`, `rt_sigreturn` and
`rt_sigprocmask` never reach `fail_maybe` (`Exempt`). An `rt_sigprocmask` is executed if
it blocks or sets a mask with `SIGSYS` (`BlocksSigsys`; `SigsysSets` are the addresses
that hold such a set); any other one is `Dropped`: not executed, its number left in
`%rax`. What these calls do to the mask and to dispatch is in `Dispatch`; here only
whether they are executed, and with which arguments.

`CSession` lets any C plan be started. `sysfail_start` returns null, throws for a
probability out of range, fails `self_text`'s assert or starts; then threads are
added, removed, discovered, polled and spawned, and the session is stopped, also while
the one call of the application is in the handler. A handler that finds the session
stopped executes the call. Injection of a thread is one step here, as `Injection`
promises and `ThdControl` implements.

The properties compare the answer, the executed call and the time slept with the C
plan itself (`Asked`, `Chosen`), not with the converted tables. Two things the code
does not do are not claimed, and listed under Findings: that a mask change which
leaves `SIGSYS` alone is executed (`MasksOthers`), and that a delay put off happens
when the call fails without being executed.

## Runs

`cfg` files bear the names of the runs. Deadlock is not checked: a program that
makes no more calls, or whose session is gone, stops.

| Run | Shows |
|---|---|
| `manual_safety` | Three threads (one spawned later and not selected, one that may exit and whose tid is given out again), four API calls in any order and the destructor, no coordination: `TypeOK`, `StPointerValid`, `CoordTaken`, `NoDanglingSelector`, `CallsTakeEffect`, `TeardownFindsNone`, `Implements` |
| `manual_live` | Two threads with windows, one may exit, `Coordinated`: `QuiescentDisarmed`, `CallsReturn`, `TeardownCompletes`, `Rearmed` |
| `poll` | The poller as a further controller, a thread born and threads dying during the session: `StPointerValid`, `CoordTaken` and `NewThreadsInjected` (threads the poller finds become injected) |
| `dispatch` | Two application signals, libc's windows in the main code and in handlers, handlers up to two deep: `ArmedUnblocked`, `RearmOnTheWay`, `MaskAsAsked` |
| `outcome` | 650 C plans: all mixes of failure, delay and bias over eight weight lists (sums below, at and above 1, zero weights, repeated errors); predicates of either API on every argument and beyond; repeated syscalls, outcomes for the exempt calls and for `nanosleep`, delays beyond `int`, values out of range; selectors and strategies. The application calls `write`, `exit`, `rt_sigreturn` or one of three `rt_sigprocmask`. `OutcomeAsPlanned`, `ExecutedAsCalled`, `SharesMatchWeights`, `FailsWhenDrawn`, `DelayedAsDrawn`, `Answered` |
| `discovery` | Both strategies, three threads, two rescans, any number of scans over three generations that wrap: `Announces` (the monitor implements `Discovery`), `ReportedOnce`, `StopJoins`, `DeathReported` |

### Bounds

Two controllers and one target already produce every race of the protocol: its
state is per entry, and a third controller waits at the same accessor. Four calls
allow add, remove, add and remove of one thread, with a death and a rebirth between
any two, which a stale effect needs. In
`poll` one call is enough because the poller makes the others. In `dispatch`, four
mask changes are two windows, and three contexts let a handler interrupt a handler
that interrupted `handle_sigsys`. `Gens = 3`
has a generation to mark, one to remove and the wrap, and scans are not bounded.
`Denom = 4` with weights 0 to 4 has sums below, at and above 1 and ties. `IntMax = 3`
makes `max_delay` 5 a negative bound and 9 one that wraps to 1. `MaxDepth = 3` nests the
sleep of a sleep; a plan that delays `nanosleep` would nest without end, and the
bound stops it there. `MaxOps = 2` allows a thread to be spawned and found, or removed
and added, or removed and the session stopped, while the call is in the handler.
`MaxCalls`, `MaxRescans`, `MaxChanges`, `MaxDepth` and `MaxOps` are the only bounds
on counters.

### Fairness

Every thread, handler and the poller is scheduled again and again (weak fairness
of its steps), the kernel delivers a deliverable signal, and libc leaves its
windows. Weak fairness is all the code gets from the kernel's scheduler; it waits
on locks that the model's guards express, and each controller's wait ends with a
condition that stays true. Nobody is obliged to call the API, to open a window,
to spawn, to rescan or to end the session. In `ThdMon` the wait of the poller
ends by its interval, as `wait_for` guarantees. In `CSession` the thread inside the
handler is scheduled; nobody has to call anything.

## Findings

Runs with a violated property show where the code disagrees with its own comment,
assert or documentation. Each is listed in `PROJECT.json` with the line.

* `exit_race`: a control signal queued to a thread that blocked signals to exit is
  never handled, the kernel reports no `ESRCH`, and the controller waits for ever
  in its second `acquire`.
* `rearm_race`: `SIG_DISABLE` and `SIG_REARM` are delivered together at the end of
  a window. `rearm` waits for the accessor; its holder waits for the handler below.
* `poll_teardown`: the poller enables a thread after the destructor collected the
  tids; the assert on the empty table fails.
* `disarm_race`: a thread traps on its way into a window while a `remove` for it is
  under way. `SIG_DISABLE` is handled inside `handle_sigsys`, the entry is erased, and
  `disarm` then finds none: its assert fails.
* `mask_dropped`: a trapped `rt_sigprocmask` whose set lacks `SIGSYS` is not
  executed; its result is the syscall's number.
* `discover_race`: two concurrent `discover_threads` without polling use the table
  of known threads unsynchronised and report a thread twice.

The same constants and properties show more that has no run of its own:
`QuiescentDisarmed` fails in `manual_live` with `Coordinated = FALSE` (remove and add
between `disarm` and the mask change leave the window armed), and
`CallsTakeEffect` excepts `add` for tids in `Reused` because the entry of a dead
thread turns it into a no-op for its successor, although `sysfail.hh:181` promises
injection. Weights that sum to less than 1 lower the probability of failure, against
`sysfail.hh:104-106` ("This does not affect the probability of failure"): the draws
above the sum find no error, and `FailsWhenDrawn` fails without its premise
`Covered`. A delay that is put off until after the call is lost when the call then
fails without being executed (`session.cc:292`), also if its probability is 1,
against `sysfail.h:26-29` ("1 means always fail or delay"): `DelayedAsDrawn` fails if
`slept = asked` is claimed for every call. `SharesMatchWeights`
and `OutcomeAsPlanned` need their premises: an error of weight 0 replaces its
predecessor in the table, and weights above a sum of 1 starve later errors.
`DeathReported` excepts a thread last seen in the last generation before the wrap:
`g < gen` never holds for it again. `Answered` and `DelayedAsDrawn` except plans with an
outcome for `nanosleep` that the sleeps of `fail_maybe` would meet themselves, which
the comment in `sleep` admits: delaying it nests for ever, and failing it cuts delays
short. In `Dispatch`, `ArmedUnblocked` fails if `LateMasks` has a set with `SIGSYS`, or if
a request blocks `SIGSYS` and not `SIG_REARM`, and `MaskAsAsked` if handlers restore a
mask themselves (`HandlerRequests`).

## Proofs

Every safety property the passing runs check is also a theorem, for every value of
the constants. `tlapm M.tla` checks the proofs of module M. The assumptions are the
named `ASSUME`s of the modules (types of the constants, which TLC evaluates on the
instances of the runs) and the hypotheses given with each theorem.

### ThdControlProofs

Any set of threads, any number of calls, any choice of selected, spawning and
exiting threads.

* `TypeCorrect`, `PointersValid`, `SemaphoreTaken`: with and without polling.
  None of these is inductive. The invariant is `Protocol`: a held accessor belongs
  to an entry and to a call past its lookup (`AccessorHeld`), such a call holds its
  target's accessor (`HolderHolds`), the overloads without tid work on the caller
  (`SelfCalls`), a thread has at most one control signal in flight
  (`OneInFlight`), and the destructor excludes API calls (`DtorAlone`). Together
  with `StPointerValid` and `CoordTaken` it is preserved by every action: a signal
  is only sent by the holder of the accessor, which finds the semaphore at 1, hence
  nothing in flight; it leaves `await` only with the semaphore at 1, hence with
  nothing in flight again. That the semaphore never exceeds 1 is part of
  `TypeCorrect` and needs the same invariant, so both are proved together.
* `SelectorsAlive`: without polling. The strengthening `Dispatch` says that the
  handler on its way is of the kind the waiting controller asked for
  (`KindMatches`), that a waiting `thd_disable` whose target is still dispatched
  has its signal in flight (`DisableWaits`), that dead threads have nothing
  pending (`FramesAlive`) and that the table is empty once the destructor is past
  its assert (`OnlyApi`). With polling it does not hold: the poller may enable a
  thread after the destructor's assert, whose entry is then freed with the table.
* `CallsEffective`: without polling. `EnableWaits` is the counterpart for
  `thd_enable`, and says that an entry nobody works on belongs to a dispatched thread,
  unless its tid may be given out again. Every step that ends a call is one of five
  (`ReturnStep`), and for each the effect follows (`EffectStep`).
* `Refinement`: without polling, `ThdControl` implements `Injection` under the
  mapping `injected = {t : sud[t]}`, `open = session`. Each step changes dispatch
  of at most one thread, starts only registered and thus selected ones, and resets
  the session with the table empty, hence by `SelectorsAlive` with nobody injected.

### SessionProofs

* `WindowsQuiet`: without polling and `Coordinated`, because without either a controller
  may arm or forget a thread between its `disarm` and the mask change.
  `QuiescentDisarmed` is not inductive: `Windows` adds that a thread on its way
  into a window has an entry, that nobody works on it, that no `SIG_REARM` is pending
  while its signals are on or handled while it is on its way, and that its selector
  stays `ALLOW` from `disarm` to the mask change.
* `NoneLeft`: without polling. Between the collection and the assert, every entry left
  is in the destructor's list or is the one it works on (`Collected`), because the
  unique lock excluded all others.
* `KeepsRunning`: under both hypotheses these leave no way for the library to end the
  process: no assert fails and no trap finds `SIGSYS` blocked. `disarm_race` shows that
  it needs `Coordinated`.

### ThdMonProofs

Any threads, strategy, number of rescans and generations.

* The invariant `Inv` says how construction, polling and destruction follow each other
  (`Phases`), who may be scanning and which lock it holds (`Scanners`), that what a scan
  has in its hands existed (`Existed`), that without polling no generation passes
  (`OneGeneration`), that a scan reaches every known thread that is alive and sweeps
  only threads that are gone (`Present`), that `told` is what `known_thds` and the
  scans in progress say (`Told`), and that the constructor's scan misses nobody
  (`FirstScan`).
* `ReportsOnce` is stated for `Serial`: with polling, where `stop_mtx` serialises the
  scans, or with at most one thread that calls `discover_threads`. Two such threads
  without polling report a thread twice (`discover_race`).
* `ImplementsDiscovery` has no hypothesis. Reporting a thread twice is still no
  second announcement, and `Present` is what makes a retraction legal also when `gen`
  wraps.

### DispatchProofs

Any signals, requests, masks and depth of nesting.

* `TypeCorrect` and `RearmNotForgotten` hold whatever the application asks for.
* `ArmedCanTrap` assumes `Coupled`. While the thread is armed, *every* context, also
  those it will return to, has `SIGSYS` unblocked (`AllUnblocked`); this needs that a
  context with `SIGSYS` blocked has `SIG_REARM` blocked with all contexts above it
  (`Covered`), and that between `disarm` and the queueing of `SIG_REARM` no other
  `SIG_REARM` can be delivered (`InWindow`).
* `MaskFollows` assumes `Coupled` and `LibcWindows`; without the latter it is refuted
  by `mask_dropped`.

### PlanProofs and OutcomeProofs

Any C plans of the header's types, any calls, memory maps and threads, any resolution
of probabilities, width of `int` and depth of nesting.

* `PlanProofs` derives what `fail_maybe` finds in its table. Sums over sets are a
  recursive definition; an induction is written as the smallest set for which the
  claim fails (`LeastNatural`, `SmallestSet`), for each claim anew, since the induction
  theorems of the library cannot be instantiated. From `SumStep` follow the order of
  the cumulative sums (`SumMonotonic`), what `lower_bound` finds (`Found`) and, for
  positive weights that sum to 1, that each error has exactly as many draws as its
  weight (`Shares`).
* The invariant `Safe` of `OutcomeProofs`: trapped calls are frames of which only the
  innermost is not asleep (`Stacked`); a session that is on has the converted plan and
  injects only selected threads (`Started`); and the frame of the application's call
  has its arguments, is decided on only if the plan chose it, has been executed or not
  according to its place, and reaches the end in one of four ways (`Ended`): it failed
  before it was executed, was none of the plan's and executed, was a mask change left
  out, or was executed and then perhaps failed. That the code's view of the call, through registers, converted table and
  predicates, is the plan's (`EligibleAsAsked`, `ContinuedAsCalled`) enters here.
  `FollowsPlan`, `ExecutesTheCall`, `FailureFollowsDraw` and `WeightsRespected` follow
  from it at the end of the call; `stop`, `remove_thread` and the others may happen at
  any point.
* `DelayFollowsDraw` adds `Slept`: if sleeps are not the plan's own business, at most one
  sleep traps above the call, and the time slept is what the call had to pay at its place
  (`Paid`), plus the sleep's own duration once that was executed. An interrupted sleep
  has paid nothing and starts again. The theorem says just what was drawn of calls that
  are executed, and of the others that a delay before them was slept and nothing beyond
  what was drawn.

### Only model-checked

All liveness (`CallsReturn`, `TeardownCompletes`, `Rearmed`, `NewThreadsInjected`,
`StopJoins`, `DeathReported`, `Answered`): the prover has no rules for fairness and
`ENABLED`. That properties fail where the hypotheses above are dropped is shown by the
violated runs on small instances.

## Not modelled

`log.cc` (output only) and the Go binding (cgo glue that fills the C structures).
Of `restore.S`, the bytes it writes on the interrupted stack and the floating-point
state; of `map.cc`, the text of `/proc/self/maps` and the regular expressions. Failing
`sigaction` and `prctl`, and `EAGAIN` of the signal queue. A second session, and the
reference to the `ActiveSession` that `rt_sigreturn` and `exit` leak by not returning
to `handle_sigsys`. Calls of libc inside handlers other than the sleep (`gettid`,
`getpid`), which trap and are executed like any call without an outcome.

## Plan

1. Thread control with polling: the refinement of `Injection` and `NoDanglingSelector` up
   to the destructor, where the poller is the only controller without the lock.
2. A composition of `ThdControl` with `ThdMon`: `discover_threads` under the session
   lock while the poller scans.
3. The safety content of the liveness properties: what each waiting controller waits for
   exists (a handler, a signal or a holder), as an invariant behind `CallsReturn` under
   `Coordinated`.
