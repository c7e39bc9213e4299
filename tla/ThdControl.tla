----------------------------- MODULE ThdControl -----------------------------
(***************************************************************************)
(* Thread control of a sysfail session: how threads are put under, and     *)
(* taken out of, failure injection (src/src/session.cc, signal.cc).        *)
(*                                                                         *)
(* A controller (an application thread inside Session::add or remove, the  *)
(* thread running ~Session, or ThdMon's poller) finds or inserts the       *)
(* target's entry in thd_st, holds the entry's write accessor, sends the   *)
(* target SIG_ENABLE or SIG_DISABLE and waits on the entry's binary        *)
(* semaphore sig_coord, which the target's handler releases.  Meanwhile    *)
(* threads enter and leave libc's quiescent windows (all signals off, for  *)
(* thread spawn and teardown), which makes an armed thread disarm itself   *)
(* in the SIGSYS handler and queue a SIG_REARM to itself.                  *)
(*                                                                         *)
(* A thread runs its handlers nested: a handler suspends what it           *)
(* interrupts.  Signals pending together are delivered together, lowest    *)
(* number first, so the handler of the highest number runs first.          *)
(***************************************************************************)
EXTENDS Naturals, FiniteSets

CONSTANTS
    Thd,         \* tids of the application's threads
    Owner,       \* the thread that destroys the Session
    Poller,      \* ThdMon's poller thread
    Polling,     \* thread discovery is ProcPoll (TRUE) or None (FALSE)
    Selected,    \* the tids plan.selector accepts
    Unborn,      \* threads that do not exist when the session starts
    Spawners,    \* threads that create threads
    Exiters,     \* threads that may end
    Reused,      \* tids the kernel may give to a new thread after they died
    Coordinated, \* API callers keep out of the target's libc windows
    MaxCalls,    \* bound: calls made through the Session API
    NoThd        \* no thread

ASSUME ThdAssumption ==
    /\ Owner \in Thd
    /\ Poller \notin Thd
    /\ NoThd \notin Thd \cup {Poller}
    /\ Selected \subseteq Thd
    /\ Unborn \subseteq Thd \ {Owner}
    /\ Spawners \subseteq Thd
    /\ Exiters \subseteq Thd \ {Owner}
    /\ Reused \subseteq Thd
    /\ Polling \in BOOLEAN
    /\ Coordinated \in BOOLEAN
    /\ MaxCalls \in Nat

VARIABLES
    life,      \* unborn, run (signals on), quiet (libc turned signals off), dead
    sud,       \* kernel: syscall-user-dispatch is on, selector = the entry's on
    pending,   \* kernel: sysfail's signals queued for the thread
    thd_st,    \* tids that have an entry in ActiveSession::thd_st
    on,        \* ThdState::on
    sig_coord, \* ThdState::sig_coord, a binary semaphore
    accessor,  \* who holds the write accessor of the entry
    call,      \* per controller: the thd_enable / thd_disable in progress
    ctl,       \* per thread: the enable_sysfail / disable_sysfail frame
    rearm,     \* per thread: the reenable_sysfail frame
    sigsys,    \* per thread: the handle_sigsys frame of a mask change
    session,   \* the global session pointer is set
    dtor,      \* progress of ~Session
    tids,      \* ~Session: tids collected and not yet disabled
    known,     \* ThdMon::known_thds without the poller itself
    ready,     \* Session's constructor has returned
    calls,     \* API calls made so far
    halt       \* why the process stopped, if it did

kernel  == <<life, sud, pending>>
entries == <<thd_st, on, sig_coord, accessor>>
frames  == <<ctl, rearm, sigsys>>
owner   == <<session, dtor, tids>>
monitor == <<known, ready>>
vars    == <<kernel, entries, call, frames, owner, monitor, calls, halt>>

Actor == Thd \cup {Poller}
CtlSig == {"SIG_ENABLE", "SIG_DISABLE"}
Sig == CtlSig \cup {"SIG_REARM"}
Idle == [fn |-> "none", tid |-> NoThd, at |-> "none"]

CallType ==
    {Idle} \cup
    [fn : {"thd_enable", "thd_disable"}, tid : Thd, at : {"lookup", "send", "await"}] \cup
    [fn : {"enable_self", "disable_self"}, tid : Thd, at : {"lookup", "apply"}]

TypeOK ==
    /\ life \in [Thd -> {"unborn", "run", "quiet", "dead"}]
    /\ sud \in [Thd -> BOOLEAN]
    /\ pending \in [Thd -> SUBSET Sig]
    /\ thd_st \in SUBSET Thd
    /\ on \in [Thd -> {"ALLOW", "BLOCK"}]
    /\ sig_coord \in [Thd -> {0, 1}]
    /\ accessor \in [Thd -> Actor \cup {NoThd}]
    /\ call \in [Actor -> CallType]
    /\ ctl \in [Thd -> {"none", "enable", "disable", "notify"}]
    /\ rearm \in [Thd -> {"none", "spin", "over"}]
    /\ sigsys \in [Thd -> {"none", "disarm", "block"}]
    /\ session \in BOOLEAN
    /\ dtor \in {"off", "looping", "asserted", "reset", "gone"}
    /\ tids \in SUBSET Thd
    /\ known \in SUBSET Thd
    /\ ready \in BOOLEAN
    /\ calls \in Nat
    /\ halt \in {"no", "disarm", "teardown", "sigsys"}
-----------------------------------------------------------------------------
\* No assert failed and no trap met a blocked SIGSYS.
Running == halt = "no"

Alive(t) == life[t] \in {"run", "quiet"}

\* A syscall made outside libsysfail's text traps to SIGSYS.
Armed(t) == sud[t] /\ on[t] = "BLOCK"

\* The SIGSYS handler of t is not suspended by a signal of the control protocol.
SigsysRuns(t) == Running /\ life[t] = "run" /\ ctl[t] = "none" /\ rearm[t] = "none"

\* The thread executes its own code: no handler is in progress.
BaseRuns(a) == Running /\ (a \in Thd => SigsysRuns(a) /\ sigsys[a] = "none")

\* With Coordinated, an API call for t and a libc window of t exclude each
\* other, and so do the windows of a thread and ~Session from the moment it has
\* collected the thread until it has disabled it (an assumption on the
\* application, not a guard of the code).
MayTarget(t) == Coordinated => life[t] # "quiet" /\ sigsys[t] = "none"

\* Mutant of AccessorFree: nobody waits for an accessor.
AccessorIgnored(t) == TRUE

AccessorFree(t) == accessor[t] = NoThd

\* Mutant of acquire: it returns at once.
acquire_skipped(t) == TRUE

\* The semaphore of t can be taken.
acquire(t) == sig_coord[t] = 1

Return(a) == call' = [call EXCEPT ![a] = Idle]
At(a, pc) == call' = [call EXCEPT ![a].at = pc]

-----------------------------------------------------------------------------
Init ==
    /\ life = [t \in Thd |-> IF t \in Unborn THEN "unborn" ELSE "run"]
    /\ sud = [t \in Thd |-> FALSE]
    /\ pending = [t \in Thd |-> {}]
    /\ thd_st = {}
    /\ on = [t \in Thd |-> "ALLOW"]
    /\ sig_coord = [t \in Thd |-> 1]
    /\ accessor = [t \in Thd |-> NoThd]
    /\ call = [a \in Actor |-> Idle]
    /\ ctl = [t \in Thd |-> "none"]
    /\ rearm = [t \in Thd |-> "none"]
    /\ sigsys = [t \in Thd |-> "none"]
    /\ session = TRUE
    /\ dtor = "off"
    /\ tids = {}
    /\ known = {}
    /\ ready = ~Polling
    /\ calls = 0
    /\ halt = "no"
-----------------------------------------------------------------------------
(* Entering the protocol: the Session API, under the shared lock (held as   *)
(* long as the call is in progress), and the poller, which takes no lock.   *)
(* Without polling, the scans of the constructor and of discover_threads    *)
(* call thd_enable for one thread after the other, as add_tid does.         *)

ApiCall(a, f, t) ==
    /\ BaseRuns(a) /\ call[a] = Idle
    /\ ready /\ dtor = "off" /\ calls < MaxCalls
    /\ life[t] # "unborn"
    /\ MayTarget(t)
    /\ call' = [call EXCEPT ![a] = [fn |-> f, tid |-> t, at |-> "lookup"]]
    /\ calls' = calls + 1
    /\ UNCHANGED <<kernel, entries, frames, owner, monitor, halt>>

add(a) == ApiCall(a, "enable_self", a)
remove(a) == ApiCall(a, "disable_self", a)
add_tid(a, t) == ApiCall(a, "thd_enable", t)
remove_tid(a, t) == ApiCall(a, "thd_disable", t)

\* The scan does not find t any more.
Gone(t) == life[t] = "dead"

\* ThdMon::scan_tasks reports t to ActiveSession::thd_track.  Whatever Discovery
\* lets it report it may report here, and ThdMon, the monitor itself, implements
\* Discovery: a thread reported as spawned may have ended since.
thd_track(t) ==
    /\ Running /\ Polling /\ dtor # "gone" /\ call[Poller] = Idle
    /\ \/ /\ t \notin known /\ life[t] # "unborn"
          /\ known' = known \cup {t}
          /\ call' = [call EXCEPT ![Poller] = [fn |-> "thd_enable", tid |-> t, at |-> "lookup"]]
       \/ /\ t \in known /\ Gone(t)
          /\ known' = known \ {t}
          /\ call' = [call EXCEPT ![Poller] = [fn |-> "thd_disable", tid |-> t, at |-> "lookup"]]
    /\ UNCHANGED <<kernel, entries, frames, owner, ready, calls, halt>>

\* The first scan is over (Discovery's Ready): ThdMon's constructor returns, then
\* Session's.
poll_initialized ==
    /\ Running /\ ~ready /\ call[Poller] = Idle
    /\ \A t \in Thd \ Unborn : t \in known \/ life[t] = "dead"
    /\ ready' = TRUE
    /\ UNCHANGED <<kernel, entries, call, frames, owner, known, calls, halt>>
-----------------------------------------------------------------------------
(* thd_enable and thd_disable.  Insert and find wait for the accessor.      *)

Insert(a, t) ==
    /\ thd_st' = thd_st \cup {t}
    /\ on' = [on EXCEPT ![t] = "ALLOW"]
    /\ sig_coord' = [sig_coord EXCEPT ![t] = 1]
    /\ accessor' = [accessor EXCEPT ![t] = a]

LookupEnable(a) ==
    LET t == call[a].tid IN
    /\ BaseRuns(a)
    /\ call[a].fn \in {"thd_enable", "enable_self"} /\ call[a].at = "lookup"
    /\ \/ /\ t \notin Selected \/ (t \in thd_st /\ AccessorFree(t))
          /\ Return(a)
          /\ UNCHANGED entries
       \/ /\ t \in Selected /\ t \notin thd_st
          /\ Insert(a, t)
          /\ At(a, IF call[a].fn = "thd_enable" THEN "send" ELSE "apply")
    /\ UNCHANGED <<kernel, frames, owner, monitor, calls, halt>>

LookupDisable(a) ==
    LET t == call[a].tid IN
    /\ BaseRuns(a)
    /\ call[a].fn \in {"thd_disable", "disable_self"} /\ call[a].at = "lookup"
    /\ \/ /\ t \notin thd_st
          /\ Return(a)
          /\ UNCHANGED accessor
       \/ /\ t \in thd_st /\ AccessorFree(t)
          /\ accessor' = [accessor EXCEPT ![t] = a]
          /\ At(a, IF call[a].fn = "thd_disable" THEN "send" ELSE "apply")
    /\ UNCHANGED <<kernel, thd_st, on, sig_coord, frames, owner, monitor, calls, halt>>

\* Mutant of send_signal: the semaphore is not released on ESRCH.
send_signal_no_release(t, sig) ==
    /\ sig_coord' = [sig_coord EXCEPT ![t] = 0]
    /\ pending' = IF Alive(t) THEN [pending EXCEPT ![t] = @ \cup {sig}] ELSE pending

\* acquire() has taken the semaphore; on ESRCH it is released again.
send_signal(t, sig) ==
    \/ /\ Alive(t)
       /\ sig_coord' = [sig_coord EXCEPT ![t] = 0]
       /\ pending' = [pending EXCEPT ![t] = @ \cup {sig}]
    \/ /\ ~Alive(t)
       /\ UNCHANGED <<sig_coord, pending>>

\* Mutant of CtlSigOf: thd_enable sends the wrong signal.
CtlSigWrong(f) == "SIG_DISABLE"

CtlSigOf(f) == IF f = "thd_enable" THEN "SIG_ENABLE" ELSE "SIG_DISABLE"

\* sig_coord.acquire() and send_signal.
Send(a) ==
    LET t == call[a].tid IN
    /\ BaseRuns(a)
    /\ call[a].at = "send" /\ acquire(t)
    /\ send_signal(t, CtlSigOf(call[a].fn))
    /\ At(a, "await")
    /\ UNCHANGED <<life, sud, thd_st, on, accessor, frames, owner, monitor, calls, halt>>

\* sig_coord.acquire(), release(), and for thd_disable the erase; the
\* accessor and the lock go with the scope.
Await(a) ==
    LET t == call[a].tid IN
    /\ BaseRuns(a)
    /\ call[a].at = "await" /\ acquire(t)
    /\ thd_st' = IF call[a].fn = "thd_disable" THEN thd_st \ {t} ELSE thd_st
    /\ accessor' = [accessor EXCEPT ![t] = NoThd]
    /\ Return(a)
    /\ UNCHANGED <<kernel, on, sig_coord, frames, owner, monitor, calls, halt>>

enable(t) ==
    /\ sud' = [sud EXCEPT ![t] = TRUE]
    /\ on' = [on EXCEPT ![t] = "BLOCK"]

\* Mutant of disable: the thread's dispatch is left on.
disable_noop(t) == UNCHANGED sud

disable(t) == sud' = [sud EXCEPT ![t] = FALSE]

\* The overloads for the calling thread.
ApplySelf(a) ==
    /\ BaseRuns(a)
    /\ call[a].at = "apply"
    /\ \/ /\ call[a].fn = "enable_self"
          /\ enable(a)
          /\ UNCHANGED thd_st
       \/ /\ call[a].fn = "disable_self"
          /\ on' = [on EXCEPT ![a] = "ALLOW"]
          /\ disable(a)
          /\ thd_st' = thd_st \ {a}
    /\ accessor' = [accessor EXCEPT ![a] = NoThd]
    /\ Return(a)
    /\ UNCHANGED <<life, pending, sig_coord, frames, owner, monitor, calls, halt>>
-----------------------------------------------------------------------------
(* Signal delivery (kernel) and the handlers.                               *)

\* Everything pending is delivered at once; SIG_REARM has the highest number,
\* so its frame is on top of a control handler's that arrives with it.
DeliverAll(t) ==
    /\ ctl' = [ctl EXCEPT ![t] =
                 IF "SIG_ENABLE" \in pending[t] THEN "enable"
                 ELSE IF "SIG_DISABLE" \in pending[t] THEN "disable" ELSE @]
    /\ rearm' = [rearm EXCEPT ![t] =
                   IF "SIG_REARM" \notin pending[t] THEN @
                   ELSE IF pending[t] \cap CtlSig # {} THEN "over" ELSE "spin"]
    /\ pending' = [pending EXCEPT ![t] = {}]

Deliver(t) ==
    /\ Running /\ life[t] = "run" /\ pending[t] # {}
    /\ DeliverAll(t)
    /\ UNCHANGED <<life, sud, entries, call, sigsys, owner, monitor, calls, halt>>

enable_sysfail(t) ==
    /\ Running /\ ctl[t] = "enable" /\ rearm[t] # "over"
    /\ IF session THEN enable(t) ELSE UNCHANGED <<sud, on>>
    /\ ctl' = [ctl EXCEPT ![t] = "notify"]
    /\ UNCHANGED <<life, pending, thd_st, sig_coord, accessor, call, rearm, sigsys, owner, monitor, calls, halt>>

disable_sysfail(t) ==
    /\ Running /\ ctl[t] = "disable" /\ rearm[t] # "over"
    /\ IF session THEN disable(t) ELSE UNCHANGED sud
    /\ ctl' = [ctl EXCEPT ![t] = "notify"]
    /\ UNCHANGED <<life, pending, entries, call, rearm, sigsys, owner, monitor, calls, halt>>

\* ~NotifySigHdlrCompletion
NotifySigHdlrCompletion(t) ==
    /\ Running /\ ctl[t] = "notify" /\ rearm[t] # "over"
    /\ sig_coord' = [sig_coord EXCEPT ![t] = @ + 1]
    /\ ctl' = [ctl EXCEPT ![t] = "none"]
    /\ UNCHANGED <<kernel, thd_st, on, accessor, call, rearm, sigsys, owner, monitor, calls, halt>>

\* Mutant of Rearm and Disarm: the selector keeps its value.
SelectorKept(t) == UNCHANGED on

\* ActiveSession::rearm and disarm, once they have the entry's accessor.
Rearm(t) == on' = [on EXCEPT ![t] = "BLOCK"]
Disarm(t) == on' = [on EXCEPT ![t] = "ALLOW"]

reenable_sysfail(t) ==
    /\ Running
    /\ rearm[t] = "over" \/ (rearm[t] = "spin" /\ ctl[t] = "none")
    /\ \/ /\ ~session \/ t \notin thd_st
          /\ UNCHANGED on
       \/ /\ session /\ t \in thd_st /\ AccessorFree(t)
          /\ Rearm(t)
    /\ rearm' = [rearm EXCEPT ![t] = "none"]
    /\ UNCHANGED <<kernel, thd_st, sig_coord, accessor, call, ctl, sigsys, owner, monitor, calls, halt>>
-----------------------------------------------------------------------------
(* libc's quiescent windows, thread birth and death.                        *)

\* rt_sigprocmask turns every signal off; an armed thread traps.
Quiesce(t) ==
    /\ t \in Spawners \cup Exiters
    /\ BaseRuns(t) /\ call[t] = Idle
    /\ Coordinated => t \notin tids /\ \A a \in Thd : call[a].tid # t
    /\ t = Owner => ready /\ dtor \in {"off", "gone"}
    /\ IF Armed(t) /\ session
       THEN /\ sigsys' = [sigsys EXCEPT ![t] = "disarm"]
            /\ UNCHANGED life
       ELSE /\ life' = [life EXCEPT ![t] = "quiet"]
            /\ UNCHANGED sigsys
    /\ UNCHANGED <<sud, pending, entries, call, ctl, rearm, owner, monitor, calls, halt>>

disarm(t) ==
    /\ sigsys[t] = "disarm" /\ SigsysRuns(t)
    /\ \/ /\ t \in thd_st /\ AccessorFree(t)
          /\ Disarm(t)
          /\ sigsys' = [sigsys EXCEPT ![t] = "block"]
          /\ UNCHANGED halt
       \/ /\ t \notin thd_st
          /\ halt' = "disarm"
          /\ UNCHANGED <<on, sigsys>>
    /\ UNCHANGED <<kernel, thd_st, sig_coord, accessor, call, ctl, rearm, owner, monitor, calls>>

\* handle_sigsys goes on: the mask change takes effect, SIG_REARM is queued.
QuiesceArmed(t) ==
    /\ sigsys[t] = "block" /\ SigsysRuns(t)
    /\ life' = [life EXCEPT ![t] = "quiet"]
    /\ pending' = [pending EXCEPT ![t] = @ \cup {"SIG_REARM"}]
    /\ sigsys' = [sigsys EXCEPT ![t] = "none"]
    /\ UNCHANGED <<sud, entries, call, ctl, rearm, owner, monitor, calls, halt>>

\* libc turns signals on again.
Unquiesce(t) ==
    /\ Running /\ life[t] = "quiet" /\ ~Armed(t)
    /\ t \in Spawners \cup Unborn \cup Reused
    /\ life' = [life EXCEPT ![t] = "run"]
    /\ DeliverAll(t)
    /\ UNCHANGED <<sud, entries, call, sigsys, owner, monitor, calls, halt>>

\* A trap while SIGSYS is blocked: the kernel kills the process.
SigsysBlocked(t) ==
    /\ Running /\ life[t] = "quiet" /\ Armed(t)
    /\ halt' = "sigsys"
    /\ UNCHANGED <<kernel, entries, call, frames, owner, monitor, calls>>

Spawn(p, t) ==
    /\ Running /\ p \in Spawners /\ life[p] = "quiet" /\ ~Armed(p)
    /\ life[t] = "unborn" \/ (life[t] = "dead" /\ t \in Reused)
    /\ life' = [life EXCEPT ![t] = "quiet"]
    /\ UNCHANGED <<sud, pending, entries, call, frames, owner, monitor, calls, halt>>

Exit(t) ==
    /\ t \in Exiters
    /\ Running /\ life[t] = "quiet" /\ ~Armed(t)
    /\ life' = [life EXCEPT ![t] = "dead"]
    /\ sud' = [sud EXCEPT ![t] = FALSE]
    /\ pending' = [pending EXCEPT ![t] = {}]
    /\ UNCHANGED <<entries, call, frames, owner, monitor, calls, halt>>
-----------------------------------------------------------------------------
(* ~Session, run by Owner.                                                  *)

\* Mutant of LockFree: ~Session does not wait for the calls in progress.
LockIgnored == TRUE

\* No call holds the shared lock.
LockFree == \A t \in Thd : call[t] = Idle

\* The lock and the iteration over thd_st.  Without polling nobody else works on
\* the table by then.  The poller may, and iterating over a concurrent map while
\* it inserts or erases is undefined; what it does after the iteration is modelled.
TeardownLock ==
    /\ BaseRuns(Owner) /\ ready /\ dtor = "off" /\ LockFree
    /\ dtor' = "looping"
    /\ tids' = thd_st
    /\ UNCHANGED <<kernel, entries, call, frames, session, monitor, calls, halt>>

TeardownDisable(t) ==
    /\ BaseRuns(Owner) /\ dtor = "looping" /\ call[Owner] = Idle
    /\ t \in tids /\ MayTarget(t)
    /\ tids' = tids \ {t}
    /\ call' = [call EXCEPT ![Owner] = [fn |-> "thd_disable", tid |-> t, at |-> "lookup"]]
    /\ UNCHANGED <<kernel, entries, frames, session, dtor, monitor, calls, halt>>

TeardownAssert ==
    /\ BaseRuns(Owner) /\ dtor = "looping" /\ call[Owner] = Idle
    /\ tids = {}
    /\ IF thd_st = {}
       THEN dtor' = "asserted" /\ UNCHANGED halt
       ELSE halt' = "teardown" /\ UNCHANGED dtor
    /\ UNCHANGED <<kernel, entries, call, frames, session, tids, monitor, calls>>

TeardownReset ==
    /\ BaseRuns(Owner) /\ dtor = "asserted"
    /\ session' = FALSE
    /\ dtor' = "reset"
    /\ UNCHANGED <<kernel, entries, call, frames, tids, monitor, calls, halt>>

\* The last reference to the ActiveSession goes: ~ThdMon joins the poller,
\* then thd_st is freed.  A SIGSYS handler in progress holds a reference.
Destroy ==
    /\ BaseRuns(Owner) /\ dtor = "reset"
    /\ call[Poller] = Idle
    /\ \A t \in Thd : sigsys[t] = "none"
    /\ dtor' = "gone"
    /\ thd_st' = {}
    /\ UNCHANGED <<kernel, on, sig_coord, accessor, call, frames, session, tids, monitor, calls, halt>>
-----------------------------------------------------------------------------
ControllerStep(a) ==
    LookupEnable(a) \/ LookupDisable(a) \/ Send(a) \/ Await(a) \/ ApplySelf(a)

HandlerStep(t) ==
    \/ enable_sysfail(t) \/ disable_sysfail(t) \/ NotifySigHdlrCompletion(t)
    \/ reenable_sysfail(t) \/ disarm(t) \/ QuiesceArmed(t)

Teardown ==
    \/ \E t \in Thd : TeardownDisable(t)
    \/ TeardownAssert \/ TeardownReset \/ Destroy

Next ==
    \/ \E a \in Thd : add(a) \/ remove(a)
    \/ \E a \in Thd, t \in Thd : add_tid(a, t) \/ remove_tid(a, t)
    \/ poll_initialized
    \/ \E t \in Thd : thd_track(t)
    \/ \E a \in Actor : ControllerStep(a)
    \/ \E t \in Thd : Deliver(t) \/ HandlerStep(t)
    \/ \E t \in Thd : Quiesce(t) \/ Unquiesce(t) \/ SigsysBlocked(t) \/ Exit(t)
    \/ \E p, t \in Thd : Spawn(p, t)
    \/ TeardownLock \/ Teardown

Spec == Init /\ [][Next]_vars

\* Threads and handlers are scheduled, the kernel delivers signals, libc leaves
\* its windows, the poller keeps scanning.  Nobody is bound to call the API, to
\* open a libc window or to end the session.
Fairness ==
    /\ \A a \in Actor : WF_vars(ControllerStep(a))
    /\ \A t \in Thd : /\ WF_vars(Deliver(t))
                      /\ WF_vars(HandlerStep(t))
                      /\ WF_vars(Unquiesce(t) \/ Exit(t))
                      /\ WF_vars(thd_track(t))
    /\ WF_vars(poll_initialized)
    /\ WF_vars(Teardown)

FairSpec == Spec /\ Fairness
-----------------------------------------------------------------------------
(* Safety.                                                                  *)

\* A control signal of t is pending or its handler is in progress.
InFlight(t) == pending[t] \cap CtlSig # {} \/ ctl[t] # "none"

\* The ThdState* in a control signal stays valid: until the handler has used
\* it for the last time, the entry exists and its accessor is held by a
\* controller that waits for this very signal (session.cc, thd_enable,
\* thd_disable and ~NotifySigHdlrCompletion).
StPointerValid ==
    \A t \in Thd : InFlight(t) =>
        /\ t \in thd_st
        /\ accessor[t] \in Actor
        /\ call[accessor[t]].tid = t /\ call[accessor[t]].at = "await"

\* No lost or early wake-up: while a control signal of t is in flight the
\* semaphore is taken, so the controller cannot pass its second acquire() and
\* the handler's release() is the only one (a binary semaphore never exceeds 1).
CoordTaken == \A t \in Thd : InFlight(t) => sig_coord[t] = 0

\* The kernel never holds a selector address into an erased entry: dispatch is
\* on only for threads that have an entry in thd_st (session.cc, "caller must
\* erase the thd-state").
NoDanglingSelector == \A t \in Thd : sud[t] => t \in thd_st

\* When add returns, a selected thread that is alive is injected; when remove
\* returns, the thread is not, also when its tid is one that died and was given
\* out again (Session::add, Session::remove, the idempotency checks of
\* thd_enable and thd_disable included).  Only add is excepted for such a tid:
\* the entry of the dead thread makes it return at once.
CallsTakeEffect ==
    [][\A a \in Actor :
         call[a] # Idle /\ call'[a] = Idle =>
            LET t == call[a].tid IN
            IF call[a].fn \in {"thd_enable", "enable_self"}
            THEN t \in Selected \ Reused /\ Alive(t) => sud'[t]
            ELSE ~sud'[t] /\ t \notin thd_st']_vars

\* Injection is off while libc wants no signals: a syscall of a quiescent
\* thread does not trap (handle_sigsys, disarm, reenable_sysfail).
QuiescentDisarmed == \A t \in Thd : life[t] = "quiet" => ~Armed(t)

\* A thread that traps on its way into a libc window still has its entry when
\* the handler looks for it: disarm's assert(!a.empty()) holds.
DisarmFindsEntry == halt # "disarm"

\* ~Session's assert(s->thd_st.empty()) holds.
TeardownFindsNone == halt # "teardown"
-----------------------------------------------------------------------------
(* Liveness.                                                                *)

\* Every add, remove and thd_track returns: no controller waits for ever on
\* sig_coord or on an accessor (unless an assert or a blocked SIGSYS ends the
\* process).
CallsReturn == \A a \in Actor : call[a] # Idle ~> call[a] = Idle \/ ~Running

\* ~Session gets past the unique lock's critical section and frees the session.
TeardownCompletes == dtor = "looping" ~> dtor = "gone" \/ ~Running

\* A thread that was disarmed for a libc window is armed again, unless it is
\* removed from injection (send_signal(SIG_REARM) in handle_sigsys).
Rearmed == \A t \in Thd : sud[t] /\ on[t] = "ALLOW" ~> Armed(t) \/ ~sud[t]

\* With polling, a selected thread the monitor does not know yet becomes
\* injected without a call of the API, unless it or the session ends first
\* (thd_track, Existing and Spawned).  The poller itself may hang on a thread
\* that ends, see CallsReturn: no thread has ended.
NewThreadsInjected ==
    \A t \in Selected :
        Alive(t) /\ t \notin known ~>
            sud[t] \/ dtor # "off" \/ ~Running \/ \E u \in Thd : life[u] = "dead"
-----------------------------------------------------------------------------
(* What a session promises, whatever its mechanism.                         *)

Promise == INSTANCE Injection
             WITH injected <- {t \in Thd : sud[t]}, open <- session

\* Thread control implements the abstract session: only selected threads of an
\* open session start being injected, and it closes only when none is injected.
Implements == Promise!Spec
=============================================================================
