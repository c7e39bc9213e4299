------------------------------- MODULE ThdMon -------------------------------
(***************************************************************************)
(* Thread discovery (src/src/thdmon.cc): the poller thread, or a caller of *)
(* rescan_threads, reads /proc/self/task entry by entry, reports threads   *)
(* it does not know and, by comparing generations, the ones that are gone. *)
(* Threads are born and die at any time, also while a scan is under way.   *)
(***************************************************************************)
EXTENDS Integers, FiniteSets

CONSTANTS
    Thd,        \* tids of the application's threads
    Owner,      \* the thread that constructs and destroys the ThdMon
    Poller,     \* tid of poller_thd
    Strategies, \* thread-discovery strategies of the plans considered
    Unborn,     \* threads that do not exist at construction
    Mortal,     \* threads that may end
    Rescanners, \* threads that call rescan_threads
    Gens,       \* values of gen_t, 2^32 in the code: gen wraps
    MaxRescans, \* bound: calls of rescan_threads
    NoThd       \* nobody

ASSUME MonAssumption ==
    /\ Owner \in Thd
    /\ Poller \notin Thd
    /\ NoThd \notin Thd \cup {Poller}
    /\ Unborn \subseteq Thd \ {Owner}
    /\ Mortal \subseteq Thd \ {Owner}
    /\ Rescanners \subseteq Thd \ (Unborn \cup Mortal)
    /\ Strategies \subseteq {"ProcPoll", "None"}
    /\ Gens \in Nat \ {0}
    /\ MaxRescans \in Nat

VARIABLES
    config,           \* the plan's thread-discovery strategy
    alive,            \* tids listed in /proc/self/task
    born,             \* tids that existed at some time
    gen,              \* ThdMon::gen
    known,            \* keys of known_thds
    seen,             \* known_thds: the generation of each known tid
    stop_mtx,         \* who holds stop_ctrl.stop_mtx
    stop,             \* stop_ctrl.stop
    poll_initialized, \* the semaphore the constructor waits on (2: past its maximum)
    owner,            \* Owner: ctor, init (waits for the first scan), up, stopping, gone
    poller,           \* poller_thd: unborn, self, scan, wait, woken, done
    scan,             \* per scanner: where it is in scan_tasks
    told,             \* per tid: reports of its existence minus reports of its end
    rescans           \* calls of rescan_threads made

env   == <<alive, born>>
table == <<gen, known, seen>>
ctrl  == <<stop_mtx, stop, poll_initialized, owner, poller>>
vars  == <<config, env, table, ctrl, scan, told, rescans>>

Polling == config = "ProcPoll"

\* Mutants of Lockable, Initialized, StopSet and (two) of NextGen.
LockIgnored == TRUE
InitializedEarly == TRUE
StopMissed == FALSE
SameGen == gen
WideGen == gen + 1

\* stop_mtx can be taken; poll_initialized can be acquired; wait_for's predicate.
Lockable == stop_mtx = NoThd
Initialized == poll_initialized > 0
StopSet == stop

\* gen++ of a uint32_t.
NextGen == (gen + 1) % Gens

Tid == Thd \cup {Poller}
NoScan == [at |-> "none", dir |-> {}, tid |-> NoThd]

ScanType ==
    [at : {"none", "read", "insert", "sweep"}, dir : SUBSET Tid, tid : Tid \cup {NoThd}]

TypeOK ==
    /\ config \in Strategies
    /\ alive \in SUBSET Tid
    /\ born \in SUBSET Tid
    /\ gen \in 0 .. Gens - 1
    /\ known \in SUBSET Tid
    /\ seen \in [Tid -> 0 .. Gens - 1]
    /\ stop_mtx \in Tid \cup {NoThd}
    /\ stop \in BOOLEAN
    /\ poll_initialized \in 0 .. 2
    /\ owner \in {"ctor", "init", "up", "stopping", "gone"}
    /\ poller \in {"unborn", "self", "scan", "wait", "woken", "done"}
    /\ scan \in [Tid -> ScanType]
    /\ told \in [Tid -> Int]
    /\ rescans \in 0 .. MaxRescans

Init ==
    /\ config \in Strategies
    /\ alive = Thd \ Unborn
    /\ born = Thd \ Unborn
    /\ gen = 0
    /\ known = {}
    /\ seen = [t \in Tid |-> 0]
    /\ stop_mtx = NoThd
    /\ stop = FALSE
    /\ poll_initialized = 0
    /\ owner = "ctor"
    /\ poller = "unborn"
    /\ scan = [s \in Tid |-> NoScan]
    /\ told = [t \in Tid |-> 0]
    /\ rescans = 0
-----------------------------------------------------------------------------
(* scan_tasks.                                                              *)

\* The directory is read from here on; see Birth and Death for threads that
\* appear and disappear meanwhile.
BeginScan(s) == scan' = [scan EXCEPT ![s] = [at |-> "read", dir |-> alive, tid |-> NoThd]]

\* A known entry gets the current generation; another one is reported
\* (Existing or Spawned) before it is inserted.
Visit(s, t) ==
    /\ scan[s].at = "read" /\ t \in scan[s].dir
    /\ \/ /\ t \in known
          /\ seen' = [seen EXCEPT ![t] = gen]
          /\ scan' = [scan EXCEPT ![s].dir = @ \ {t}]
          /\ UNCHANGED told
       \/ /\ t \notin known
          /\ told' = [told EXCEPT ![t] = @ + 1]
          /\ scan' = [scan EXCEPT ![s] = [at |-> "insert", dir |-> @.dir \ {t}, tid |-> t]]
          /\ UNCHANGED seen
    /\ UNCHANGED <<config, env, gen, known, ctrl, rescans>>

\* unordered_map::insert keeps an entry that is already there.
Insert(s) ==
    LET t == scan[s].tid IN
    /\ scan[s].at = "insert"
    /\ known' = known \cup {t}
    /\ seen' = IF t \in known THEN seen ELSE [seen EXCEPT ![t] = gen]
    /\ scan' = [scan EXCEPT ![s] = [at |-> "read", dir |-> @.dir, tid |-> NoThd]]
    /\ UNCHANGED <<config, env, gen, ctrl, told, rescans>>

ToRemove == {t \in known : seen[t] < gen}

Collect(s) ==
    /\ scan[s].at = "read" /\ scan[s].dir = {}
    /\ scan' = [scan EXCEPT ![s] = [at |-> "sweep", dir |-> ToRemove, tid |-> NoThd]]
    /\ UNCHANGED <<config, env, table, ctrl, told, rescans>>

\* Terminated is reported and the entry erased.
Remove(s, t) ==
    /\ scan[s].at = "sweep" /\ t \in scan[s].dir
    /\ told' = [told EXCEPT ![t] = @ - 1]
    /\ known' = known \ {t}
    /\ scan' = [scan EXCEPT ![s].dir = @ \ {t}]
    /\ UNCHANGED <<config, env, gen, seen, ctrl, rescans>>

ScanStep(s) == Insert(s) \/ Collect(s) \/ \E t \in Tid : Visit(s, t) \/ Remove(s, t)

ScanDone(s) == scan[s].at = "sweep" /\ scan[s].dir = {}
EndScan(s) == ScanDone(s) /\ scan' = [scan EXCEPT ![s] = NoScan]
-----------------------------------------------------------------------------
(* Construction.                                                            *)

\* ProcPoll: the poller thread is created.
StartPoller ==
    /\ Polling /\ owner = "ctor"
    /\ owner' = "init"
    /\ poller' = "self"
    /\ alive' = alive \cup {Poller}
    /\ born' = born \cup {Poller}
    /\ UNCHANGED <<config, table, stop_mtx, stop, poll_initialized, scan, told, rescans>>

AwaitPoller ==
    /\ Polling /\ owner = "init" /\ Initialized
    /\ poll_initialized' = poll_initialized - 1
    /\ owner' = "up"
    /\ UNCHANGED <<config, env, table, stop_mtx, stop, poller, scan, told, rescans>>

\* None: one scan by the constructing thread.
ConstructorScan ==
    /\ ~Polling /\ owner = "ctor"
    /\ owner' = "init"
    /\ BeginScan(Owner)
    /\ UNCHANGED <<config, env, table, stop_mtx, stop, poll_initialized, poller, told, rescans>>

ConstructorScanned ==
    /\ ~Polling /\ owner = "init"
    /\ EndScan(Owner)
    /\ owner' = "up"
    /\ UNCHANGED <<config, env, table, stop_mtx, stop, poll_initialized, poller, told, rescans>>
-----------------------------------------------------------------------------
(* process, the poller's loop.  It holds stop_mtx except while it waits.    *)

Self ==
    /\ poller = "self" /\ Lockable
    /\ known' = known \cup {Poller}
    /\ seen' = [seen EXCEPT ![Poller] = gen]
    /\ stop_mtx' = Poller
    /\ poller' = "scan"
    /\ BeginScan(Poller)
    /\ UNCHANGED <<config, env, gen, stop, poll_initialized, owner, told, rescans>>

\* The scan is over; wait_for releases the mutex unless stop is already set.
Wait ==
    /\ poller = "scan"
    /\ EndScan(Poller)
    /\ poll_initialized' = IF gen = 0 /\ poll_initialized < 2 THEN poll_initialized + 1 ELSE poll_initialized
    /\ IF StopSet
       THEN poller' = "woken" /\ UNCHANGED stop_mtx
       ELSE poller' = "wait" /\ stop_mtx' = NoThd
    /\ UNCHANGED <<config, env, table, stop, owner, told, rescans>>

\* The interval has passed, or stop_cv was notified: the mutex is taken again.
Wake ==
    /\ poller = "wait" /\ Lockable
    /\ stop_mtx' = Poller
    /\ poller' = "woken"
    /\ UNCHANGED <<config, env, table, stop, poll_initialized, owner, scan, told, rescans>>

Loop ==
    /\ poller = "woken"
    /\ gen' = NextGen
    /\ \/ /\ ~StopSet
          /\ poller' = "scan"
          /\ BeginScan(Poller)
          /\ UNCHANGED <<stop_mtx, alive>>
       \/ /\ StopSet
          /\ poller' = "done"
          /\ stop_mtx' = NoThd
          /\ alive' = alive \ {Poller}
          /\ UNCHANGED scan
    /\ UNCHANGED <<config, born, known, seen, stop, poll_initialized, owner, told, rescans>>
-----------------------------------------------------------------------------
(* rescan_threads, called by discover_threads.                              *)

Rescan(s) ==
    /\ s \in Rescanners /\ owner = "up" /\ scan[s] = NoScan
    /\ rescans < MaxRescans
    /\ rescans' = rescans + 1
    /\ \/ /\ Polling /\ Lockable
          /\ stop_mtx' = s
          /\ gen' = NextGen
       \/ /\ ~Polling
          /\ UNCHANGED <<stop_mtx, gen>>
    /\ BeginScan(s)
    /\ UNCHANGED <<config, env, known, seen, stop, poll_initialized, owner, poller, told>>

RescanDone(s) ==
    /\ s \in Rescanners /\ owner # "init"
    /\ EndScan(s)
    /\ stop_mtx' = IF stop_mtx = s THEN NoThd ELSE stop_mtx
    /\ UNCHANGED <<config, env, table, stop, poll_initialized, owner, poller, told, rescans>>
-----------------------------------------------------------------------------
(* ~ThdMon: nobody uses the object any more.                                *)

Stop ==
    /\ owner = "up" /\ (Polling => Lockable)
    /\ \A s \in Thd : scan[s] = NoScan
    /\ stop' = Polling
    /\ owner' = IF Polling THEN "stopping" ELSE "gone"
    /\ UNCHANGED <<config, env, table, stop_mtx, poll_initialized, poller, scan, told, rescans>>

Join ==
    /\ owner = "stopping" /\ poller = "done"
    /\ owner' = "gone"
    /\ UNCHANGED <<config, env, table, stop_mtx, stop, poll_initialized, poller, scan, told, rescans>>
-----------------------------------------------------------------------------
(* The application's threads.                                               *)

\* The scans that are reading the directory.
Readers == {s \in Tid : scan[s].at \in {"read", "insert"}}

\* A scan that is reading the directory may or may not see the new thread.
Birth(t) ==
    /\ t \in Thd \ born
    /\ \E S \in SUBSET Readers :
         scan' = [s \in Tid |-> IF s \in S THEN [scan[s] EXCEPT !.dir = @ \cup {t}] ELSE scan[s]]
    /\ alive' = alive \cup {t}
    /\ born' = born \cup {t}
    /\ UNCHANGED <<config, table, ctrl, told, rescans>>

\* A scan that has not come to the thread's entry may or may not miss it.
Death(t) ==
    /\ t \in Mortal \cap alive
    /\ \E S \in SUBSET Readers :
         scan' = [s \in Tid |-> IF s \in S THEN [scan[s] EXCEPT !.dir = @ \ {t}] ELSE scan[s]]
    /\ alive' = alive \ {t}
    /\ UNCHANGED <<config, born, table, ctrl, told, rescans>>

Construct == StartPoller \/ AwaitPoller \/ ConstructorScan \/ ConstructorScanned
Process == Self \/ Wait \/ Wake \/ Loop

Next ==
    \/ Construct \/ Process \/ Stop \/ Join
    \/ \E s \in Tid : ScanStep(s)
    \/ \E s \in Thd : Rescan(s) \/ RescanDone(s)
    \/ \E t \in Thd : Birth(t) \/ Death(t)

Spec == Init /\ [][Next]_vars

\* Threads are scheduled; nobody has to rescan, to be born, to die or to
\* destroy the monitor.
FairSpec ==
    /\ Spec
    /\ WF_vars(Construct) /\ WF_vars(Process) /\ WF_vars(Join)
    /\ \A s \in Tid : WF_vars(ScanStep(s))
    /\ \A s \in Thd : WF_vars(RescanDone(s))
-----------------------------------------------------------------------------
\* A thread is reported once when it appears and once when it is gone: the
\* handler never hears twice of the same thread (scan_tasks, process and
\* rescan_threads; test/thdmon_test.cc counts the events).
ReportedOnce == \A t \in Tid : told[t] \in {0, 1}

\* ~ThdMon returns: the poller notices stop, in a scan or in a wait.
StopJoins == owner = "stopping" ~> owner = "gone"

\* With polling, the end of a reported thread is reported, also when gen wraps
\* meanwhile (scan_tasks).  The exception is a thread last seen in the last
\* generation before the wrap: no generation is larger.
DeathReported ==
    \A t \in Thd :
        Polling /\ told[t] = 1 /\ t \notin alive ~>
            told[t] = 0 \/ owner # "up" \/ seen[t] = Gens - 1
-----------------------------------------------------------------------------
(* What discovery promises, whatever its mechanism.                         *)

Promise == INSTANCE Discovery
             WITH alive <- alive \cap Thd,
                  born <- born \cap Thd,
                  announced <- {t \in Tid : told[t] > 0},
                  up <- owner \in {"up", "stopping", "gone"}

\* The monitor implements discovery: its poller is never reported as a thread of
\* the application, no thread is reported as terminated while it is alive,
\* whichever scans overlap with births, deaths and rescans, and the constructor
\* returns only after the threads it found were reported.
Announces == Promise!Spec
=============================================================================
