-------------------------- MODULE ThdControlProofs --------------------------
(***************************************************************************)
(* Theorems about thread control for every set of threads, every bound and *)
(* every choice of the other constants of ThdControl.                      *)
(***************************************************************************)
EXTENDS ThdControl, TLAPS

USE ThdAssumption

-----------------------------------------------------------------------------
(* The inductive invariant of the accessor and semaphore protocol.          *)

Holding == {"send", "await", "apply"}

\* A held accessor belongs to an entry and to a call that is past its lookup.
AccessorHeld ==
    \A t \in Thd : accessor[t] # NoThd =>
        /\ t \in thd_st
        /\ call[accessor[t]].tid = t
        /\ call[accessor[t]].at \in Holding

\* A call past its lookup holds the accessor of its target.
HolderHolds ==
    \A a \in Actor : call[a].at \in Holding => accessor[call[a].tid] = a

\* The overloads without a tid work on the calling thread.
SelfCalls ==
    \A a \in Actor : call[a].fn \in {"enable_self", "disable_self"} => call[a].tid = a

\* At most one control signal of a thread is in flight.
OneInFlight == \A t \in Thd : ctl[t] # "none" => pending[t] \cap CtlSig = {}

\* The unique lock keeps API calls out of ~Session.
DtorAlone ==
    /\ dtor # "off" => \A t \in Thd \ {Owner} : call[t] = Idle
    /\ dtor \in {"asserted", "reset", "gone"} => call[Owner] = Idle

Protocol ==
    /\ AccessorHeld /\ HolderHolds /\ SelfCalls
    /\ StPointerValid /\ CoordTaken /\ OneInFlight /\ DtorAlone

\* Without polling, while a session is being taken apart nobody registers.
OnlyApi ==
    /\ call[Poller] = Idle
    /\ session <=> dtor \notin {"reset", "gone"}
    /\ dtor \in {"asserted", "reset", "gone"} => thd_st = {}

\* A handler runs only on a running thread; other threads are not dispatched
\* or at least execute no handler.
FramesAlive ==
    \A t \in Thd :
        /\ ctl[t] # "none" => life[t] = "run"
        /\ ~Alive(t) => ~sud[t] /\ pending[t] = {}

\* The handler that will run is the one the waiting controller asked for.
KindMatches ==
    \A t \in Thd :
        /\ "SIG_ENABLE" \in pending[t] \/ ctl[t] = "enable" => call[accessor[t]].fn = "thd_enable"
        /\ "SIG_DISABLE" \in pending[t] \/ ctl[t] = "disable" => call[accessor[t]].fn = "thd_disable"

\* A controller that waits for a thread to stop being dispatched waits for a
\* signal that is still to be handled.
DisableWaits ==
    \A t \in Thd :
        accessor[t] # NoThd /\ call[accessor[t]].fn = "thd_disable"
          /\ call[accessor[t]].at = "await" /\ sud[t] =>
             "SIG_DISABLE" \in pending[t] \/ ctl[t] = "disable"

Registered == thd_st \subseteq Selected

Dispatch ==
    /\ OnlyApi /\ FramesAlive /\ KindMatches /\ DisableWaits
    /\ NoDanglingSelector /\ Registered

\* A tracked thread nobody is working on is dispatched; a controller that
\* waits for a thread to be dispatched waits for a signal still to be handled.
\* Neither need be so for a new thread under the tid of a dead one.
EnableWaits ==
    \A t \in Thd :
        /\ t \notin Reused /\ t \in thd_st /\ accessor[t] = NoThd /\ Alive(t) => sud[t]
        /\ t \notin Reused /\ accessor[t] # NoThd /\ call[accessor[t]].fn = "thd_enable"
             /\ call[accessor[t]].at = "await" /\ Alive(t) /\ ~sud[t] =>
                "SIG_ENABLE" \in pending[t] \/ ctl[t] = "enable"
        /\ t \in thd_st \cup tids => life[t] # "unborn"
        /\ \A a \in Actor : call[a].tid = t => life[t] # "unborn"

-----------------------------------------------------------------------------
(* Type correctness.                                                        *)

\* What At and Return do to the table of calls in progress.
LEMMA CallUpdate ==
    ASSUME call \in [Actor -> CallType], NEW a \in Actor
    PROVE  /\ [call EXCEPT ![a] = Idle] \in [Actor -> CallType]
           /\ call[a].fn \in {"thd_enable", "thd_disable"} /\ call[a].at \in {"lookup", "send"} =>
                \A pc \in {"send", "await"} :
                   [call EXCEPT ![a].at = pc] \in [Actor -> CallType]
           /\ call[a].fn \in {"enable_self", "disable_self"} =>
                [call EXCEPT ![a].at = "apply"] \in [Actor -> CallType]
  <1>1. call[a] \in CallType
    OBVIOUS
  <1>2. Idle \in CallType
    BY DEF CallType
  <1>3. ASSUME call[a].fn \in {"thd_enable", "thd_disable"}, NEW pc \in {"send", "await"}
        PROVE  [call[a] EXCEPT !.at = pc] \in CallType
    BY <1>1, <1>3 DEF CallType, Idle
  <1>4. ASSUME call[a].fn \in {"enable_self", "disable_self"}
        PROVE  [call[a] EXCEPT !.at = "apply"] \in CallType
    BY <1>1, <1>4 DEF CallType, Idle
  <1> QED
    BY <1>2, <1>3, <1>4

\* What TypeOK says of a call that is in progress, by its program counter.
LEMMA CallShape ==
    ASSUME call \in [Actor -> CallType], NEW a \in Actor, call[a] # Idle
    PROVE  /\ call[a].tid \in Thd
           /\ call[a].fn \in {"thd_enable", "thd_disable", "enable_self", "disable_self"}
           /\ call[a].at \in {"lookup", "send", "await", "apply"}
           /\ call[a].at \in {"send", "await"} => call[a].fn \in {"thd_enable", "thd_disable"}
           /\ call[a].at = "apply" => call[a].fn \in {"enable_self", "disable_self"}
  <1>1. call[a] \in CallType
    OBVIOUS
  <1> QED
    BY <1>1 DEF CallType

\* Every value of every variable stays in its type; for sig_coord that needs
\* CoordTaken: a handler releases a semaphore that is taken.
LEMMA TypeStep ==
    ASSUME TypeOK, CoordTaken, Next PROVE TypeOK'
  <1> USE DEF TypeOK
  <1>1. ASSUME NEW a \in Thd, NEW t \in Thd,
               NEW f \in {"thd_enable", "thd_disable", "enable_self", "disable_self"},
               ApiCall(a, f, t)
        PROVE  TypeOK'
    <2>1. [fn |-> f, tid |-> t, at |-> "lookup"] \in CallType
      BY DEF CallType
    <2> QED
      BY <1>1, <2>1 DEF ApiCall, kernel, entries, frames, owner, monitor, Actor
  <1>2. ASSUME NEW t \in Thd, thd_track(t) PROVE TypeOK'
    <2>1. ASSUME NEW f \in {"thd_enable", "thd_disable"}
          PROVE  [fn |-> f, tid |-> t, at |-> "lookup"] \in CallType
      BY DEF CallType
    <2> QED
      BY <1>2, <2>1 DEF thd_track, kernel, entries, frames, owner, Actor
  <1>3. CASE poll_initialized
    BY <1>3 DEF poll_initialized, kernel, entries, frames, owner
  <1>4. ASSUME NEW a \in Actor, LookupEnable(a) PROVE TypeOK'
    <2>1. call[a] # Idle /\ call[a].tid \in Thd
      BY <1>4, CallShape DEF LookupEnable, Idle
    <2>2. call' \in [Actor -> CallType]
      <3>1. CASE Return(a)
        BY <3>1, CallUpdate DEF Return
      <3>2. CASE call[a].fn = "thd_enable" /\ At(a, "send")
        BY <1>4, <3>2, CallUpdate DEF LookupEnable, At
      <3>3. CASE call[a].fn = "enable_self" /\ At(a, "apply")
        BY <3>3, CallUpdate DEF At
      <3> QED
        BY <1>4, <3>1, <3>2, <3>3 DEF LookupEnable
    <2> QED
      BY <1>4, <2>1, <2>2 DEF LookupEnable, Insert, kernel, entries, frames, owner, monitor, Actor
  <1>5. ASSUME NEW a \in Actor, LookupDisable(a) PROVE TypeOK'
    <2>1. call[a] # Idle /\ call[a].tid \in Thd
      BY <1>5, CallShape DEF LookupDisable, Idle
    <2>2. call' \in [Actor -> CallType]
      <3>1. CASE Return(a)
        BY <3>1, CallUpdate DEF Return
      <3>2. CASE call[a].fn = "thd_disable" /\ At(a, "send")
        BY <1>5, <3>2, CallUpdate DEF LookupDisable, At
      <3>3. CASE call[a].fn = "disable_self" /\ At(a, "apply")
        BY <3>3, CallUpdate DEF At
      <3> QED
        BY <1>5, <3>1, <3>2, <3>3 DEF LookupDisable
    <2> QED
      BY <1>5, <2>1, <2>2 DEF LookupDisable, kernel, entries, frames, owner, monitor, Actor
  <1>6. ASSUME NEW a \in Actor, Send(a) PROVE TypeOK'
    <2>1. call[a] # Idle /\ call[a].tid \in Thd /\ call[a].fn \in {"thd_enable", "thd_disable"}
      BY <1>6, CallShape DEF Send, acquire, send_signal, CtlSigOf, Idle
    <2>2. call' \in [Actor -> CallType]
      BY <1>6, <2>1, CallUpdate DEF Send, acquire, send_signal, CtlSigOf, At
    <2> QED
      BY <1>6, <2>1, <2>2 DEF Send, acquire, send_signal, CtlSigOf, kernel, entries, frames, owner, monitor, Sig, CtlSig
  <1>7. ASSUME NEW a \in Actor, Await(a) PROVE TypeOK'
    <2>1. call[a] # Idle /\ call[a].tid \in Thd
      BY <1>7, CallShape DEF Await, acquire, Idle
    <2>2. call' \in [Actor -> CallType]
      BY <1>7, CallUpdate DEF Await, acquire, Return
    <2> QED
      BY <1>7, <2>1, <2>2 DEF Await, acquire, kernel, entries, frames, owner, monitor
  <1>8. ASSUME NEW a \in Actor, ApplySelf(a) PROVE TypeOK'
    <2>1. call' \in [Actor -> CallType]
      BY <1>8, CallUpdate DEF ApplySelf, enable, disable, Return
    <2>2. CASE call[a].fn = "enable_self"
      BY <1>8, <2>1, <2>2 DEF ApplySelf, enable, disable, frames, owner, monitor
    <2>3. CASE call[a].fn = "disable_self"
      <3>1. sud' \in [Thd -> BOOLEAN] /\ on' \in [Thd -> {"ALLOW", "BLOCK"}]
        BY <1>8, <2>3 DEF ApplySelf, enable, disable
      <3>2. thd_st' \in SUBSET Thd /\ accessor' \in [Thd -> Actor \cup {NoThd}]
        BY <1>8, <2>3 DEF ApplySelf, enable, disable
      <3> QED
        BY <1>8, <2>1, <3>1, <3>2 DEF ApplySelf, enable, disable, frames, owner, monitor
    <2> QED
      BY <1>8, <2>2, <2>3 DEF ApplySelf, enable, disable
  <1>9. ASSUME NEW t \in Thd, Deliver(t) PROVE TypeOK'
    BY <1>9 DEF Deliver, DeliverAll, entries, owner, monitor
  <1>10. ASSUME NEW t \in Thd, enable_sysfail(t) PROVE TypeOK'
    BY <1>10 DEF enable_sysfail, enable, owner, monitor
  <1>11. ASSUME NEW t \in Thd, disable_sysfail(t) PROVE TypeOK'
    BY <1>11 DEF disable_sysfail, disable, entries, owner, monitor
  <1>12. ASSUME NEW t \in Thd, NotifySigHdlrCompletion(t) PROVE TypeOK'
    <2>1. sig_coord[t] = 0
      BY <1>12 DEF NotifySigHdlrCompletion, CoordTaken, InFlight
    <2> QED
      BY <1>12, <2>1 DEF NotifySigHdlrCompletion, kernel, owner, monitor
  <1>13. ASSUME NEW t \in Thd, reenable_sysfail(t) PROVE TypeOK'
    BY <1>13 DEF reenable_sysfail, Rearm, kernel, owner, monitor
  <1>14. ASSUME NEW t \in Thd, disarm(t) PROVE TypeOK'
    BY <1>14 DEF disarm, Disarm, kernel, owner, monitor
  <1>15. ASSUME NEW t \in Thd, QuiesceArmed(t) PROVE TypeOK'
    BY <1>15 DEF QuiesceArmed, entries, owner, monitor, Sig
  <1>16. ASSUME NEW t \in Thd, Quiesce(t) PROVE TypeOK'
    BY <1>16 DEF Quiesce, entries, owner, monitor
  <1>17. ASSUME NEW t \in Thd, Unquiesce(t) PROVE TypeOK'
    BY <1>17 DEF Unquiesce, DeliverAll, entries, owner, monitor
  <1>18. ASSUME NEW t \in Thd, SigsysBlocked(t) PROVE TypeOK'
    BY <1>18 DEF SigsysBlocked, kernel, entries, frames, owner, monitor
  <1>19. ASSUME NEW t \in Thd, Exit(t) PROVE TypeOK'
    BY <1>19 DEF Exit, entries, frames, owner, monitor
  <1>20. ASSUME NEW p \in Thd, NEW t \in Thd, Spawn(p, t) PROVE TypeOK'
    BY <1>20 DEF Spawn, entries, frames, owner, monitor
  <1>21. CASE TeardownLock
    BY <1>21 DEF TeardownLock, LockFree, kernel, entries, frames, monitor
  <1>22. ASSUME NEW t \in Thd, TeardownDisable(t) PROVE TypeOK'
    <2>1. [fn |-> "thd_disable", tid |-> t, at |-> "lookup"] \in CallType
      BY DEF CallType
    <2> QED
      BY <1>22, <2>1 DEF TeardownDisable, kernel, entries, frames, monitor, Actor
  <1>23. CASE TeardownAssert
    BY <1>23 DEF TeardownAssert, kernel, entries, frames, monitor
  <1>24. CASE TeardownReset
    BY <1>24 DEF TeardownReset, kernel, entries, frames, monitor
  <1>25. CASE Destroy
    BY <1>25 DEF Destroy, kernel, frames, monitor
  <1> QED
    BY <1>1, <1>2, <1>3, <1>4, <1>5, <1>6, <1>7, <1>8, <1>9, <1>10, <1>11, <1>12, <1>13,
       <1>14, <1>15, <1>16, <1>17, <1>18, <1>19, <1>20, <1>21, <1>22, <1>23, <1>24, <1>25
       DEF Next, add, remove, add_tid, remove_tid, ControllerStep, HandlerStep, Teardown

-----------------------------------------------------------------------------
(* The protocol's invariant.                                                *)

\* Every step preserves the protocol's invariant.
LEMMA ProtocolStep ==
    ASSUME TypeOK, Protocol, Next PROVE Protocol'
  <1> USE DEF TypeOK, Protocol, AccessorHeld, HolderHolds, SelfCalls, StPointerValid, CoordTaken, OneInFlight, DtorAlone, InFlight, Holding
  <1>1. ASSUME NEW a \in Thd, NEW t \in Thd,
               NEW f \in {"thd_enable", "thd_disable", "enable_self", "disable_self"},
               f \in {"enable_self", "disable_self"} => t = a,
               ApiCall(a, f, t)
        PROVE  Protocol'
    BY <1>1 DEF ApiCall, Idle, kernel, entries, frames, owner, monitor, Actor
  <1>2. ASSUME NEW t \in Thd, thd_track(t) PROVE Protocol'
    BY <1>2 DEF thd_track, Idle, kernel, entries, frames, owner, Actor
  <1>3. CASE poll_initialized
    BY <1>3 DEF poll_initialized, kernel, entries, frames, owner
  <1>4. ASSUME NEW a \in Actor, LookupEnable(a) PROVE Protocol'
    <2>1. call[a] # Idle /\ call[a].tid \in Thd
      BY <1>4, CallShape DEF LookupEnable, Idle
    <2>2. CASE Return(a) /\ UNCHANGED entries
      BY <1>4, <2>1, <2>2 DEF LookupEnable, Return, Idle, kernel, entries, frames, owner, monitor
    <2>3. CASE call[a].tid \notin thd_st /\ Insert(a, call[a].tid) /\ At(a, IF call[a].fn = "thd_enable" THEN "send" ELSE "apply")
      <3> DEFINE t == call[a].tid
      <3>1. PICK pc \in {"send", "apply"} : call' = [call EXCEPT ![a].at = pc]
        BY <1>4, <2>3 DEF LookupEnable, At
      <3>2. /\ accessor' = [accessor EXCEPT ![t] = a]
            /\ accessor[t] = NoThd
            /\ t \in thd_st' /\ thd_st \subseteq thd_st'
            /\ ~InFlight(t)
        BY <1>4, <2>1, <2>3 DEF LookupEnable, Insert, AccessorFree, Actor
      <3>3. /\ UNCHANGED <<pending, ctl, dtor>>
            /\ \A u \in Thd : u # t => sig_coord'[u] = sig_coord[u]
        BY <1>4, <2>1, <2>3 DEF LookupEnable, Insert, kernel, frames, owner
      <3>4. AccessorHeld' /\ HolderHolds' /\ SelfCalls'
        BY <2>1, <3>1, <3>2, <3>3 DEF Actor
      <3>5. StPointerValid' /\ CoordTaken' /\ OneInFlight'
        BY <2>1, <3>1, <3>2, <3>3 DEF Actor
      <3>6. DtorAlone'
        BY <2>1, <3>1, <3>3 DEF Actor, Idle
      <3> QED
        BY <3>4, <3>5, <3>6
    <2> QED
      BY <1>4, <2>2, <2>3 DEF LookupEnable
  <1>5. ASSUME NEW a \in Actor, LookupDisable(a) PROVE Protocol'
    <2>1. call[a] # Idle /\ call[a].tid \in Thd
      BY <1>5, CallShape DEF LookupDisable, Idle
    <2>2. CASE Return(a) /\ UNCHANGED accessor
      BY <1>5, <2>1, <2>2 DEF LookupDisable, Return, Idle, kernel, entries, frames, owner, monitor
    <2>3. CASE call[a].tid \in thd_st /\ AccessorFree(call[a].tid) /\ accessor' = [accessor EXCEPT ![call[a].tid] = a] /\ At(a, IF call[a].fn = "thd_disable" THEN "send" ELSE "apply")
      <3> DEFINE t == call[a].tid
      <3>1. PICK pc \in {"send", "apply"} : call' = [call EXCEPT ![a].at = pc]
        BY <1>5, <2>3 DEF LookupDisable, At
      <3>2. /\ accessor' = [accessor EXCEPT ![t] = a]
            /\ accessor[t] = NoThd
            /\ t \in thd_st' /\ thd_st \subseteq thd_st'
            /\ ~InFlight(t)
        BY <1>5, <2>1, <2>3 DEF LookupDisable, AccessorFree, Actor
      <3>3. /\ UNCHANGED <<pending, ctl, dtor>>
            /\ \A u \in Thd : u # t => sig_coord'[u] = sig_coord[u]
        BY <1>5, <2>1, <2>3 DEF LookupDisable, kernel, frames, owner
      <3>4. AccessorHeld' /\ HolderHolds' /\ SelfCalls'
        BY <2>1, <3>1, <3>2, <3>3 DEF Actor
      <3>5. StPointerValid' /\ CoordTaken' /\ OneInFlight'
        BY <2>1, <3>1, <3>2, <3>3 DEF Actor
      <3>6. DtorAlone'
        BY <2>1, <3>1, <3>3 DEF Actor, Idle
      <3> QED
        BY <3>4, <3>5, <3>6
    <2> QED
      BY <1>5, <2>2, <2>3 DEF LookupDisable
  <1>6. ASSUME NEW a \in Actor, Send(a) PROVE Protocol'
    <2>1. call[a] # Idle /\ call[a].tid \in Thd /\ call[a].fn \in {"thd_enable", "thd_disable"}
      BY <1>6, CallShape DEF Send, acquire, send_signal, CtlSigOf, Idle
    <2> QED
      BY <1>6, <2>1 DEF Send, acquire, send_signal, CtlSigOf, At, Idle, kernel, entries, frames, owner, monitor, CtlSig, Actor
  <1>7. ASSUME NEW a \in Actor, Await(a) PROVE Protocol'
    <2>1. call[a] # Idle /\ call[a].tid \in Thd
      BY <1>7, CallShape DEF Await, acquire, Idle
    <2> QED
      BY <1>7, <2>1 DEF Await, acquire, Return, Idle, kernel, entries, frames, owner, monitor, Actor
  <1>8. ASSUME NEW a \in Actor, ApplySelf(a) PROVE Protocol'
    <2>1. call[a] # Idle /\ call[a].tid \in Thd /\ call[a].tid = a
      BY <1>8, CallShape DEF ApplySelf, enable, disable, Idle
    <2> QED
      BY <1>8, <2>1 DEF ApplySelf, enable, disable, Return, Idle, kernel, entries, frames, owner, monitor, Actor
  <1>9. ASSUME NEW t \in Thd, Deliver(t) PROVE Protocol'
    BY <1>9 DEF Deliver, DeliverAll, entries, owner, monitor, CtlSig
  <1>10. ASSUME NEW t \in Thd, enable_sysfail(t) PROVE Protocol'
    BY <1>10 DEF enable_sysfail, enable, owner, monitor
  <1>11. ASSUME NEW t \in Thd, disable_sysfail(t) PROVE Protocol'
    BY <1>11 DEF disable_sysfail, disable, entries, owner, monitor
  <1>12. ASSUME NEW t \in Thd, NotifySigHdlrCompletion(t) PROVE Protocol'
    BY <1>12 DEF NotifySigHdlrCompletion, kernel, owner, monitor
  <1>13. ASSUME NEW t \in Thd, reenable_sysfail(t) PROVE Protocol'
    BY <1>13 DEF reenable_sysfail, Rearm, kernel, owner, monitor
  <1>14. ASSUME NEW t \in Thd, disarm(t) PROVE Protocol'
    BY <1>14 DEF disarm, Disarm, kernel, owner, monitor
  <1>15. ASSUME NEW t \in Thd, QuiesceArmed(t) PROVE Protocol'
    BY <1>15 DEF QuiesceArmed, entries, owner, monitor, CtlSig
  <1>16. ASSUME NEW t \in Thd, Quiesce(t) PROVE Protocol'
    BY <1>16 DEF Quiesce, entries, owner, monitor
  <1>17. ASSUME NEW t \in Thd, Unquiesce(t) PROVE Protocol'
    BY <1>17 DEF Unquiesce, DeliverAll, entries, owner, monitor, CtlSig
  <1>18. ASSUME NEW t \in Thd, SigsysBlocked(t) PROVE Protocol'
    BY <1>18 DEF SigsysBlocked, kernel, entries, frames, owner, monitor
  <1>19. ASSUME NEW t \in Thd, Exit(t) PROVE Protocol'
    BY <1>19 DEF Exit, entries, frames, owner, monitor
  <1>20. ASSUME NEW p \in Thd, NEW t \in Thd, Spawn(p, t) PROVE Protocol'
    BY <1>20 DEF Spawn, entries, frames, owner, monitor
  <1>21. CASE TeardownLock
    BY <1>21 DEF TeardownLock, LockFree, kernel, entries, frames, monitor
  <1>22. ASSUME NEW t \in Thd, TeardownDisable(t) PROVE Protocol'
    BY <1>22 DEF TeardownDisable, Idle, kernel, entries, frames, monitor, Actor
  <1>23. CASE TeardownAssert
    BY <1>23 DEF TeardownAssert, kernel, entries, frames, monitor
  <1>24. CASE TeardownReset
    BY <1>24 DEF TeardownReset, kernel, entries, frames, monitor
  <1>25. CASE Destroy
    BY <1>25 DEF Destroy, Idle, kernel, frames, monitor, Actor
  <1> QED
    BY <1>1, <1>2, <1>3, <1>4, <1>5, <1>6, <1>7, <1>8, <1>9, <1>10, <1>11, <1>12, <1>13,
       <1>14, <1>15, <1>16, <1>17, <1>18, <1>19, <1>20, <1>21, <1>22, <1>23, <1>24, <1>25
       DEF Next, add, remove, add_tid, remove_tid, ControllerStep, HandlerStep, Teardown

\* The initial state and stuttering steps.
LEMMA ProtocolInit == Init => TypeOK /\ Protocol
  BY DEF Init, TypeOK, Protocol, AccessorHeld, HolderHolds, SelfCalls, StPointerValid,
         CoordTaken, OneInFlight, DtorAlone, InFlight, Holding, Idle, CallType, Actor, CtlSig, Sig

\* A step that changes nothing preserves the protocol's invariant.
LEMMA ProtocolStutter ==
    TypeOK /\ Protocol /\ UNCHANGED vars => TypeOK' /\ Protocol'
  BY DEF vars, kernel, entries, frames, owner, monitor, TypeOK, Protocol, AccessorHeld,
         HolderHolds, SelfCalls, StPointerValid, CoordTaken, OneInFlight, DtorAlone, InFlight

\* The protocol's invariant holds in every behaviour.
LEMMA ProtocolInv == Spec => [](TypeOK /\ Protocol)
  <1>1. TypeOK /\ Protocol /\ [Next]_vars => TypeOK' /\ Protocol'
    BY TypeStep, ProtocolStep, ProtocolStutter DEF Protocol
  <1> QED
    BY ProtocolInit, <1>1, PTL DEF Spec

\* Every variable keeps its type in every behaviour; in particular the binary
\* semaphore of ThdState is never released above 1.
THEOREM TypeCorrect == Spec => []TypeOK
  BY ProtocolInv, PTL

\* A control signal never outlives the entry it points to, with and without
\* the poller and whatever the callers, the signal windows and the exits do
\* (thd_enable, thd_disable, NotifySigHdlrCompletion).
THEOREM PointersValid == Spec => []StPointerValid
  <1>1. Protocol => StPointerValid
    BY DEF Protocol
  <1> QED
    BY ProtocolInv, <1>1, PTL

\* The controller never gets past the semaphore while a signal it sent is in
\* flight.
THEOREM SemaphoreTaken == Spec => []CoordTaken
  <1>1. Protocol => CoordTaken
    BY DEF Protocol
  <1> QED
    BY ProtocolInv, <1>1, PTL

-----------------------------------------------------------------------------
(* Dispatch and registration, without polling.                              *)

\* Every step preserves the link between dispatch and registration.
LEMMA DispatchStep ==
    ASSUME ~Polling, TypeOK, Protocol, Dispatch, Next PROVE Dispatch'
  <1> USE DEF TypeOK, Protocol, Dispatch, OnlyApi, FramesAlive, KindMatches, DisableWaits, NoDanglingSelector, Registered
  <1>1. ASSUME NEW a \in Thd, NEW t \in Thd,
               NEW f \in {"thd_enable", "thd_disable", "enable_self", "disable_self"},
               ApiCall(a, f, t)
        PROVE  Dispatch'
    <2>1. \A u \in Thd : accessor[u] # a
      BY <1>1 DEF ApiCall, AccessorHeld, Holding, Idle, Actor
    <2> QED
      BY <1>1, <2>1 DEF ApiCall, StPointerValid, InFlight, Idle, Alive, kernel, entries, frames, owner, monitor, Actor, CtlSig
  <1>2. ASSUME NEW t \in Thd, thd_track(t) PROVE Dispatch'
    BY <1>2 DEF thd_track
  <1>3. CASE poll_initialized
    BY <1>3 DEF poll_initialized, Alive, kernel, entries, frames, owner
  <1>4. ASSUME NEW a \in Actor, LookupEnable(a) PROVE Dispatch'
    <2>1. call[a] # Idle /\ call[a].tid \in Thd /\ session /\ a # Poller
      BY <1>4, CallShape DEF LookupEnable, Idle, DtorAlone, Actor
    <2>2. \A u \in Thd : accessor[u] # a
      BY <1>4 DEF LookupEnable, AccessorHeld, Holding, Actor
    <2>3. CASE Return(a) /\ UNCHANGED entries
      BY <1>4, <2>1, <2>2, <2>3 DEF LookupEnable, Return, StPointerValid, InFlight, Alive, kernel, entries, frames, owner, monitor, CtlSig, Actor
    <2>4. CASE call[a].tid \in Selected /\ call[a].tid \notin thd_st /\ Insert(a, call[a].tid) /\ At(a, IF call[a].fn = "thd_enable" THEN "send" ELSE "apply")
      BY <1>4, <2>1, <2>2, <2>4 DEF LookupEnable, Insert, At, DtorAlone, StPointerValid, InFlight, Alive, kernel, entries, frames, owner, monitor, CtlSig, Actor, Idle
    <2> QED
      BY <1>4, <2>3, <2>4 DEF LookupEnable
  <1>5. ASSUME NEW a \in Actor, LookupDisable(a) PROVE Dispatch'
    <2>1. call[a] # Idle /\ call[a].tid \in Thd /\ session /\ a # Poller
      BY <1>5, CallShape DEF LookupDisable, Idle, DtorAlone, Actor
    <2>2. \A u \in Thd : accessor[u] # a
      BY <1>5 DEF LookupDisable, AccessorHeld, Holding, Actor
    <2>3. CASE Return(a) /\ UNCHANGED accessor
      BY <1>5, <2>1, <2>2, <2>3 DEF LookupDisable, Return, StPointerValid, InFlight, Alive, kernel, entries, frames, owner, monitor, CtlSig, Actor
    <2>4. CASE call[a].tid \in thd_st /\ AccessorFree(call[a].tid) /\ accessor' = [accessor EXCEPT ![call[a].tid] = a] /\ At(a, IF call[a].fn = "thd_disable" THEN "send" ELSE "apply")
      BY <1>5, <2>1, <2>2, <2>4 DEF LookupDisable, At, AccessorFree, StPointerValid, InFlight, Alive, kernel, entries, frames, owner, monitor, CtlSig, Actor, Idle
    <2> QED
      BY <1>5, <2>3, <2>4 DEF LookupDisable
  <1>6. ASSUME NEW a \in Actor, Send(a) PROVE Dispatch'
    <2>1. call[a] # Idle /\ call[a].tid \in Thd /\ call[a].fn \in {"thd_enable", "thd_disable"}
      BY <1>6, CallShape DEF Send, acquire, send_signal, CtlSigOf, Idle
    <2>2. accessor[call[a].tid] = a /\ \A u \in Thd : accessor[u] = a => u = call[a].tid
      BY <1>6, <2>1 DEF Send, acquire, send_signal, CtlSigOf, HolderHolds, AccessorHeld, Holding, Actor
    <2>3. ~InFlight(call[a].tid)
      BY <1>6, <2>1, <2>2 DEF Send, acquire, send_signal, CtlSigOf, StPointerValid
    <2> QED
      BY <1>6, <2>1, <2>2, <2>3 DEF Send, acquire, send_signal, CtlSigOf, At, InFlight, Alive, Idle, kernel, entries, frames, owner, monitor, CtlSig, Actor
  <1>7. ASSUME NEW a \in Actor, Await(a) PROVE Dispatch'
    <2>1. call[a] # Idle /\ call[a].tid \in Thd /\ session /\ a # Poller
      BY <1>7, CallShape DEF Await, acquire, Idle, DtorAlone, Actor
    <2>2. accessor[call[a].tid] = a /\ \A u \in Thd : accessor[u] = a => u = call[a].tid
      BY <1>7, <2>1 DEF Await, acquire, HolderHolds, AccessorHeld, Holding, Actor
    <2>3. ~InFlight(call[a].tid)
      BY <1>7, <2>1 DEF Await, acquire, CoordTaken
    <2> QED
      BY <1>7, <2>1, <2>2, <2>3 DEF Await, acquire, Return, InFlight, StPointerValid, Alive, Idle, kernel, entries, frames, owner, monitor, CtlSig, Actor
  <1>8. ASSUME NEW a \in Actor, ApplySelf(a) PROVE Dispatch'
    <2>1. call[a] # Idle /\ call[a].tid = a /\ a \in Thd /\ session
      BY <1>8, CallShape DEF ApplySelf, enable, disable, Idle, DtorAlone, SelfCalls, Actor
    <2>2. accessor[a] = a /\ \A u \in Thd : accessor[u] = a => u = a
      BY <1>8, <2>1 DEF ApplySelf, enable, disable, HolderHolds, AccessorHeld, Holding, Actor
    <2>3. ~InFlight(a) /\ life[a] = "run" /\ a \in thd_st
      BY <1>8, <2>1, <2>2 DEF ApplySelf, enable, disable, StPointerValid, AccessorHeld, BaseRuns, SigsysRuns
    <2> QED
      BY <1>8, <2>1, <2>2, <2>3 DEF ApplySelf, enable, disable, Return, InFlight, StPointerValid, Alive, Idle, kernel, entries, frames, owner, monitor, CtlSig, Actor
  <1>9. ASSUME NEW t \in Thd, Deliver(t) PROVE Dispatch'
    BY <1>9 DEF Deliver, DeliverAll, Alive, OneInFlight, StPointerValid, InFlight, entries, owner, monitor, CtlSig
  <1>10. ASSUME NEW t \in Thd, enable_sysfail(t) PROVE Dispatch'
    <2>1. t \in thd_st /\ accessor[t] \in Actor /\ call[accessor[t]].fn = "thd_enable"
      BY <1>10 DEF enable_sysfail, enable, StPointerValid, InFlight
    <2> QED
      BY <1>10, <2>1 DEF enable_sysfail, enable, OneInFlight, Alive, owner, monitor
  <1>11. ASSUME NEW t \in Thd, disable_sysfail(t) PROVE Dispatch'
    <2>1. accessor[t] \in Actor /\ call[accessor[t]].tid = t /\ call[accessor[t]].fn = "thd_disable"
      BY <1>11 DEF disable_sysfail, disable, StPointerValid, InFlight
    <2>2. session
      BY <2>1 DEF DtorAlone, Idle, Actor
    <2> QED
      BY <1>11, <2>1, <2>2 DEF disable_sysfail, disable, OneInFlight, Alive, entries, owner, monitor
  <1>12. ASSUME NEW t \in Thd, NotifySigHdlrCompletion(t) PROVE Dispatch'
    BY <1>12 DEF NotifySigHdlrCompletion, Alive, kernel, owner, monitor
  <1>13. ASSUME NEW t \in Thd, reenable_sysfail(t) PROVE Dispatch'
    BY <1>13 DEF reenable_sysfail, Rearm, Alive, kernel, owner, monitor
  <1>14. ASSUME NEW t \in Thd, disarm(t) PROVE Dispatch'
    BY <1>14 DEF disarm, Disarm, Alive, kernel, owner, monitor
  <1>15. ASSUME NEW t \in Thd, QuiesceArmed(t) PROVE Dispatch'
    BY <1>15 DEF QuiesceArmed, SigsysRuns, Alive, entries, owner, monitor
  <1>16. ASSUME NEW t \in Thd, Quiesce(t) PROVE Dispatch'
    BY <1>16 DEF Quiesce, BaseRuns, SigsysRuns, Alive, entries, owner, monitor
  <1>17. ASSUME NEW t \in Thd, Unquiesce(t) PROVE Dispatch'
    BY <1>17 DEF Unquiesce, DeliverAll, Alive, OneInFlight, StPointerValid, InFlight, entries, owner, monitor, CtlSig
  <1>18. ASSUME NEW t \in Thd, SigsysBlocked(t) PROVE Dispatch'
    BY <1>18 DEF SigsysBlocked, Alive, kernel, entries, frames, owner, monitor
  <1>19. ASSUME NEW t \in Thd, Exit(t) PROVE Dispatch'
    BY <1>19 DEF Exit, Alive, entries, frames, owner, monitor
  <1>20. ASSUME NEW p \in Thd, NEW t \in Thd, Spawn(p, t) PROVE Dispatch'
    BY <1>20 DEF Spawn, Alive, entries, frames, owner, monitor
  <1>21. CASE TeardownLock
    BY <1>21 DEF TeardownLock, LockFree, Alive, kernel, entries, frames, monitor
  <1>22. ASSUME NEW t \in Thd, TeardownDisable(t) PROVE Dispatch'
    <2>1. \A u \in Thd : accessor[u] # Owner
      BY <1>22 DEF TeardownDisable, AccessorHeld, Holding, Idle, Actor
    <2> QED
      BY <1>22, <2>1 DEF TeardownDisable, StPointerValid, InFlight, Alive, Idle, kernel, entries, frames, monitor, Actor, CtlSig
  <1>23. CASE TeardownAssert
    BY <1>23 DEF TeardownAssert, Alive, kernel, entries, frames, monitor
  <1>24. CASE TeardownReset
    BY <1>24 DEF TeardownReset, Alive, kernel, entries, frames, monitor
  <1>25. CASE Destroy
    BY <1>25 DEF Destroy, Alive, kernel, frames, monitor
  <1> QED
    BY <1>1, <1>2, <1>3, <1>4, <1>5, <1>6, <1>7, <1>8, <1>9, <1>10, <1>11, <1>12, <1>13,
       <1>14, <1>15, <1>16, <1>17, <1>18, <1>19, <1>20, <1>21, <1>22, <1>23, <1>24, <1>25
       DEF Next, add, remove, add_tid, remove_tid, ControllerStep, HandlerStep, Teardown

\* Without polling, dispatch and registration stay linked in every behaviour.
LEMMA DispatchInv == ~Polling => (Spec => [](TypeOK /\ Protocol /\ Dispatch))
  <1> SUFFICES ASSUME ~Polling PROVE Spec => [](TypeOK /\ Protocol /\ Dispatch)
    OBVIOUS
  <1>1. Init => Dispatch
    BY DEF Init, Dispatch, OnlyApi, FramesAlive, KindMatches, DisableWaits, NoDanglingSelector,
           Registered, Actor
  <1>2. Dispatch /\ UNCHANGED vars => Dispatch'
    BY DEF vars, kernel, entries, frames, owner, monitor, Dispatch, OnlyApi, FramesAlive,
           KindMatches, DisableWaits, NoDanglingSelector, Registered, Alive
  <1>3. TypeOK /\ Protocol /\ Dispatch /\ [Next]_vars => Dispatch'
    BY <1>2, DispatchStep
  <1> QED
    BY <1>1, <1>3, ProtocolInv, PTL DEF Spec

\* Without polling, the kernel never dispatches a thread through a selector
\* whose entry was erased: remove, ~Session and exits included.
THEOREM SelectorsAlive == ~Polling => (Spec => []NoDanglingSelector)
  <1>1. Dispatch => NoDanglingSelector
    BY DEF Dispatch
  <1> QED
    BY DispatchInv, <1>1, PTL

-----------------------------------------------------------------------------
(* What add and remove have achieved when they return.                      *)

\* Every step preserves EnableWaits, unless the kernel reuses tids.
LEMMA EnableStep ==
    ASSUME ~Polling, TypeOK, Protocol, Dispatch, EnableWaits, Next
    PROVE  EnableWaits'
  <1> USE DEF TypeOK, EnableWaits
  <1>1. ASSUME NEW a \in Thd, NEW t \in Thd,
               NEW f \in {"thd_enable", "thd_disable", "enable_self", "disable_self"},
               ApiCall(a, f, t)
        PROVE  EnableWaits'
    <2>1. \A u \in Thd : accessor[u] # a
      BY <1>1 DEF ApiCall, Protocol, AccessorHeld, Holding, Idle, Actor
    <2> QED
      BY <1>1, <2>1 DEF ApiCall, Alive, kernel, entries, frames, owner, monitor, Actor
  <1>2. ASSUME NEW t \in Thd, thd_track(t) PROVE EnableWaits'
    BY <1>2 DEF thd_track
  <1>3. CASE poll_initialized
    BY <1>3 DEF poll_initialized, Alive, kernel, entries, frames, owner
  <1>4. ASSUME NEW a \in Actor, LookupEnable(a) PROVE EnableWaits'
    <2>1. call[a] # Idle /\ call[a].tid \in Thd
      BY <1>4, CallShape DEF LookupEnable, Idle
    <2>2. \A u \in Thd : accessor[u] # a
      BY <1>4 DEF LookupEnable, Protocol, AccessorHeld, Holding, Actor
    <2>3. CASE Return(a) /\ UNCHANGED entries
      BY <1>4, <2>1, <2>2, <2>3 DEF LookupEnable, Return, Idle, Alive, kernel, entries, frames, owner, monitor, Actor
    <2>4. CASE call[a].tid \notin thd_st /\ Insert(a, call[a].tid) /\ At(a, IF call[a].fn = "thd_enable" THEN "send" ELSE "apply")
      BY <1>4, <2>1, <2>2, <2>4 DEF LookupEnable, Insert, At, Alive, kernel, entries, frames, owner, monitor, Actor
    <2> QED
      BY <1>4, <2>3, <2>4 DEF LookupEnable
  <1>5. ASSUME NEW a \in Actor, LookupDisable(a) PROVE EnableWaits'
    <2>1. call[a] # Idle /\ call[a].tid \in Thd
      BY <1>5, CallShape DEF LookupDisable, Idle
    <2>2. \A u \in Thd : accessor[u] # a
      BY <1>5 DEF LookupDisable, Protocol, AccessorHeld, Holding, Actor
    <2>3. CASE Return(a) /\ UNCHANGED accessor
      BY <1>5, <2>1, <2>2, <2>3 DEF LookupDisable, Return, Idle, Alive, kernel, entries, frames, owner, monitor, Actor
    <2>4. CASE accessor' = [accessor EXCEPT ![call[a].tid] = a] /\ At(a, IF call[a].fn = "thd_disable" THEN "send" ELSE "apply")
      BY <1>5, <2>1, <2>2, <2>4 DEF LookupDisable, At, Alive, kernel, entries, frames, owner, monitor, Actor
    <2> QED
      BY <1>5, <2>3, <2>4 DEF LookupDisable
  <1>6. ASSUME NEW a \in Actor, Send(a) PROVE EnableWaits'
    <2>1. call[a] # Idle /\ call[a].tid \in Thd /\ call[a].fn \in {"thd_enable", "thd_disable"}
      BY <1>6, CallShape DEF Send, acquire, send_signal, CtlSigOf, Idle
    <2>2. accessor[call[a].tid] = a /\ \A u \in Thd : accessor[u] = a => u = call[a].tid
      BY <1>6, <2>1 DEF Send, acquire, send_signal, CtlSigOf, Protocol, HolderHolds, AccessorHeld, Holding, Actor
    <2> QED
      BY <1>6, <2>1, <2>2 DEF Send, acquire, send_signal, CtlSigOf, At, Alive, Idle, kernel, entries, frames, owner, monitor, Actor
  <1>7. ASSUME NEW a \in Actor, Await(a) PROVE EnableWaits'
    <2>1. call[a] # Idle /\ call[a].tid \in Thd /\ call[a].fn \in {"thd_enable", "thd_disable"}
      BY <1>7, CallShape DEF Await, acquire, Idle
    <2>2. accessor[call[a].tid] = a /\ \A u \in Thd : accessor[u] = a => u = call[a].tid
      BY <1>7, <2>1 DEF Await, acquire, Protocol, HolderHolds, AccessorHeld, Holding, Actor
    <2>3. ~InFlight(call[a].tid)
      BY <1>7, <2>1 DEF Await, acquire, Protocol, CoordTaken
    <2> QED
      BY <1>7, <2>1, <2>2, <2>3 DEF Await, acquire, Return, InFlight, Alive, Idle, kernel, entries, frames, owner, monitor, CtlSig, Actor
  <1>8. ASSUME NEW a \in Actor, ApplySelf(a) PROVE EnableWaits'
    <2>1. call[a] # Idle /\ call[a].tid = a /\ a \in Thd
      BY <1>8, CallShape DEF ApplySelf, enable, disable, Idle, Protocol, SelfCalls
    <2>2. \A u \in Thd : accessor[u] = a => u = a
      BY <1>8, <2>1 DEF ApplySelf, enable, disable, Protocol, AccessorHeld, Actor
    <2> QED
      BY <1>8, <2>1, <2>2 DEF ApplySelf, enable, disable, Return, Alive, Idle, kernel, entries, frames, owner, monitor, Actor
  <1>9. ASSUME NEW t \in Thd, Deliver(t) PROVE EnableWaits'
    BY <1>9 DEF Deliver, DeliverAll, Alive, Protocol, OneInFlight, entries, owner, monitor, CtlSig
  <1>10. ASSUME NEW t \in Thd, enable_sysfail(t) PROVE EnableWaits'
    <2>1. accessor[t] \in Actor /\ call[accessor[t]].tid = t
      BY <1>10 DEF enable_sysfail, enable, Protocol, StPointerValid, InFlight
    <2>2. session
      BY <2>1 DEF Protocol, Dispatch, OnlyApi, DtorAlone, Idle, Actor
    <2> QED
      BY <1>10, <2>2 DEF enable_sysfail, enable, Alive, owner, monitor
  <1>11. ASSUME NEW t \in Thd, disable_sysfail(t) PROVE EnableWaits'
    <2>1. accessor[t] \in Actor /\ call[accessor[t]].fn = "thd_disable"
      BY <1>11 DEF disable_sysfail, disable, Protocol, StPointerValid, InFlight, Dispatch, KindMatches
    <2> QED
      BY <1>11, <2>1 DEF disable_sysfail, disable, Alive, entries, owner, monitor, Actor
  <1>12. ASSUME NEW t \in Thd, NotifySigHdlrCompletion(t) PROVE EnableWaits'
    BY <1>12 DEF NotifySigHdlrCompletion, Alive, kernel, owner, monitor
  <1>13. ASSUME NEW t \in Thd, reenable_sysfail(t) PROVE EnableWaits'
    BY <1>13 DEF reenable_sysfail, Rearm, Alive, kernel, owner, monitor
  <1>14. ASSUME NEW t \in Thd, disarm(t) PROVE EnableWaits'
    BY <1>14 DEF disarm, Disarm, Alive, kernel, owner, monitor
  <1>15. ASSUME NEW t \in Thd, QuiesceArmed(t) PROVE EnableWaits'
    BY <1>15 DEF QuiesceArmed, SigsysRuns, Alive, entries, owner, monitor
  <1>16. ASSUME NEW t \in Thd, Quiesce(t) PROVE EnableWaits'
    BY <1>16 DEF Quiesce, BaseRuns, SigsysRuns, Alive, entries, owner, monitor
  <1>17. ASSUME NEW t \in Thd, Unquiesce(t) PROVE EnableWaits'
    BY <1>17 DEF Unquiesce, DeliverAll, Alive, Protocol, OneInFlight, entries, owner, monitor, CtlSig
  <1>18. ASSUME NEW t \in Thd, SigsysBlocked(t) PROVE EnableWaits'
    BY <1>18 DEF SigsysBlocked, Alive, kernel, entries, frames, owner, monitor
  <1>19. ASSUME NEW t \in Thd, Exit(t) PROVE EnableWaits'
    BY <1>19 DEF Exit, Alive, entries, frames, owner, monitor
  <1>20. ASSUME NEW p \in Thd, NEW t \in Thd, Spawn(p, t) PROVE EnableWaits'
    <2>1. t \in Reused \/ life[t] = "unborn"
      BY <1>20 DEF Spawn
    <2>2. t \in Reused \/ (t \notin thd_st /\ accessor[t] = NoThd)
      BY <2>1 DEF Protocol, AccessorHeld
    <2> QED
      BY <1>20, <2>2 DEF Spawn, Alive, entries, frames, owner, monitor
  <1>21. CASE TeardownLock
    BY <1>21 DEF TeardownLock, LockFree, Alive, kernel, entries, frames, monitor
  <1>22. ASSUME NEW t \in Thd, TeardownDisable(t) PROVE EnableWaits'
    <2>1. \A u \in Thd : accessor[u] # Owner
      BY <1>22 DEF TeardownDisable, Protocol, AccessorHeld, Holding, Idle, Actor
    <2>2. life[t] # "unborn"
      BY <1>22 DEF TeardownDisable
    <2> QED
      BY <1>22, <2>1, <2>2 DEF TeardownDisable, Alive, kernel, entries, frames, monitor, Actor
  <1>23. CASE TeardownAssert
    BY <1>23 DEF TeardownAssert, Alive, kernel, entries, frames, monitor
  <1>24. CASE TeardownReset
    BY <1>24 DEF TeardownReset, Alive, kernel, entries, frames, monitor
  <1>25. CASE Destroy
    BY <1>25 DEF Destroy, Alive, kernel, frames, monitor
  <1> QED
    BY <1>1, <1>2, <1>3, <1>4, <1>5, <1>6, <1>7, <1>8, <1>9, <1>10, <1>11, <1>12, <1>13,
       <1>14, <1>15, <1>16, <1>17, <1>18, <1>19, <1>20, <1>21, <1>22, <1>23, <1>24, <1>25
       DEF Next, add, remove, add_tid, remove_tid, ControllerStep, HandlerStep, Teardown

\* Without polling, EnableWaits holds in every behaviour.
LEMMA EnableInv ==
    ~Polling => (Spec => [](TypeOK /\ Protocol /\ Dispatch /\ EnableWaits))
  <1> SUFFICES ASSUME ~Polling
               PROVE  Spec => [](TypeOK /\ Protocol /\ Dispatch /\ EnableWaits)
    OBVIOUS
  <1>1. Init => EnableWaits
    BY DEF Init, EnableWaits, Idle
  <1>2. EnableWaits /\ UNCHANGED vars => EnableWaits'
    BY DEF vars, kernel, entries, frames, owner, monitor, EnableWaits, Alive
  <1>3. TypeOK /\ Protocol /\ Dispatch /\ EnableWaits /\ [Next]_vars => EnableWaits'
    BY <1>2, EnableStep
  <1> QED
    BY <1>1, <1>3, DispatchInv, PTL DEF Spec

\* What a returning call has achieved.
Effect(a) ==
    call[a] # Idle /\ call'[a] = Idle =>
        LET t == call[a].tid IN
        IF call[a].fn \in {"thd_enable", "enable_self"}
        THEN t \in Selected \ Reused /\ Alive(t) => sud'[t]
        ELSE ~sud'[t] /\ t \notin thd_st'

\* Only the last step of a call makes it idle, and only its own.
LEMMA ReturnStep ==
    ASSUME TypeOK, Next, NEW a \in Actor, call[a] # Idle, call'[a] = Idle
    PROVE  LookupEnable(a) \/ LookupDisable(a) \/ Await(a) \/ ApplySelf(a)
  <1> USE DEF TypeOK
  <1>1. ASSUME NEW b \in Actor, ControllerStep(b)
        PROVE  LookupEnable(a) \/ LookupDisable(a) \/ Await(a) \/ ApplySelf(a)
    <2>1. a = b
      BY <1>1 DEF ControllerStep, LookupEnable, LookupDisable, Send, Await, ApplySelf, Return, At
    <2>2. ~Send(a)
      BY DEF Send, acquire, send_signal, CtlSigOf, At, Idle
    <2> QED
      BY <1>1, <2>1, <2>2 DEF ControllerStep
  <1>2. ~ \E b, t \in Thd, f \in {"thd_enable", "thd_disable", "enable_self", "disable_self"} :
            ApiCall(b, f, t)
    BY DEF ApiCall, Idle
  <1>3. ~ \E t \in Thd : thd_track(t) \/ TeardownDisable(t)
    BY DEF thd_track, TeardownDisable, Idle
  <1>4. ~ \E t \in Thd : \/ Deliver(t) \/ HandlerStep(t) \/ Quiesce(t) \/ Unquiesce(t)
                        \/ SigsysBlocked(t) \/ Exit(t) \/ \E p \in Thd : Spawn(p, t)
    BY DEF Deliver, HandlerStep, enable_sysfail, disable_sysfail, NotifySigHdlrCompletion,
           reenable_sysfail, disarm, QuiesceArmed, Quiesce, Unquiesce, SigsysBlocked, Exit, Spawn
  <1>5. ~(poll_initialized \/ TeardownLock \/ TeardownAssert \/ TeardownReset \/ Destroy)
    BY DEF poll_initialized, TeardownLock, TeardownAssert, TeardownReset, Destroy
  <1> QED
    BY <1>1, <1>2, <1>3, <1>4, <1>5 DEF Next, add, remove, add_tid, remove_tid, Teardown

\* A call that returns in this step has had its effect.
LEMMA EffectStep ==
    ASSUME ~Polling, TypeOK, Protocol, Dispatch, EnableWaits, Next, NEW a \in Actor
    PROVE  Effect(a)
  <1> SUFFICES ASSUME call[a] # Idle, call'[a] = Idle PROVE Effect(a)
    BY DEF Effect
  <1> USE DEF TypeOK
  <1>0. /\ call[a].tid \in Thd
        /\ call[a].fn \in {"thd_enable", "thd_disable", "enable_self", "disable_self"}
    BY CallShape
  <1>1. CASE LookupEnable(a)
    <2>1. ~At(a, IF call[a].fn = "thd_enable" THEN "send" ELSE "apply")
      BY DEF At, Idle
    <2>2. /\ call[a].tid \notin Selected \/ (call[a].tid \in thd_st /\ accessor[call[a].tid] = NoThd)
          /\ UNCHANGED sud
      BY <1>1, <2>1 DEF LookupEnable, AccessorFree, kernel
    <2> QED
      BY <1>0, <1>1, <2>2 DEF LookupEnable, EnableWaits, Effect
  <1>2. CASE LookupDisable(a)
    <2>1. ~At(a, IF call[a].fn = "thd_disable" THEN "send" ELSE "apply")
      BY DEF At, Idle
    <2>2. call[a].tid \notin thd_st /\ UNCHANGED <<sud, thd_st>>
      BY <1>2, <2>1 DEF LookupDisable, kernel
    <2> QED
      BY <1>0, <1>2, <2>2 DEF LookupDisable, Dispatch, NoDanglingSelector, Effect
  <1>3. CASE Await(a)
    <2>1. call[a].at = "await" /\ accessor[call[a].tid] = a /\ ~InFlight(call[a].tid)
      BY <1>0, <1>3 DEF Await, acquire, Protocol, HolderHolds, Holding, CoordTaken
    <2>2. UNCHANGED sud /\ call[a].fn \in {"thd_enable", "thd_disable"}
      BY <1>3, CallShape DEF Await, acquire, kernel
    <2>3. CASE call[a].fn = "thd_enable"
      BY <1>0, <2>1, <2>2, <2>3 DEF EnableWaits, Effect, InFlight, CtlSig, Actor
    <2>4. CASE call[a].fn = "thd_disable"
      <3>1. ~sud[call[a].tid]
        BY <1>0, <2>1, <2>4 DEF Dispatch, DisableWaits, InFlight, CtlSig, Actor
      <3> QED
        BY <1>0, <1>3, <2>2, <2>4, <3>1 DEF Await, acquire, Effect
    <2> QED
      BY <2>2, <2>3, <2>4
  <1>4. CASE ApplySelf(a)
    <2>1. call[a].tid = a /\ a \in Thd
      BY <1>0, <1>4, CallShape DEF ApplySelf, enable, disable, Protocol, SelfCalls
    <2> QED
      BY <1>4, <2>1 DEF ApplySelf, enable, disable, Effect
  <1> QED
    BY <1>1, <1>2, <1>3, <1>4, ReturnStep

\* Without polling, add and remove have done their work when they return,
\* whichever other calls, signal windows, exits and new threads interleave
\* (add for a tid that was given out again excepted).
THEOREM CallsEffective == ~Polling => (Spec => CallsTakeEffect)
  <1> SUFFICES ASSUME ~Polling PROVE Spec => CallsTakeEffect
    OBVIOUS
  <1>1. TypeOK /\ Protocol /\ Dispatch /\ EnableWaits /\ [Next]_vars =>
            [\A a \in Actor : Effect(a)]_vars
    BY EffectStep
  <1>2. Spec => [][\A a \in Actor : Effect(a)]_vars
    BY <1>1, EnableInv, PTL DEF Spec
  <1> QED
    BY <1>2 DEF CallsTakeEffect, Effect
-----------------------------------------------------------------------------
(* Refinement.                                                              *)

\* What a step does to the set of dispatched threads and to the session.
LEMMA RefinementStep ==
    ASSUME ~Polling, TypeOK, Protocol, Dispatch, [Next]_vars
    PROVE  [Promise!Next]_<<{t \in Thd : sud[t]}, session>>
  <1> DEFINE Inj == {t \in Thd : sud[t]}
  <1> USE DEF TypeOK
  <1>1. CASE UNCHANGED <<sud, session>>
    BY <1>1
  <1>2. ASSUME NEW a \in Actor, ApplySelf(a)
        PROVE  Promise!Next
    <2>1. call[a].tid = a /\ a \in Thd /\ accessor[a] = a
      BY <1>2, CallShape DEF ApplySelf, enable, disable, Idle, Protocol, SelfCalls, HolderHolds, Holding
    <2>2. a \in Selected /\ session
      BY <2>1 DEF Protocol, AccessorHeld, Dispatch, Registered, OnlyApi, DtorAlone, Idle, Actor
    <2>3. CASE call[a].fn = "enable_self"
      <3>1. Inj' = Inj \cup {a} /\ UNCHANGED session
        BY <1>2, <2>1, <2>3 DEF ApplySelf, enable, disable, owner
      <3> QED
        BY <2>1, <2>2, <3>1 DEF Promise!Next, Promise!Start
    <2>4. CASE call[a].fn = "disable_self"
      <3>1. Inj' = Inj \ {a} /\ UNCHANGED session
        BY <1>2, <2>1, <2>4 DEF ApplySelf, enable, disable, owner
      <3> QED
        BY <2>1, <3>1 DEF Promise!Next, Promise!Stop
    <2> QED
      BY <1>2, <2>3, <2>4 DEF ApplySelf, enable, disable
  <1>3. ASSUME NEW t \in Thd, enable_sysfail(t)
        PROVE  [Promise!Next]_<<Inj, session>>
    <2>1. CASE session
      <3>1. t \in Selected
        BY <1>3 DEF enable_sysfail, enable, Protocol, StPointerValid, InFlight, Dispatch, Registered
      <3>2. Inj' = Inj \cup {t} /\ UNCHANGED session
        BY <1>3, <2>1 DEF enable_sysfail, enable, owner
      <3> QED
        BY <2>1, <3>1, <3>2 DEF Promise!Next, Promise!Start
    <2>2. CASE ~session
      BY <1>3, <2>2 DEF enable_sysfail, enable, owner
    <2> QED
      BY <2>1, <2>2
  <1>4. ASSUME NEW t \in Thd, disable_sysfail(t) \/ Exit(t)
        PROVE  [Promise!Next]_<<Inj, session>>
    <2>1. UNCHANGED session /\ (UNCHANGED sud \/ sud' = [sud EXCEPT ![t] = FALSE])
      BY <1>4 DEF disable_sysfail, disable, Exit, owner
    <2>2. ASSUME sud' = [sud EXCEPT ![t] = FALSE] PROVE Inj' = Inj \ {t}
      BY <2>2
    <2> QED
      BY <2>1, <2>2 DEF Promise!Next, Promise!Stop
  <1>5. ASSUME TeardownReset
        PROVE  Promise!Next
    <2>1. Inj = {} /\ session
      BY <1>5 DEF TeardownReset, Dispatch, OnlyApi, NoDanglingSelector
    <2>2. UNCHANGED Inj /\ session' = FALSE
      BY <1>5 DEF TeardownReset, kernel
    <2> QED
      BY <2>1, <2>2 DEF Promise!Next, Promise!Close
  <1>6. ASSUME NEW a \in Actor, LookupEnable(a) \/ LookupDisable(a) \/ Send(a) \/ Await(a)
        PROVE  UNCHANGED <<sud, session>>
    BY <1>6 DEF LookupEnable, LookupDisable, Send, Await, kernel, owner
  <1>7. ASSUME NEW a \in Thd, NEW t \in Thd,
               NEW f \in {"thd_enable", "thd_disable", "enable_self", "disable_self"},
               ApiCall(a, f, t)
        PROVE  UNCHANGED <<sud, session>>
    BY <1>7 DEF ApiCall, kernel, owner
  <1>8. ASSUME NEW t \in Thd,
               \/ thd_track(t) \/ Deliver(t) \/ NotifySigHdlrCompletion(t) \/ reenable_sysfail(t)
               \/ disarm(t) \/ QuiesceArmed(t) \/ Quiesce(t) \/ Unquiesce(t) \/ SigsysBlocked(t)
               \/ TeardownDisable(t) \/ \E p \in Thd : Spawn(p, t)
        PROVE  UNCHANGED <<sud, session>>
    BY <1>8 DEF thd_track, Deliver, NotifySigHdlrCompletion, reenable_sysfail, disarm, QuiesceArmed,
                Quiesce, Unquiesce, SigsysBlocked, TeardownDisable, Spawn, kernel, owner
  <1>9. ASSUME poll_initialized \/ TeardownLock \/ TeardownAssert \/ Destroy \/ UNCHANGED vars
        PROVE  UNCHANGED <<sud, session>>
    BY <1>9 DEF poll_initialized, TeardownLock, TeardownAssert, Destroy, vars, kernel, owner
  <1> QED
    BY <1>1, <1>2, <1>3, <1>4, <1>5, <1>6, <1>7, <1>8, <1>9
       DEF Next, add, remove, add_tid, remove_tid, ControllerStep, HandlerStep, Teardown

\* Without polling, thread control implements the abstract session: only
\* selected threads of an open session start to be injected, and the session
\* closes with no thread injected.
THEOREM Refinement == ~Polling => (Spec => Implements)
  <1> SUFFICES ASSUME ~Polling PROVE Spec => Implements
    OBVIOUS
  <1>1. Init => Promise!Init
    BY DEF Init, Promise!Init
  <1>2. TypeOK /\ Protocol /\ Dispatch /\ [Next]_vars =>
            [Promise!Next]_<<{t \in Thd : sud[t]}, session>>
    BY RefinementStep
  <1> QED
    BY <1>1, <1>2, DispatchInv, PTL DEF Spec, Implements, Promise!Spec
=============================================================================
