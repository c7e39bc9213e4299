---------------------------- MODULE SessionProofs ----------------------------
(***************************************************************************)
(* Theorems about libc's quiescent windows and the end of a session, on    *)
(* top of the invariants of ThdControlProofs.                              *)
(***************************************************************************)
EXTENDS ThdControlProofs

USE ThdAssumption

-----------------------------------------------------------------------------
(* Libc's windows.                                                          *)

\* A thread on its way into a window is tracked, nobody works on it and
\* nothing can arm it again before its signals are off.
Windows ==
    \A t \in Thd :
        /\ rearm[t] # "none" => life[t] = "run"
        /\ life[t] = "run" => "SIG_REARM" \notin pending[t]
        /\ sigsys[t] # "none" =>
             /\ life[t] = "run" /\ rearm[t] = "none" /\ t \in thd_st
             /\ \A a \in Thd : call[a].tid # t
        /\ sigsys[t] = "block" => on[t] = "ALLOW"

Quiescence == Windows /\ QuiescentDisarmed /\ DisarmFindsEntry /\ halt # "sigsys"

\* Nobody works on a thread that is on its way into a window.
LEMMA NotTargeted ==
    ASSUME TypeOK, Protocol, Dispatch, Windows, NEW t \in Thd, sigsys[t] # "none"
    PROVE  /\ accessor[t] = NoThd /\ ctl[t] = "none" /\ pending[t] \cap CtlSig = {}
           /\ \A a \in Actor : call[a].tid # t
  <1>1. \A a \in Actor : call[a].tid # t
    BY DEF Windows, Dispatch, OnlyApi, Idle, Actor
  <1>2. accessor[t] = NoThd
    BY <1>1 DEF TypeOK, Protocol, AccessorHeld
  <1>3. ~InFlight(t)
    BY <1>2 DEF Protocol, StPointerValid, Actor
  <1> QED
    BY <1>1, <1>2, <1>3 DEF InFlight

\* Every step keeps threads quiet in their windows, if the application keeps
\* its calls out of them.
LEMMA QuiescenceStep ==
    ASSUME ~Polling, Coordinated, TypeOK, Protocol, Dispatch, Quiescence, Next
    PROVE  Quiescence'
  <1> USE DEF TypeOK, Quiescence, Windows, QuiescentDisarmed, DisarmFindsEntry, Armed
  <1>0. \A t \in Thd : sigsys[t] # "none" =>
            /\ accessor[t] = NoThd /\ ctl[t] = "none"
            /\ \A a \in Actor : call[a].tid # t
    BY NotTargeted
  <1>1. ASSUME NEW a \in Thd, NEW t \in Thd,
               NEW f \in {"thd_enable", "thd_disable", "enable_self", "disable_self"},
               ApiCall(a, f, t)
        PROVE  Quiescence'
    BY <1>1 DEF ApiCall, MayTarget, kernel, entries, frames, owner, monitor, Actor
  <1>2. ASSUME NEW t \in Thd, thd_track(t) PROVE Quiescence'
    BY <1>2 DEF thd_track
  <1>3. CASE poll_initialized
    BY <1>3 DEF poll_initialized, kernel, entries, frames, owner
  <1>4. ASSUME NEW a \in Actor, LookupEnable(a) PROVE Quiescence'
    <2>1. call[a] # Idle /\ call[a].tid \in Thd
      BY <1>4, CallShape DEF LookupEnable, Idle
    <2>2. CASE Return(a) /\ UNCHANGED entries
      BY <1>4, <2>1, <2>2 DEF LookupEnable, Return, Idle, kernel, entries, frames, owner, monitor, Actor
    <2>3. CASE call[a].tid \notin thd_st /\ Insert(a, call[a].tid) /\ At(a, IF call[a].fn = "thd_enable" THEN "send" ELSE "apply")
      BY <1>4, <2>1, <2>3 DEF LookupEnable, Insert, At, kernel, entries, frames, owner, monitor, Actor
    <2> QED
      BY <1>4, <2>2, <2>3 DEF LookupEnable
  <1>5. ASSUME NEW a \in Actor, LookupDisable(a) PROVE Quiescence'
    <2>1. call[a] # Idle /\ call[a].tid \in Thd
      BY <1>5, CallShape DEF LookupDisable, Idle
    <2>2. CASE Return(a) /\ UNCHANGED accessor
      BY <1>5, <2>1, <2>2 DEF LookupDisable, Return, Idle, kernel, entries, frames, owner, monitor, Actor
    <2>3. CASE At(a, IF call[a].fn = "thd_disable" THEN "send" ELSE "apply")
      BY <1>5, <2>1, <2>3 DEF LookupDisable, At, kernel, entries, frames, owner, monitor, Actor
    <2> QED
      BY <1>5, <2>2, <2>3 DEF LookupDisable
  <1>6. ASSUME NEW a \in Actor, Send(a) PROVE Quiescence'
    <2>1. call[a] # Idle /\ call[a].tid \in Thd
      BY <1>6, CallShape DEF Send, Idle
    <2> QED
      BY <1>6, <2>1 DEF Send, acquire, send_signal, CtlSigOf, At, kernel, entries, frames, owner, monitor, Actor
  <1>7. ASSUME NEW a \in Actor, Await(a) PROVE Quiescence'
    <2>1. call[a] # Idle /\ call[a].tid \in Thd
      BY <1>7, CallShape DEF Await, Idle
    <2> QED
      BY <1>0, <1>7, <2>1 DEF Await, acquire, Return, Idle, kernel, entries, frames, owner, monitor, Actor
  <1>8. ASSUME NEW a \in Actor, ApplySelf(a) PROVE Quiescence'
    <2>1. call[a] # Idle /\ call[a].tid = a /\ a \in Thd
      BY <1>8, CallShape DEF ApplySelf, Idle, Protocol, SelfCalls
    <2> QED
      BY <1>8, <2>1 DEF ApplySelf, enable, disable, Return, BaseRuns, SigsysRuns, Idle, frames, owner, monitor, Actor
  <1>9. ASSUME NEW t \in Thd, Deliver(t) PROVE Quiescence'
    BY <1>9 DEF Deliver, DeliverAll, entries, owner, monitor
  <1>10. ASSUME NEW t \in Thd, enable_sysfail(t) PROVE Quiescence'
    BY <1>0, <1>10 DEF enable_sysfail, enable, Dispatch, FramesAlive, owner, monitor
  <1>11. ASSUME NEW t \in Thd, disable_sysfail(t) PROVE Quiescence'
    BY <1>11 DEF disable_sysfail, disable, entries, owner, monitor
  <1>12. ASSUME NEW t \in Thd, NotifySigHdlrCompletion(t) PROVE Quiescence'
    BY <1>12 DEF NotifySigHdlrCompletion, kernel, owner, monitor
  <1>13. ASSUME NEW t \in Thd, reenable_sysfail(t) PROVE Quiescence'
    BY <1>13 DEF reenable_sysfail, Rearm, kernel, owner, monitor
  <1>14. ASSUME NEW t \in Thd, disarm(t) PROVE Quiescence'
    BY <1>14 DEF disarm, Disarm, kernel, owner, monitor
  <1>15. ASSUME NEW t \in Thd, QuiesceArmed(t) PROVE Quiescence'
    BY <1>15 DEF QuiesceArmed, SigsysRuns, entries, owner, monitor
  <1>16. ASSUME NEW t \in Thd, Quiesce(t) PROVE Quiescence'
    <2>1. Armed(t) => session /\ t \in thd_st
      BY DEF Dispatch, OnlyApi, NoDanglingSelector
    <2> QED
      BY <1>16, <2>1 DEF Quiesce, BaseRuns, SigsysRuns, entries, owner, monitor
  <1>17. ASSUME NEW t \in Thd, Unquiesce(t) PROVE Quiescence'
    BY <1>17 DEF Unquiesce, DeliverAll, entries, owner, monitor
  <1>18. ASSUME NEW t \in Thd, SigsysBlocked(t) PROVE Quiescence'
    BY <1>18 DEF SigsysBlocked
  <1>19. ASSUME NEW t \in Thd, Exit(t) PROVE Quiescence'
    BY <1>19 DEF Exit, entries, frames, owner, monitor
  <1>20. ASSUME NEW p \in Thd, NEW t \in Thd, Spawn(p, t) PROVE Quiescence'
    BY <1>20 DEF Spawn, Alive, Dispatch, FramesAlive, entries, frames, owner, monitor
  <1>21. CASE TeardownLock
    BY <1>21 DEF TeardownLock, LockFree, kernel, entries, frames, monitor
  <1>22. ASSUME NEW t \in Thd, TeardownDisable(t) PROVE Quiescence'
    BY <1>22 DEF TeardownDisable, MayTarget, kernel, entries, frames, monitor, Actor
  <1>23. CASE TeardownAssert
    BY <1>23 DEF TeardownAssert, kernel, entries, frames, monitor
  <1>24. CASE TeardownReset
    BY <1>24 DEF TeardownReset, kernel, entries, frames, monitor
  <1>25. CASE Destroy
    BY <1>25 DEF Destroy, kernel, frames, monitor
  <1> QED
    BY <1>1, <1>2, <1>3, <1>4, <1>5, <1>6, <1>7, <1>8, <1>9, <1>10, <1>11, <1>12, <1>13,
       <1>14, <1>15, <1>16, <1>17, <1>18, <1>19, <1>20, <1>21, <1>22, <1>23, <1>24, <1>25
       DEF Next, add, remove, add_tid, remove_tid, ControllerStep, HandlerStep, Teardown

\* Windows stay quiet in every behaviour of a coordinated application.
LEMMA QuiescenceInv ==
    ~Polling /\ Coordinated => (Spec => []Quiescence)
  <1> SUFFICES ASSUME ~Polling, Coordinated PROVE Spec => []Quiescence
    OBVIOUS
  <1>1. Init => Quiescence
    BY DEF Init, Quiescence, Windows, QuiescentDisarmed, DisarmFindsEntry, Armed
  <1>2. Quiescence /\ UNCHANGED vars => Quiescence'
    BY DEF vars, kernel, entries, frames, Quiescence, Windows, QuiescentDisarmed, DisarmFindsEntry,
           Armed
  <1>3. TypeOK /\ Protocol /\ Dispatch /\ Quiescence /\ [Next]_vars => Quiescence'
    BY <1>2, QuiescenceStep
  <1> QED
    BY <1>1, <1>3, DispatchInv, PTL DEF Spec

\* Without polling, and if the application keeps its calls for a thread out of
\* that thread's libc windows, a thread in a window is never armed: neither a
\* control signal nor a SIG_REARM comes between disarm and the mask change.
THEOREM WindowsQuiet == ~Polling /\ Coordinated => (Spec => []QuiescentDisarmed)
  <1>1. Quiescence => QuiescentDisarmed
    BY DEF Quiescence
  <1> QED
    BY QuiescenceInv, <1>1, PTL

-----------------------------------------------------------------------------
(* The end of a session.                                                    *)

\* What ~Session has not disabled yet is still in its list, or it is at it.
Collected ==
    dtor = "looping" =>
        /\ call[Owner] = Idle \/ call[Owner].fn = "thd_disable"
        /\ \A t \in thd_st : t \in tids \/ call[Owner].tid = t

Emptied == Collected /\ TeardownFindsNone

\* Every step of ~Session, and every step beside it, keeps that.
LEMMA EmptiedStep ==
    ASSUME ~Polling, TypeOK, Protocol, Dispatch, Emptied, Next
    PROVE  Emptied'
  <1> USE DEF TypeOK, Emptied, Collected, TeardownFindsNone
  <1>0. dtor = "looping" => \A a \in Actor : call[a] # Idle => a = Owner /\ call[a].fn = "thd_disable"
    BY DEF Protocol, DtorAlone, Dispatch, OnlyApi, Actor
  <1>1. ASSUME NEW a \in Thd, NEW t \in Thd,
               NEW f \in {"thd_enable", "thd_disable", "enable_self", "disable_self"},
               ApiCall(a, f, t)
        PROVE  Emptied'
    BY <1>1 DEF ApiCall, kernel, entries, frames, owner, monitor, Actor
  <1>2. ASSUME NEW t \in Thd, thd_track(t) PROVE Emptied'
    BY <1>2 DEF thd_track
  <1>3. CASE poll_initialized
    BY <1>3 DEF poll_initialized, kernel, entries, frames, owner
  <1>4. ASSUME NEW a \in Actor, LookupEnable(a) PROVE Emptied'
    <2>1. call[a] # Idle /\ call[a].tid \in Thd
      BY <1>4, CallShape DEF LookupEnable, Idle
    <2>2. CASE Return(a) /\ UNCHANGED entries
      BY <1>0, <1>4, <2>1, <2>2 DEF LookupEnable, Return, Idle, kernel, entries, frames, owner, monitor, Actor
    <2>3. CASE call[a].tid \notin thd_st /\ Insert(a, call[a].tid) /\ At(a, IF call[a].fn = "thd_enable" THEN "send" ELSE "apply")
      BY <1>0, <1>4, <2>1, <2>3 DEF LookupEnable, Insert, At, kernel, entries, frames, owner, monitor, Actor
    <2> QED
      BY <1>4, <2>2, <2>3 DEF LookupEnable
  <1>5. ASSUME NEW a \in Actor, LookupDisable(a) PROVE Emptied'
    <2>1. call[a] # Idle /\ call[a].tid \in Thd
      BY <1>5, CallShape DEF LookupDisable, Idle
    <2>2. CASE call[a].tid \notin thd_st /\ Return(a)
      BY <1>0, <1>5, <2>1, <2>2 DEF LookupDisable, Return, Idle, kernel, entries, frames, owner, monitor, Actor
    <2>3. CASE At(a, IF call[a].fn = "thd_disable" THEN "send" ELSE "apply")
      BY <1>0, <1>5, <2>1, <2>3 DEF LookupDisable, At, kernel, entries, frames, owner, monitor, Actor
    <2> QED
      BY <1>5, <2>2, <2>3 DEF LookupDisable
  <1>6. ASSUME NEW a \in Actor, Send(a) PROVE Emptied'
    <2>1. call[a] # Idle /\ call[a].tid \in Thd
      BY <1>6, CallShape DEF Send, Idle
    <2> QED
      BY <1>0, <1>6, <2>1 DEF Send, acquire, send_signal, CtlSigOf, At, kernel, entries, frames, owner, monitor, Actor
  <1>7. ASSUME NEW a \in Actor, Await(a) PROVE Emptied'
    <2>1. call[a] # Idle /\ call[a].tid \in Thd
      BY <1>7, CallShape DEF Await, Idle
    <2> QED
      BY <1>0, <1>7, <2>1 DEF Await, acquire, Return, Idle, kernel, entries, frames, owner, monitor, Actor
  <1>8. ASSUME NEW a \in Actor, ApplySelf(a) PROVE Emptied'
    <2>1. call[a] # Idle /\ call[a].tid = a /\ a \in Thd
      BY <1>8, CallShape DEF ApplySelf, Idle, Protocol, SelfCalls
    <2> QED
      BY <1>0, <1>8, <2>1 DEF ApplySelf, enable, disable, Return, BaseRuns, SigsysRuns, Idle, frames, owner, monitor, Actor
  <1>9. ASSUME NEW t \in Thd, Deliver(t) PROVE Emptied'
    BY <1>9 DEF Deliver, DeliverAll, entries, owner, monitor
  <1>10. ASSUME NEW t \in Thd, enable_sysfail(t) PROVE Emptied'
    BY <1>10 DEF enable_sysfail, enable, owner, monitor
  <1>11. ASSUME NEW t \in Thd, disable_sysfail(t) PROVE Emptied'
    BY <1>11 DEF disable_sysfail, disable, entries, owner, monitor
  <1>12. ASSUME NEW t \in Thd, NotifySigHdlrCompletion(t) PROVE Emptied'
    BY <1>12 DEF NotifySigHdlrCompletion, kernel, owner, monitor
  <1>13. ASSUME NEW t \in Thd, reenable_sysfail(t) PROVE Emptied'
    BY <1>13 DEF reenable_sysfail, Rearm, kernel, owner, monitor
  <1>14. ASSUME NEW t \in Thd, disarm(t) PROVE Emptied'
    BY <1>14 DEF disarm, Disarm, kernel, owner, monitor
  <1>15. ASSUME NEW t \in Thd, QuiesceArmed(t) PROVE Emptied'
    BY <1>15 DEF QuiesceArmed, SigsysRuns, entries, owner, monitor
  <1>16. ASSUME NEW t \in Thd, Quiesce(t) PROVE Emptied'
    BY <1>16 DEF Quiesce, entries, owner, monitor
  <1>17. ASSUME NEW t \in Thd, Unquiesce(t) PROVE Emptied'
    BY <1>17 DEF Unquiesce, DeliverAll, entries, owner, monitor
  <1>18. ASSUME NEW t \in Thd, SigsysBlocked(t) PROVE Emptied'
    BY <1>18 DEF SigsysBlocked, kernel, entries, frames, owner, monitor
  <1>19. ASSUME NEW t \in Thd, Exit(t) PROVE Emptied'
    BY <1>19 DEF Exit, entries, frames, owner, monitor
  <1>20. ASSUME NEW p \in Thd, NEW t \in Thd, Spawn(p, t) PROVE Emptied'
    BY <1>20 DEF Spawn, entries, frames, owner, monitor
  <1>21. CASE TeardownLock
    BY <1>21 DEF TeardownLock, LockFree, Idle, kernel, entries, frames, monitor
  <1>22. ASSUME NEW t \in Thd, TeardownDisable(t) PROVE Emptied'
    BY <1>22 DEF TeardownDisable, Idle, kernel, entries, frames, monitor, Actor
  <1>23. CASE TeardownAssert
    BY <1>23 DEF TeardownAssert, Idle, kernel, entries, frames, monitor
  <1>24. CASE TeardownReset
    BY <1>24 DEF TeardownReset, kernel, entries, frames, monitor
  <1>25. CASE Destroy
    BY <1>25 DEF Destroy, kernel, frames, monitor
  <1> QED
    BY <1>1, <1>2, <1>3, <1>4, <1>5, <1>6, <1>7, <1>8, <1>9, <1>10, <1>11, <1>12, <1>13,
       <1>14, <1>15, <1>16, <1>17, <1>18, <1>19, <1>20, <1>21, <1>22, <1>23, <1>24, <1>25
       DEF Next, add, remove, add_tid, remove_tid, ControllerStep, HandlerStep, Teardown

\* What ~Session promises holds in every behaviour.
LEMMA EmptiedInv == ~Polling => (Spec => []Emptied)
  <1> SUFFICES ASSUME ~Polling PROVE Spec => []Emptied
    OBVIOUS
  <1>1. Init => Emptied
    BY DEF Init, Emptied, Collected, TeardownFindsNone
  <1>2. Emptied /\ UNCHANGED vars => Emptied'
    BY DEF vars, entries, owner, Emptied, Collected, TeardownFindsNone
  <1>3. TypeOK /\ Protocol /\ Dispatch /\ Emptied /\ [Next]_vars => Emptied'
    BY <1>2, EmptiedStep
  <1> QED
    BY <1>1, <1>3, DispatchInv, PTL DEF Spec

\* Without polling, the assertion of ~Session never fails: the calls that the
\* unique lock waited for are over and none starts, so disabling the threads
\* collected once empties thd_st.
THEOREM NoneLeft == ~Polling => (Spec => []TeardownFindsNone)
  <1>1. Emptied => TeardownFindsNone
    BY DEF Emptied
  <1> QED
    BY EmptiedInv, <1>1, PTL

\* Without polling, a session never ends the process of an application that
\* keeps its calls out of libc's windows: no assertion of disarm or ~Session
\* fails and no trap meets a blocked SIGSYS.
THEOREM KeepsRunning == ~Polling /\ Coordinated => (Spec => []Running)
  <1>1. TypeOK /\ Quiescence /\ Emptied => Running
    BY DEF TypeOK, Quiescence, DisarmFindsEntry, Emptied, TeardownFindsNone, Running
  <1> QED
    BY QuiescenceInv, EmptiedInv, DispatchInv, <1>1, PTL
=============================================================================
