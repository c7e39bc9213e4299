----------------------------- MODULE Discovery -----------------------------
(***************************************************************************)
(* What thread discovery promises the session that listens to it           *)
(* (src/src/thdmon.hh), without generations, directory scans or locks:     *)
(* only threads of the application that have existed are announced, only   *)
(* announced threads that are gone are retracted, and discovery is up only *)
(* once the threads it found at its start have been announced.             *)
(***************************************************************************)
CONSTANTS Thd, Unborn

VARIABLES alive, born, announced, up

Init ==
    /\ alive = Thd \ Unborn
    /\ born = Thd \ Unborn
    /\ announced = {}
    /\ up = FALSE

Birth(t) ==
    /\ t \notin born
    /\ alive' = alive \cup {t}
    /\ born' = born \cup {t}
    /\ UNCHANGED <<announced, up>>

Death(t) ==
    /\ t \in alive
    /\ alive' = alive \ {t}
    /\ UNCHANGED <<born, announced, up>>

\* The thread may have ended meanwhile: discovery lags behind.
Announce(t) ==
    /\ t \in born \ announced
    /\ announced' = announced \cup {t}
    /\ UNCHANGED <<alive, born, up>>

Retract(t) ==
    /\ t \in announced \ alive
    /\ announced' = announced \ {t}
    /\ UNCHANGED <<alive, born, up>>

Ready ==
    /\ ~up
    /\ alive \ Unborn \subseteq announced
    /\ up' = TRUE
    /\ UNCHANGED <<alive, born, announced>>

Next == Ready \/ \E t \in Thd : Birth(t) \/ Death(t) \/ Announce(t) \/ Retract(t)

Spec == Init /\ [][Next]_<<alive, born, announced, up>>
=============================================================================
