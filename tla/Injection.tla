------------------------------ MODULE Injection ------------------------------
(***************************************************************************)
(* What a sysfail session promises its user (include/sysfail.hh, class     *)
(* Session), without signals, dispatch selectors or locks: a set of        *)
(* threads is injected, only threads the plan's selector accepts join it,  *)
(* and the session ends only once nobody is injected any more.             *)
(***************************************************************************)
CONSTANTS Thd, Selected

VARIABLES injected, open

Init == injected = {} /\ open = TRUE

Start(t) ==
    /\ open /\ t \in Selected
    /\ injected' = injected \cup {t}
    /\ UNCHANGED open

Stop(t) ==
    /\ injected' = injected \ {t}
    /\ UNCHANGED open

Close ==
    /\ open /\ injected = {}
    /\ open' = FALSE
    /\ UNCHANGED injected

Next == (\E t \in Thd : Start(t) \/ Stop(t)) \/ Close

Spec == Init /\ [][Next]_<<injected, open>>
=============================================================================
