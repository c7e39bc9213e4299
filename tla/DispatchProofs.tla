--------------------------- MODULE DispatchProofs ---------------------------
(***************************************************************************)
(* Theorems about the SIGSYS handler and the signal mask, for any signals, *)
(* any handlers' masks and handlers nested to any depth.                   *)
(***************************************************************************)
EXTENDS Dispatch, TLAPS

USE DispatchAssumption

-----------------------------------------------------------------------------
(* The inductive invariant.                                                 *)

\* The mask of the i-th context of the stack, and the one it would have without
\* sysfail: what is restored when the handler above it returns.
MaskOf(i) == IF i < Depth THEN stack[i + 1].mask ELSE mask
AskedOf(i) == IF i < Depth THEN stack[i + 1].asked ELSE asked

Suspended(i) == \A j \in i + 1 .. Depth : stack[j].pc = "user"

\* A context with SIGSYS blocked has SIG_REARM blocked too, and so have the
\* handlers that interrupted it: a pending SIG_REARM stays pending.
Covered ==
    /\ "SIGSYS" \notin sa_mask
    /\ \A i \in 1 .. Depth :
         /\ "SIGSYS" \in MaskOf(i) => "SIG_REARM" \in MaskOf(i)
         /\ "SIG_REARM" \in MaskOf(i) =>
              \A j \in 1 .. Depth : i <= j => "SIG_REARM" \in MaskOf(j)

\* handle_sigsys works on a request of the code it interrupted.
HasRequest ==
    \A i \in 1 .. Depth :
        stack[i].pc # "user" => stack[i].req \in IF i = 1 THEN Requests ELSE HandlerRequests

\* A context between its disarm and its SIG_REARM is disarmed, no handler above
\* it traps, and no SIG_REARM can be delivered before its own is queued.
InWindow ==
    \A i \in 1 .. Depth :
        /\ stack[i].pc \in {"continue", "rearm"} => ~on /\ Suspended(i)
        /\ stack[i].pc = "continue" =>
             /\ Blocking(stack[i].req)
             /\ "SIG_REARM" \in pending => "SIG_REARM" \in MaskOf(i)
        /\ stack[i].pc = "rearm" => "SIG_REARM" \in MaskOf(i)

\* While the thread is armed, no context has SIGSYS blocked: neither the one
\* that runs nor the ones that will run again.
AllUnblocked == on => \A i \in 1 .. Depth : "SIGSYS" \notin MaskOf(i)

ArmedInv == TypeOK /\ HasRequest /\ Covered /\ InWindow /\ AllUnblocked

\* The main code's mask is empty outside a window; an armed thread is outside.
MainMask ==
    /\ MaskOf(1) = {} \/ "SIG_REARM" \in MaskOf(1)
    /\ on \/ stack[1].pc = "sigsys" => MaskOf(1) = {}

AllAsAsked == \A i \in 1 .. Depth : MaskOf(i) \ {"SIGSYS"} = AskedOf(i) \ {"SIGSYS"}

AskedInv == ArmedInv /\ MainMask /\ AllAsAsked

-----------------------------------------------------------------------------
(* What the steps do to the stack.                                          *)

PC == {"user", "sigsys", "continue", "rearm"}

\* The fields of an interrupted context.
LEMMA ContextFields ==
    ASSUME TypeOK, NEW i \in 1 .. Depth
    PROVE  /\ stack[i].pc \in PC /\ stack[i].req \in Request \cup {NoRequest}
           /\ stack[i].mask \in SUBSET Signals /\ stack[i].asked \in SUBSET Signals
           /\ stack[i] = [pc |-> stack[i].pc, req |-> stack[i].req,
                          mask |-> stack[i].mask, asked |-> stack[i].asked]
  <1>1. stack[i] \in ContextType
    BY DEF TypeOK, Depth
  <1> QED
    BY <1>1 DEF ContextType, PC

\* The top context is replaced.
LEMMA TopUpdate ==
    ASSUME TypeOK, NEW c \in ContextType, stack' = [stack EXCEPT ![Depth] = c]
    PROVE  /\ stack' \in Seq(ContextType) /\ Depth' = Depth
           /\ stack'[Depth] = c
           /\ \A i \in 1 .. Depth : i # Depth => stack'[i] = stack[i]
  BY DEF TypeOK, Depth

\* The top context moves on and keeps what it restores.
LEMMA TopMoves ==
    ASSUME TypeOK, NEW pc \in PC, NEW r \in Request \cup {NoRequest},
           stack' = [stack EXCEPT ![Depth] = [pc |-> pc, req |-> r, mask |-> Top.mask, asked |-> Top.asked]]
    PROVE  /\ stack' \in Seq(ContextType) /\ Depth' = Depth
           /\ stack'[Depth].pc = pc /\ stack'[Depth].req = r
           /\ \A i \in 1 .. Depth : stack'[i].mask = stack[i].mask /\ stack'[i].asked = stack[i].asked
           /\ \A i \in 1 .. Depth : i # Depth => stack'[i] = stack[i]
  <1>1. Depth \in 1 .. Depth
    BY DEF TypeOK, Depth
  <1>2. Top.mask \in SUBSET Signals /\ Top.asked \in SUBSET Signals
    BY <1>1, ContextFields DEF Top
  <1> DEFINE c == [pc |-> pc, req |-> r, mask |-> Top.mask, asked |-> Top.asked]
  <1>3. c \in ContextType
    BY <1>2 DEF ContextType, PC
  <1>4. /\ c.pc = pc /\ c.req = r
        /\ c.mask = stack[Depth].mask /\ c.asked = stack[Depth].asked
    BY DEF Top
  <1>5. stack' = [stack EXCEPT ![Depth] = c]
    OBVIOUS
  <1> HIDE DEF c
  <1>6. /\ stack' \in Seq(ContextType) /\ Depth' = Depth
        /\ stack'[Depth] = c
        /\ \A i \in 1 .. Depth : i # Depth => stack'[i] = stack[i]
    BY <1>3, <1>5, TopUpdate
  <1> QED
    BY <1>4, <1>6

\* Moving on changes the pc of the innermost context alone.
LEMMA GotoEffect ==
    ASSUME TypeOK, NEW pc \in PC, Goto(pc)
    PROVE  /\ stack' \in Seq(ContextType) /\ Depth' = Depth
           /\ stack'[Depth].pc = pc /\ stack'[Depth].req = stack[Depth].req
           /\ \A i \in 1 .. Depth : stack'[i].mask = stack[i].mask /\ stack'[i].asked = stack[i].asked
           /\ \A i \in 1 .. Depth : i # Depth => stack'[i] = stack[i]
  <1>1. Depth \in 1 .. Depth
    BY DEF TypeOK, Depth
  <1>2. Top \in ContextType
    BY <1>1 DEF Top, TypeOK, Depth
  <1>3. stack' = [stack EXCEPT ![Depth] = [Top EXCEPT !.pc = pc]]
    BY DEF Goto, Top
  <1>4. [Top EXCEPT !.pc = pc] = [pc |-> pc, req |-> Top.req, mask |-> Top.mask, asked |-> Top.asked]
    BY <1>2 DEF ContextType
  <1>5. Top.req \in Request \cup {NoRequest}
    BY <1>1, ContextFields DEF Top
  <1> QED
    BY <1>3, <1>4, <1>5, TopMoves DEF Top

\* A trap records the request in the innermost context.
LEMMA TrapEffect ==
    ASSUME TypeOK, NEW r \in Request,
           stack' = [stack EXCEPT ![Depth] =
                       [pc |-> "sigsys", req |-> r, mask |-> @.mask, asked |-> @.asked]]
    PROVE  /\ stack' \in Seq(ContextType) /\ Depth' = Depth
           /\ stack'[Depth].pc = "sigsys" /\ stack'[Depth].req = r
           /\ \A i \in 1 .. Depth : stack'[i].mask = stack[i].mask /\ stack'[i].asked = stack[i].asked
           /\ \A i \in 1 .. Depth : i # Depth => stack'[i] = stack[i]
  <1>1. stack' = [stack EXCEPT ![Depth] =
                    [pc |-> "sigsys", req |-> r, mask |-> Top.mask, asked |-> Top.asked]]
    BY DEF Top
  <1> QED
    BY <1>1, TopMoves DEF PC

\* A signal's handler runs in a context of its own.
LEMMA PushEffect ==
    ASSUME TypeOK, Depth < MaxDepth, stack' = Append(stack, Context(mask, asked))
    PROVE  /\ stack' \in Seq(ContextType) /\ Depth' = Depth + 1
           /\ stack'[Depth + 1].pc = "user"
           /\ stack'[Depth + 1].mask = mask /\ stack'[Depth + 1].asked = asked
           /\ \A i \in 1 .. Depth : stack'[i] = stack[i]
  <1>1. Context(mask, asked) \in ContextType
    BY DEF Context, ContextType, TypeOK
  <1> QED
    BY <1>1 DEF TypeOK, Depth, Context

\* Returning from a handler leaves the outer contexts as they were.
LEMMA PopEffect ==
    ASSUME TypeOK, Depth > 1, stack' = SubSeq(stack, 1, Depth - 1)
    PROVE  /\ stack' \in Seq(ContextType) /\ Depth' = Depth - 1
           /\ \A i \in 1 .. Depth - 1 : stack'[i] = stack[i]
  BY DEF TypeOK, Depth

\* The kernel's rt_sigprocmask yields a mask.
LEMMA ChangedType ==
    ASSUME NEW m \in SUBSET Signals, NEW r \in Request
    PROVE  Changed(m, r) \in SUBSET Signals
  BY DEF Changed, Request

-----------------------------------------------------------------------------
(* Type correctness and RearmOnTheWay, which need no assumption on requests. *)

\* The requests the thread may be working on.
LEMMA RequestType ==
    Requests \cup HandlerRequests \subseteq Request
  OBVIOUS

\* A context that moves on in handle_sigsys keeps its request.
LEMMA RequestKept ==
    ASSUME TypeOK, HasRequest, NEW pc \in PC, Goto(pc), Top.pc # "user"
    PROVE  HasRequest'
  <1>1. Depth \in 1 .. Depth /\ Top = stack[Depth]
    BY DEF TypeOK, Depth, Top
  <1>2. /\ Depth' = Depth /\ stack'[Depth].req = stack[Depth].req
        /\ \A i \in 1 .. Depth : i # Depth => stack'[i] = stack[i]
    BY GotoEffect
  <1> QED
    BY <1>1, <1>2 DEF HasRequest

\* Every step keeps the types.
LEMMA TypeStep ==
    ASSUME TypeOK, HasRequest, [Next]_vars
    PROVE  TypeOK' /\ HasRequest'
  <1>1. /\ on \in BOOLEAN /\ mask \in SUBSET Signals /\ pending \in SUBSET (App \cup {"SIG_REARM"})
        /\ sa_mask \in SUBSET Signals /\ stack \in Seq(ContextType) /\ Depth \in 1 .. MaxDepth
        /\ asked \in SUBSET Signals /\ changes \in 0 .. MaxChanges
    BY DEF TypeOK, Depth
  <1>2. Top = stack[Depth] /\ Depth \in 1 .. Depth
    BY <1>1 DEF Top
  <1> DEFINE Typed == /\ on' \in BOOLEAN /\ mask' \in SUBSET Signals
                      /\ pending' \in SUBSET (App \cup {"SIG_REARM"}) /\ sa_mask' \in SUBSET Signals
                      /\ stack' \in Seq(ContextType) /\ Depth' \in 1 .. MaxDepth
                      /\ asked' \in SUBSET Signals /\ changes' \in 0 .. MaxChanges
                      /\ HasRequest'
  <1>3. SUFFICES Typed
    BY DEF TypeOK, Depth
  <1>4. ASSUME NEW r \in Requests \cup HandlerRequests, rt_sigprocmask(r)
        PROVE  Typed
    <2>1. r \in Request
      BY RequestType
    <2>2. CASE on
      BY <1>1, <1>4, <2>1, <2>2, TrapEffect DEF rt_sigprocmask, HasRequest
    <2>3. CASE ~on
      BY <1>1, <1>4, <2>1, <2>3, ChangedType DEF rt_sigprocmask, HasRequest, Depth
    <2> QED
      BY <2>2, <2>3
  <1>5. ASSUME NEW m \in LateMasks, rt_sigaction(m)
        PROVE  Typed
    BY <1>1, <1>5 DEF rt_sigaction, HasRequest, Depth
  <1>6. CASE rt_sigreturn
    <2>1. /\ stack' \in Seq(ContextType) /\ Depth' = Depth - 1
          /\ \A i \in 1 .. Depth - 1 : stack'[i] = stack[i]
      BY <1>6, PopEffect DEF rt_sigreturn
    <2>2. HasRequest'
      BY <1>1, <2>1 DEF HasRequest
    <2>3. mask' \in SUBSET Signals /\ asked' \in SUBSET Signals
      BY <1>2, <1>6, ContextFields DEF rt_sigreturn, Restored
    <2>4. Depth' \in 1 .. MaxDepth
      BY <1>1, <1>6, <2>1 DEF rt_sigreturn
    <2> QED
      BY <1>1, <1>6, <2>1, <2>2, <2>3, <2>4 DEF rt_sigreturn
  <1>7. CASE handle_sigsys
    <2>1. Top.req \in Request
      BY <1>2, <1>7, RequestType DEF handle_sigsys, At, HasRequest
    <2>2. CASE Blocking(Top.req)
      <3>1. HasRequest' /\ stack' \in Seq(ContextType) /\ Depth' = Depth
        BY <1>7, <2>2, GotoEffect, RequestKept DEF handle_sigsys, At, PC
      <3> QED
        BY <1>1, <1>7, <2>2, <3>1 DEF handle_sigsys, disarm
    <2>3. CASE ~Blocking(Top.req)
      <3>1. HasRequest' /\ stack' \in Seq(ContextType) /\ Depth' = Depth
        BY <1>7, <2>3, GotoEffect, RequestKept DEF handle_sigsys, At, PC
      <3> QED
        BY <1>1, <1>7, <2>1, <2>3, <3>1, ChangedType DEF handle_sigsys
    <2> QED
      BY <2>2, <2>3
  <1>8. CASE continue_syscall
    <2>1. Top.req \in Request
      BY <1>2, <1>8, RequestType DEF continue_syscall, At, HasRequest
    <2>2. HasRequest' /\ stack' \in Seq(ContextType) /\ Depth' = Depth
      BY <1>8, GotoEffect, RequestKept DEF continue_syscall, At, PC
    <2> QED
      BY <1>1, <1>8, <2>1, <2>2, ChangedType DEF continue_syscall
  <1>9. CASE send_rearm
    <2>1. HasRequest' /\ stack' \in Seq(ContextType) /\ Depth' = Depth
      BY <1>9, GotoEffect, RequestKept DEF send_rearm, At, PC
    <2> QED
      BY <1>1, <1>9, <2>1 DEF send_rearm, RearmSig
  <1>10. ASSUME NEW s \in App, Raise(s)
         PROVE  Typed
    BY <1>1, <1>10 DEF Raise, HasRequest, Depth
  <1>11. ASSUME NEW s \in App, Deliver(s)
         PROVE  Typed
    <2>1. /\ stack' \in Seq(ContextType) /\ Depth' = Depth + 1
          /\ stack'[Depth + 1].pc = "user"
          /\ \A i \in 1 .. Depth : stack'[i] = stack[i]
      BY <1>11, PushEffect DEF Deliver
    <2>2. HasRequest'
      BY <1>1, <2>1 DEF HasRequest
    <2>3. s \in Signals
      BY DEF Signals
    <2>4. Depth' \in 1 .. MaxDepth
      BY <1>1, <1>11, <2>1 DEF Deliver
    <2> QED
      BY <1>1, <1>11, <2>1, <2>2, <2>3, <2>4 DEF Deliver
  <1>12. CASE reenable_sysfail
    BY <1>1, <1>12 DEF reenable_sysfail, HasRequest, Depth
  <1>13. CASE UNCHANGED vars
    BY <1>1, <1>13 DEF vars, HasRequest, Depth
  <1> QED
    BY <1>4, <1>5, <1>6, <1>7, <1>8, <1>9, <1>10, <1>11, <1>12, <1>13 DEF Next

\* Every step keeps SIG_REARM on its way to a disarmed thread.
LEMMA RearmStep ==
    ASSUME TypeOK, RearmOnTheWay, [Next]_vars
    PROVE  RearmOnTheWay'
  <1>1. Top = stack[Depth] /\ Depth \in 1 .. Depth /\ Depth \in Nat
    BY DEF Top, TypeOK, Depth
  <1>2. ASSUME NEW r \in Requests \cup HandlerRequests, rt_sigprocmask(r)
        PROVE  RearmOnTheWay'
    <2>1. r \in Request
      BY RequestType
    <2> QED
      BY <1>1, <1>2, <2>1, TrapEffect DEF rt_sigprocmask, RearmOnTheWay, At, Depth
  <1>3. CASE rt_sigreturn
    BY <1>1, <1>3, PopEffect DEF rt_sigreturn, RearmOnTheWay, At
  <1>4. CASE handle_sigsys
    BY <1>1, <1>4, GotoEffect DEF handle_sigsys, disarm, RearmOnTheWay, At, PC
  <1>5. CASE continue_syscall
    BY <1>1, <1>5, GotoEffect DEF continue_syscall, RearmOnTheWay, At, PC
  <1>6. CASE send_rearm
    BY <1>6 DEF send_rearm, RearmSig, RearmOnTheWay
  <1>7. ASSUME NEW s \in App, Raise(s)
        PROVE  RearmOnTheWay'
    BY <1>7 DEF Raise, RearmOnTheWay, Depth
  <1>8. ASSUME NEW s \in App, Deliver(s)
        PROVE  RearmOnTheWay'
    <2>1. /\ Depth' = Depth + 1
          /\ \A i \in 1 .. Depth : stack'[i] = stack[i]
      BY <1>8, PushEffect DEF Deliver
    <2>2. on' = on /\ ("SIG_REARM" \in pending => "SIG_REARM" \in pending')
      BY <1>8 DEF Deliver
    <2> QED
      BY <1>1, <2>1, <2>2 DEF RearmOnTheWay
  <1>9. CASE reenable_sysfail
    BY <1>9 DEF reenable_sysfail, RearmOnTheWay
  <1>10. ASSUME NEW m \in LateMasks, rt_sigaction(m)
         PROVE  RearmOnTheWay'
    BY <1>10 DEF rt_sigaction, RearmOnTheWay, Depth
  <1>11. CASE UNCHANGED vars
    BY <1>11 DEF vars, RearmOnTheWay, Depth
  <1> QED
    BY <1>2, <1>3, <1>4, <1>5, <1>6, <1>7, <1>8, <1>9, <1>10, <1>11 DEF Next

-----------------------------------------------------------------------------
(* The masks of the contexts.                                               *)

\* The top context moves on: the contexts below keep their masks.
LEMMA MasksBelow ==
    ASSUME TypeOK, Depth' = Depth,
           \A i \in 1 .. Depth : stack'[i].mask = stack[i].mask /\ stack'[i].asked = stack[i].asked
    PROVE  /\ \A i \in 1 .. Depth : i < Depth => MaskOf(i)' = MaskOf(i) /\ AskedOf(i)' = AskedOf(i)
           /\ MaskOf(Depth) = mask /\ MaskOf(Depth)' = mask'
           /\ AskedOf(Depth) = asked /\ AskedOf(Depth)' = asked'
  BY DEF TypeOK, Depth, MaskOf, AskedOf

\* A handler starts above the contexts.
LEMMA MasksPush ==
    ASSUME TypeOK, Depth' = Depth + 1,
           stack'[Depth + 1].mask = mask, stack'[Depth + 1].asked = asked,
           \A i \in 1 .. Depth : stack'[i] = stack[i]
    PROVE  /\ \A i \in 1 .. Depth : MaskOf(i)' = MaskOf(i) /\ AskedOf(i)' = AskedOf(i)
           /\ MaskOf(Depth) = mask /\ AskedOf(Depth) = asked
           /\ \A i \in 1 .. Depth' : i = Depth + 1 => MaskOf(i)' = mask' /\ AskedOf(i)' = asked'
  <1>1. Depth \in Nat
    BY DEF TypeOK, Depth
  <1> QED
    BY <1>1 DEF MaskOf, AskedOf

\* The top handler returns: the context below gets its mask back.
LEMMA MasksPop ==
    ASSUME TypeOK, Depth > 1, Depth' = Depth - 1, mask' = stack[Depth].mask, asked' = stack[Depth].asked,
           \A i \in 1 .. Depth - 1 : stack'[i] = stack[i]
    PROVE  \A i \in 1 .. Depth - 1 : MaskOf(i)' = MaskOf(i) /\ AskedOf(i)' = AskedOf(i)
  <1>1. Depth \in Nat
    BY DEF TypeOK, Depth
  <1> QED
    BY <1>1 DEF MaskOf, AskedOf

\* What a request does to the two signals.
LEMMA ChangedBlocks ==
    ASSUME NEW m \in SUBSET Signals, NEW r \in Request, NEW s \in Signals
    PROVE  /\ Blocked(r, s) => s \in Changed(m, r)
           /\ s \in m /\ ~Unblocked(r, s) => s \in Changed(m, r)
           /\ s \in Changed(m, r) => Blocked(r, s) \/ (s \in m /\ ~Unblocked(r, s))
  BY DEF Changed, Request, Blocked, Unblocked

-----------------------------------------------------------------------------
(* An armed thread can take SIGSYS.                                         *)

\* Nothing is on its way while the top context traps, and only the top context
\* moves in handle_sigsys.
LEMMA TopAlone ==
    ASSUME TypeOK, InWindow, on \/ Top.pc # "user"
    PROVE  \A i \in 1 .. Depth : i # Depth => stack[i].pc \notin {"continue", "rearm"}
  <1>1. Depth \in Nat /\ Top = stack[Depth]
    BY DEF TypeOK, Depth, Top
  <1> QED
    BY <1>1 DEF InWindow, Suspended

\* A step of the top context that changes no mask keeps Covered, and
\* AllUnblocked unless it arms the thread.
LEMMA MasksKept ==
    ASSUME TypeOK, Covered, AllUnblocked, Depth' = Depth, mask' = mask, sa_mask' = sa_mask, on' => on,
           \A i \in 1 .. Depth : stack'[i].mask = stack[i].mask /\ stack'[i].asked = stack[i].asked
    PROVE  Covered' /\ AllUnblocked' /\ \A i \in 1 .. Depth : MaskOf(i)' = MaskOf(i)
  <1>1. \A i \in 1 .. Depth : MaskOf(i)' = MaskOf(i)
    BY MasksBelow DEF TypeOK, Depth
  <1> QED
    BY <1>1 DEF Covered, AllUnblocked

\* The kernel changes the mask of the top context for a request of its code.
LEMMA MaskChanges ==
    ASSUME Coupled, TypeOK, Covered, Depth' = Depth, sa_mask' = sa_mask,
           NEW r \in IF Depth = 1 THEN Requests ELSE HandlerRequests,
           mask' = Changed(mask, r),
           \A i \in 1 .. Depth : stack'[i].mask = stack[i].mask /\ stack'[i].asked = stack[i].asked
    PROVE  Covered' /\ \A i \in 1 .. Depth : i < Depth => MaskOf(i)' = MaskOf(i)
  <1>1. Depth \in Nat \ {0} /\ Depth \in 1 .. Depth /\ mask \in SUBSET Signals
    BY DEF TypeOK, Depth
  <1>2. r \in Request /\ r \in Requests \cup HandlerRequests
    BY RequestType
  <1>3. \A i \in 1 .. Depth : i < Depth => MaskOf(i)' = MaskOf(i)
    BY MasksBelow
  <1>4. MaskOf(Depth) = mask /\ \A i \in 1 .. Depth : i = Depth => MaskOf(i)' = mask'
    BY <1>1, MasksBelow
  <1>5. {"SIGSYS", "SIG_REARM"} \subseteq Signals
    BY DEF Signals
  <1>6. "SIGSYS" \in mask' => "SIG_REARM" \in mask'
    BY <1>1, <1>2, <1>4, <1>5, ChangedBlocks DEF Coupled, Covered
  <1>7. Depth > 1 /\ "SIG_REARM" \in mask => "SIG_REARM" \in mask'
    BY <1>1, <1>2, <1>5, ChangedBlocks DEF Coupled
  <1>8. \A i \in 1 .. Depth : "SIG_REARM" \in MaskOf(i) => "SIG_REARM" \in mask
    BY <1>1, <1>4 DEF Covered
  <1> QED
    BY <1>1, <1>3, <1>4, <1>6, <1>7, <1>8 DEF Covered

\* Every step keeps armed contexts able to trap, when requests treat SIGSYS and
\* SIG_REARM alike.
LEMMA ArmedStep ==
    ASSUME Coupled, ArmedInv, [Next]_vars
    PROVE  Covered' /\ InWindow' /\ AllUnblocked'
  <1> USE DEF ArmedInv
  <1>1. Top = stack[Depth] /\ Depth \in 1 .. Depth /\ Depth \in Nat
    BY DEF Top, TypeOK, Depth
  <1>2. MaskOf(Depth) = mask
    BY <1>1 DEF MaskOf
  <1>3. ASSUME NEW r \in Requests \cup HandlerRequests, rt_sigprocmask(r)
        PROVE  Covered' /\ InWindow' /\ AllUnblocked'
    <2>1. r \in Request /\ Top.pc = "user" /\ UNCHANGED <<on, pending, sa_mask>>
      BY <1>3, RequestType DEF rt_sigprocmask, At
    <2>2. CASE on
      <3>1. /\ mask' = mask /\ Depth' = Depth /\ stack'[Depth].pc = "sigsys"
            /\ \A i \in 1 .. Depth : stack'[i].mask = stack[i].mask /\ stack'[i].asked = stack[i].asked
            /\ \A i \in 1 .. Depth : i # Depth => stack'[i] = stack[i]
        BY <1>3, <2>1, <2>2, TrapEffect DEF rt_sigprocmask
      <3>2. \A i \in 1 .. Depth : stack'[i].pc \notin {"continue", "rearm"}
        BY <2>2, <3>1, TopAlone
      <3> QED
        BY <2>1, <3>1, <3>2, MasksKept DEF InWindow
    <2>3. CASE ~on
      <3>1. stack' = stack /\ Depth' = Depth /\ mask' = Changed(mask, r)
        BY <1>3, <2>3 DEF rt_sigprocmask, Depth
      <3>2. r \in IF Depth = 1 THEN Requests ELSE HandlerRequests
        BY <1>3 DEF rt_sigprocmask
      <3>3. Covered' /\ \A i \in 1 .. Depth : i < Depth => MaskOf(i)' = MaskOf(i)
        BY <2>1, <3>1, <3>2, MaskChanges
      <3> QED
        BY <1>1, <2>1, <2>3, <3>1, <3>3 DEF InWindow, AllUnblocked, Suspended
    <2> QED
      BY <2>2, <2>3
  <1>4. ASSUME NEW m \in LateMasks, rt_sigaction(m)
        PROVE  Covered' /\ InWindow' /\ AllUnblocked'
    <2>1. UNCHANGED <<on, mask, pending, stack>> /\ "SIGSYS" \notin sa_mask'
      BY <1>4 DEF rt_sigaction, Coupled
    <2> QED
      BY <2>1 DEF Covered, InWindow, AllUnblocked, Suspended, MaskOf, Depth
  <1>5. CASE rt_sigreturn
    <2>1. /\ UNCHANGED <<on, pending, sa_mask>> /\ Depth > 1
          /\ Depth' = Depth - 1 /\ \A i \in 1 .. Depth - 1 : stack'[i] = stack[i]
          /\ mask' = stack[Depth].mask /\ asked' = stack[Depth].asked
      BY <1>1, <1>5, PopEffect DEF rt_sigreturn, Restored
    <2>2. \A i \in 1 .. Depth - 1 : MaskOf(i)' = MaskOf(i)
      BY <2>1, MasksPop
    <2> QED
      BY <1>1, <2>1, <2>2 DEF Covered, InWindow, AllUnblocked, Suspended
  <1>6. CASE handle_sigsys
    <2>1. Top.pc = "sigsys" /\ UNCHANGED <<mask, pending, sa_mask>>
      BY <1>6 DEF handle_sigsys, At
    <2>2. "SIG_REARM" \in pending => "SIG_REARM" \in mask
      BY <1>6 DEF handle_sigsys, Runs
    <2>3. PICK pc \in {"continue", "user"} :
            Goto(pc) /\ (on' => on) /\ (pc = "continue" => ~on' /\ Blocking(Top.req))
      BY <1>6 DEF handle_sigsys, disarm
    <2>4. /\ Depth' = Depth /\ stack'[Depth].pc = pc /\ stack'[Depth].req = Top.req
          /\ \A i \in 1 .. Depth : stack'[i].mask = stack[i].mask /\ stack'[i].asked = stack[i].asked
          /\ \A i \in 1 .. Depth : i # Depth => stack'[i] = stack[i]
      BY <1>1, <2>3, GotoEffect DEF PC
    <2>5. Covered' /\ AllUnblocked' /\ \A i \in 1 .. Depth : MaskOf(i)' = MaskOf(i)
      BY <2>1, <2>3, <2>4, MasksKept
    <2>6. \A i \in 1 .. Depth : i # Depth => stack'[i].pc \notin {"continue", "rearm"}
      BY <2>1, <2>4, TopAlone
    <2> QED
      BY <1>1, <1>2, <2>1, <2>2, <2>3, <2>4, <2>5, <2>6 DEF InWindow, Suspended
  <1>7. CASE continue_syscall
    <2>1. /\ Top.pc = "continue" /\ UNCHANGED <<on, pending, sa_mask>> /\ Goto("rearm")
          /\ mask' = Changed(mask, Top.req)
      BY <1>7 DEF continue_syscall, At
    <2>2. ~on /\ Blocking(Top.req) /\ Top.req \in IF Depth = 1 THEN Requests ELSE HandlerRequests
      BY <1>1, <2>1 DEF InWindow, HasRequest
    <2>3. /\ Depth' = Depth /\ stack'[Depth].pc = "rearm"
          /\ \A i \in 1 .. Depth : stack'[i].mask = stack[i].mask /\ stack'[i].asked = stack[i].asked
          /\ \A i \in 1 .. Depth : i # Depth => stack'[i] = stack[i]
      BY <2>1, GotoEffect DEF PC
    <2>4. Covered' /\ \A i \in 1 .. Depth : i < Depth => MaskOf(i)' = MaskOf(i)
      BY <2>1, <2>2, <2>3, MaskChanges
    <2>5. \A i \in 1 .. Depth : i # Depth => stack'[i].pc \notin {"continue", "rearm"}
      BY <2>1, <2>3, TopAlone
    <2>6. "SIG_REARM" \in mask'
      <3>1. Top.req \in Request /\ "SIG_REARM" \in Signals /\ mask \in SUBSET Signals
        BY <2>2, RequestType DEF Signals, TypeOK
      <3>2. Blocked(Top.req, "SIG_REARM")
        BY <2>2 DEF Coupled, Blocking, Blocked
      <3> QED
        BY <2>1, <3>1, <3>2, ChangedBlocks
    <2>7. \A i \in 1 .. Depth : i = Depth => MaskOf(i)' = mask'
      BY <2>3, MasksBelow
    <2> QED
      BY <1>1, <2>1, <2>2, <2>3, <2>4, <2>5, <2>6, <2>7 DEF InWindow, AllUnblocked, Suspended
  <1>8. CASE send_rearm
    <2>1. Top.pc = "rearm" /\ UNCHANGED <<on, mask, sa_mask>> /\ Goto("user")
      BY <1>8 DEF send_rearm, At
    <2>2. /\ Depth' = Depth /\ stack'[Depth].pc = "user"
          /\ \A i \in 1 .. Depth : stack'[i].mask = stack[i].mask /\ stack'[i].asked = stack[i].asked
          /\ \A i \in 1 .. Depth : i # Depth => stack'[i] = stack[i]
      BY <2>1, GotoEffect DEF PC
    <2>3. Covered' /\ AllUnblocked'
      BY <2>1, <2>2, MasksKept
    <2>4. \A i \in 1 .. Depth : stack'[i].pc \notin {"continue", "rearm"}
      BY <2>1, <2>2, TopAlone
    <2> QED
      BY <2>2, <2>3, <2>4 DEF InWindow
  <1>9. ASSUME NEW s \in App, Raise(s)
        PROVE  Covered' /\ InWindow' /\ AllUnblocked'
    <2>1. UNCHANGED <<on, mask, sa_mask, stack>> /\ pending' = pending \cup {s} /\ s # "SIG_REARM"
      BY <1>9 DEF Raise
    <2> QED
      BY <2>1 DEF Covered, InWindow, AllUnblocked, Suspended, MaskOf, Depth
  <1>10. ASSUME NEW s \in App, Deliver(s)
         PROVE  Covered' /\ InWindow' /\ AllUnblocked'
    <2>1. /\ UNCHANGED <<on, sa_mask>> /\ pending' = pending \ {s}
          /\ mask' = mask \cup sa_mask \cup {s} /\ s # "SIGSYS"
      BY <1>10 DEF Deliver
    <2>2. /\ Depth' = Depth + 1 /\ stack'[Depth + 1].pc = "user"
          /\ stack'[Depth + 1].mask = mask /\ stack'[Depth + 1].asked = asked
          /\ \A i \in 1 .. Depth : stack'[i] = stack[i]
      BY <1>10, PushEffect DEF Deliver
    <2>3. /\ \A i \in 1 .. Depth : MaskOf(i)' = MaskOf(i)
          /\ \A i \in 1 .. Depth' : i = Depth + 1 => MaskOf(i)' = mask'
      BY <2>2, MasksPush
    <2>4. "SIGSYS" \in mask' => "SIGSYS" \in mask
      BY <2>1 DEF Covered
    <2>5. Covered'
      BY <1>1, <1>2, <2>1, <2>2, <2>3, <2>4 DEF Covered
    <2>6. AllUnblocked'
      BY <1>1, <1>2, <2>1, <2>2, <2>3, <2>4 DEF AllUnblocked
    <2>7. InWindow'
      BY <1>1, <2>1, <2>2, <2>3 DEF InWindow, Suspended
    <2> QED
      BY <2>5, <2>6, <2>7
  <1>11. CASE reenable_sysfail
    <2>1. UNCHANGED <<mask, sa_mask, stack>> /\ "SIG_REARM" \in pending /\ "SIG_REARM" \notin mask
      BY <1>11 DEF reenable_sysfail
    <2>2. \A i \in 1 .. Depth : "SIG_REARM" \notin MaskOf(i)
      BY <1>1, <1>2, <2>1 DEF Covered
    <2>3. \A i \in 1 .. Depth : stack[i].pc \notin {"continue", "rearm"}
      BY <2>1, <2>2 DEF InWindow
    <2>4. \A i \in 1 .. Depth : "SIGSYS" \notin MaskOf(i)
      BY <2>2 DEF Covered
    <2>5. Depth' = Depth /\ \A i \in 1 .. Depth : MaskOf(i)' = MaskOf(i)
      BY <2>1 DEF Depth, MaskOf
    <2> QED
      BY <2>1, <2>3, <2>4, <2>5 DEF Covered, InWindow, AllUnblocked
  <1>12. CASE UNCHANGED vars
    BY <1>12 DEF vars, Covered, InWindow, AllUnblocked, Suspended, MaskOf, Depth
  <1> QED
    BY <1>3, <1>4, <1>5, <1>6, <1>7, <1>8, <1>9, <1>10, <1>11, <1>12 DEF Next

-----------------------------------------------------------------------------
(* The mask is the one the thread asked for.                                *)

\* Masks that differ in SIGSYS only still do after the same request.
LEMMA ChangedAlike ==
    ASSUME NEW m, NEW w, NEW r \in Request, m \ {"SIGSYS"} = w \ {"SIGSYS"}
    PROVE  Changed(m, r) \ {"SIGSYS"} = Changed(w, r) \ {"SIGSYS"}
  BY DEF Changed, Request

\* A step of the top context that changes neither mask keeps both parts, unless
\* it arms the thread.
LEMMA AskedKept ==
    ASSUME AskedInv, Depth' = Depth, mask' = mask, asked' = asked, on' => on,
           \A i \in 1 .. Depth : stack'[i].mask = stack[i].mask /\ stack'[i].asked = stack[i].asked,
           stack'[1].pc = "sigsys" => stack[1].pc = "sigsys" \/ on
    PROVE  MainMask' /\ AllAsAsked'
  <1>1. Depth \in Nat /\ 1 \in 1 .. Depth
    BY DEF AskedInv, ArmedInv, TypeOK, Depth
  <1>2. \A i \in 1 .. Depth : MaskOf(i)' = MaskOf(i) /\ AskedOf(i)' = AskedOf(i)
    BY <1>1, MasksBelow DEF AskedInv, ArmedInv
  <1> QED
    BY <1>1, <1>2 DEF AskedInv, MainMask, AllAsAsked

\* The kernel changes the mask of a disarmed thread.
LEMMA AskedChanges ==
    ASSUME Coupled, LibcWindows, AskedInv, Depth' = Depth, ~on,
           NEW r \in IF Depth = 1 THEN Requests ELSE HandlerRequests,
           mask' = Changed(mask, r), asked' = Changed(asked, r), on' = on,
           \A i \in 1 .. Depth : stack'[i].mask = stack[i].mask /\ stack'[i].asked = stack[i].asked,
           \A i \in 1 .. Depth : i # Depth => stack'[i] = stack[i],
           stack'[Depth].pc # "sigsys"
    PROVE  MainMask' /\ AllAsAsked'
  <1> USE DEF AskedInv, ArmedInv
  <1>1. Depth \in Nat \ {0} /\ mask \in SUBSET Signals
    BY DEF TypeOK, Depth
  <1>2. r \in Request /\ r \in Requests \cup HandlerRequests
    BY RequestType
  <1>3. \A i \in 1 .. Depth : i < Depth => MaskOf(i)' = MaskOf(i) /\ AskedOf(i)' = AskedOf(i)
    BY MasksBelow
  <1>4. /\ MaskOf(Depth) = mask /\ AskedOf(Depth) = asked
        /\ \A i \in 1 .. Depth : i = Depth => MaskOf(i)' = mask' /\ AskedOf(i)' = asked'
    BY MasksBelow
  <1>5. mask' \ {"SIGSYS"} = asked' \ {"SIGSYS"}
    BY <1>1, <1>2, <1>4, ChangedAlike DEF AllAsAsked
  <1>6. AllAsAsked'
    BY <1>1, <1>3, <1>4, <1>5 DEF AllAsAsked
  <1>7. CASE Depth = 1
    <2>1. Blocked(r, "SIGSYS") => "SIG_REARM" \in mask'
      <3>1. Blocked(r, "SIGSYS") => Blocked(r, "SIG_REARM")
        BY <1>2 DEF Coupled
      <3>2. "SIG_REARM" \in Signals
        BY DEF Signals
      <3> QED
        BY <1>1, <1>2, <3>1, <3>2, ChangedBlocks
    <2>2. r = [how |-> "SIG_SETMASK", set |-> {}] => mask' = {}
      BY DEF Changed
    <2>3. mask' = {} \/ "SIG_REARM" \in mask'
      BY <1>7, <2>1, <2>2 DEF LibcWindows
    <2> QED
      BY <1>4, <1>6, <1>7, <2>3 DEF MainMask
  <1>8. CASE Depth > 1
    <2>1. MaskOf(1)' = MaskOf(1) /\ stack'[1] = stack[1]
      BY <1>1, <1>3, <1>8
    <2> QED
      BY <1>6, <2>1 DEF MainMask
  <1> QED
    BY <1>1, <1>7, <1>8

\* Every step keeps the masks as the application asked for them.
LEMMA AskedStep ==
    ASSUME Coupled, LibcWindows, AskedInv, [Next]_vars
    PROVE  MainMask' /\ AllAsAsked'
  <1> USE DEF AskedInv, ArmedInv
  <1>1. Top = stack[Depth] /\ Depth \in 1 .. Depth /\ Depth \in Nat /\ 1 \in 1 .. Depth
    BY DEF Top, TypeOK, Depth
  <1>2. MaskOf(Depth) = mask /\ AskedOf(Depth) = asked
    BY <1>1 DEF MaskOf, AskedOf
  <1>3. ASSUME NEW r \in Requests \cup HandlerRequests, rt_sigprocmask(r)
        PROVE  MainMask' /\ AllAsAsked'
    <2>1. r \in Request /\ Top.pc = "user" /\ on' = on
      BY <1>3, RequestType DEF rt_sigprocmask, At
    <2>2. CASE on
      <3>1. /\ mask' = mask /\ asked' = asked /\ Depth' = Depth
            /\ \A i \in 1 .. Depth : stack'[i].mask = stack[i].mask /\ stack'[i].asked = stack[i].asked
        BY <1>3, <2>1, <2>2, TrapEffect DEF rt_sigprocmask
      <3> QED
        BY <2>1, <2>2, <3>1, AskedKept
    <2>3. CASE ~on
      <3>1. stack' = stack /\ Depth' = Depth /\ mask' = Changed(mask, r) /\ asked' = Changed(asked, r)
        BY <1>3, <2>3 DEF rt_sigprocmask, Depth
      <3>2. r \in IF Depth = 1 THEN Requests ELSE HandlerRequests
        BY <1>3 DEF rt_sigprocmask
      <3>3. stack'[Depth].pc # "sigsys"
        BY <1>1, <2>1, <3>1
      <3> QED
        BY <2>1, <2>3, <3>1, <3>2, <3>3, AskedChanges
    <2> QED
      BY <2>2, <2>3
  <1>4. ASSUME UNCHANGED <<on, mask, stack, asked>>
        PROVE  MainMask' /\ AllAsAsked'
    BY <1>4 DEF MainMask, AllAsAsked, MaskOf, AskedOf, Depth
  <1>5. CASE rt_sigreturn
    <2>1. /\ on' = on /\ Depth > 1
          /\ Depth' = Depth - 1 /\ \A i \in 1 .. Depth - 1 : stack'[i] = stack[i]
          /\ mask' = stack[Depth].mask /\ asked' = stack[Depth].asked
      BY <1>1, <1>5, PopEffect DEF rt_sigreturn, Restored
    <2>2. \A i \in 1 .. Depth - 1 : MaskOf(i)' = MaskOf(i) /\ AskedOf(i)' = AskedOf(i)
      BY <2>1, MasksPop
    <2> QED
      BY <1>1, <2>1, <2>2 DEF MainMask, AllAsAsked
  <1>6. CASE handle_sigsys
    <2>1. Top.pc = "sigsys" /\ mask' = mask
      BY <1>6 DEF handle_sigsys, At
    <2>2. CASE Blocking(Top.req)
      <3>1. Goto("continue") /\ asked' = asked /\ ~on'
        BY <1>6, <2>2 DEF handle_sigsys, disarm
      <3>2. /\ Depth' = Depth
            /\ \A i \in 1 .. Depth : stack'[i].mask = stack[i].mask /\ stack'[i].asked = stack[i].asked
            /\ \A i \in 1 .. Depth : i # Depth => stack'[i] = stack[i]
        BY <3>1, GotoEffect DEF PC
      <3> QED
        BY <1>1, <2>1, <3>1, <3>2, AskedKept
    <2>3. CASE ~Blocking(Top.req)
      <3>1. Goto("user") /\ asked' = Changed(asked, Top.req) /\ on' = on
        BY <1>6, <2>3 DEF handle_sigsys
      <3>2. Depth = 1 /\ Top.req = [how |-> "SIG_SETMASK", set |-> {}]
        BY <1>1, <2>1, <2>3 DEF HasRequest, LibcWindows, Blocking, Blocked
      <3>3. mask = {} /\ asked' = {}
        BY <1>1, <1>2, <2>1, <3>1, <3>2 DEF MainMask, Changed
      <3>4. Depth' = Depth
        BY <3>1, GotoEffect DEF PC
      <3>5. \A i \in 1 .. Depth : MaskOf(i)' = {} /\ AskedOf(i)' = {}
        BY <2>1, <3>2, <3>3, <3>4 DEF MaskOf, AskedOf
      <3> QED
        BY <1>1, <3>4, <3>5 DEF MainMask, AllAsAsked
    <2> QED
      BY <2>2, <2>3
  <1>7. CASE continue_syscall
    <2>1. /\ Top.pc = "continue" /\ on' = on /\ Goto("rearm")
          /\ mask' = Changed(mask, Top.req) /\ asked' = Changed(asked, Top.req)
      BY <1>7 DEF continue_syscall, At
    <2>2. ~on /\ Top.req \in IF Depth = 1 THEN Requests ELSE HandlerRequests
      BY <1>1, <2>1 DEF InWindow, HasRequest
    <2>3. /\ Depth' = Depth /\ stack'[Depth].pc = "rearm"
          /\ \A i \in 1 .. Depth : stack'[i].mask = stack[i].mask /\ stack'[i].asked = stack[i].asked
          /\ \A i \in 1 .. Depth : i # Depth => stack'[i] = stack[i]
      BY <2>1, GotoEffect DEF PC
    <2> QED
      BY <2>1, <2>2, <2>3, AskedChanges
  <1>8. CASE send_rearm
    <2>1. UNCHANGED <<on, mask, asked>> /\ Goto("user")
      BY <1>8 DEF send_rearm
    <2>2. /\ Depth' = Depth /\ stack'[Depth].pc = "user"
          /\ \A i \in 1 .. Depth : stack'[i].mask = stack[i].mask /\ stack'[i].asked = stack[i].asked
          /\ \A i \in 1 .. Depth : i # Depth => stack'[i] = stack[i]
      BY <2>1, GotoEffect DEF PC
    <2> QED
      BY <1>1, <2>1, <2>2, AskedKept
  <1>9. ASSUME NEW s \in App, Deliver(s)
        PROVE  MainMask' /\ AllAsAsked'
    <2>1. /\ on' = on
          /\ mask' = mask \cup sa_mask \cup {s} /\ asked' = asked \cup sa_mask \cup {s}
      BY <1>9 DEF Deliver
    <2>2. /\ Depth' = Depth + 1
          /\ stack'[Depth + 1].mask = mask /\ stack'[Depth + 1].asked = asked
          /\ \A i \in 1 .. Depth : stack'[i] = stack[i]
      BY <1>9, PushEffect DEF Deliver
    <2>3. /\ \A i \in 1 .. Depth : MaskOf(i)' = MaskOf(i) /\ AskedOf(i)' = AskedOf(i)
          /\ \A i \in 1 .. Depth' : i = Depth + 1 => MaskOf(i)' = mask' /\ AskedOf(i)' = asked'
      BY <2>2, MasksPush
    <2>4. mask' \ {"SIGSYS"} = asked' \ {"SIGSYS"}
      BY <1>1, <1>2, <2>1 DEF AllAsAsked
    <2> QED
      BY <1>1, <2>1, <2>2, <2>3, <2>4 DEF MainMask, AllAsAsked
  <1>10. CASE reenable_sysfail
    <2>1. UNCHANGED <<mask, stack, asked>> /\ "SIG_REARM" \notin mask
      BY <1>10 DEF reenable_sysfail
    <2>2. "SIG_REARM" \notin MaskOf(1)
      BY <1>1, <1>2, <2>1 DEF Covered
    <2>3. Depth' = Depth /\ \A i \in 1 .. Depth : MaskOf(i)' = MaskOf(i) /\ AskedOf(i)' = AskedOf(i)
      BY <2>1 DEF Depth, MaskOf, AskedOf
    <2> QED
      BY <1>1, <2>2, <2>3 DEF MainMask, AllAsAsked
  <1>11. CASE (\E m \in LateMasks : rt_sigaction(m)) \/ (\E s \in App : Raise(s)) \/ UNCHANGED vars
    BY <1>4, <1>11 DEF rt_sigaction, Raise, vars
  <1> QED
    BY <1>3, <1>5, <1>6, <1>7, <1>8, <1>9, <1>10, <1>11 DEF Next

-----------------------------------------------------------------------------
(* The theorems.                                                            *)

\* The thread starts armed with nothing blocked.
LEMMA InitArmed ==
    ASSUME Init
    PROVE  ArmedInv /\ RearmOnTheWay /\ MainMask /\ AllAsAsked
  <1>1. Depth = 1 /\ stack[1] = Context({}, {}) /\ stack \in Seq(ContextType)
    <2>1. Context({}, {}) \in ContextType
      BY DEF Context, ContextType
    <2> QED
      BY <2>1 DEF Init, Depth
  <1>2. \A i \in 1 .. Depth : MaskOf(i) = {} /\ AskedOf(i) = {} /\ stack[i].pc = "user"
    BY <1>1 DEF MaskOf, AskedOf, Init, Context
  <1>3. "SIGSYS" \notin sa_mask /\ sa_mask \in SUBSET Signals
    BY DEF Init, unmask_sigsys
  <1>4. TypeOK
    BY <1>1, <1>3 DEF Init, TypeOK, Depth
  <1> QED
    BY <1>1, <1>2, <1>3, <1>4
    DEF ArmedInv, HasRequest, Covered, InWindow, AllUnblocked, RearmOnTheWay, MainMask, AllAsAsked, Init

\* The types are invariant.
LEMMA TypeInvariance == Spec => [](TypeOK /\ HasRequest)
  <1>1. Init => TypeOK /\ HasRequest
    BY InitArmed DEF ArmedInv
  <1>2. TypeOK /\ HasRequest /\ [Next]_vars => (TypeOK /\ HasRequest)'
    BY TypeStep
  <1> QED
    BY <1>1, <1>2, PTL DEF Spec

\* The types are kept, whatever the application asks for; the stack is
\* never empty and never exceeds its bound.
THEOREM TypeCorrect == Spec => []TypeOK
  BY TypeInvariance, PTL

\* Whatever the application asks for and however its handlers nest, a disarmed
\* thread has a SIG_REARM pending or is on its way to queue it
\* (handle_sigsys, reenable_sysfail).
THEOREM RearmNotForgotten == Spec => []RearmOnTheWay
  <1>1. Init => RearmOnTheWay
    BY InitArmed
  <1>2. TypeOK /\ HasRequest /\ RearmOnTheWay /\ [Next]_vars => RearmOnTheWay'
    BY RearmStep
  <1> QED
    BY <1>1, <1>2, TypeInvariance, PTL DEF Spec

\* The strengthened invariant about armed contexts holds throughout.
LEMMA ArmedInvariance ==
    ASSUME Coupled
    PROVE  Spec => []ArmedInv
  <1>1. Init => ArmedInv
    BY InitArmed
  <1>2. ArmedInv /\ [Next]_vars => ArmedInv'
    BY TypeStep, ArmedStep DEF ArmedInv
  <1> QED
    BY <1>1, <1>2, PTL DEF Spec

\* If SIGSYS and SIG_REARM are blocked and unblocked together, an armed thread
\* can always take SIGSYS, however deep the application's handlers nest
\* (handle_sigsys, reenable_sysfail, unmask_sigsys).
THEOREM ArmedCanTrap ==
    ASSUME Coupled
    PROVE  Spec => []ArmedUnblocked
  <1>1. ArmedInv => ArmedUnblocked
    BY DEF ArmedInv, AllUnblocked, ArmedUnblocked, TypeOK, Depth, MaskOf
  <1> QED
    BY <1>1, ArmedInvariance, PTL

\* If masks are changed as libc does around thread creation and exit, no change
\* is lost: apart from SIGSYS the mask is the one the thread would have without
\* sysfail (handle_sigsys, the branch of rt_sigprocmask).
THEOREM MaskFollows ==
    ASSUME Coupled, LibcWindows
    PROVE  Spec => []MaskAsAsked
  <1>1. Init => AskedInv
    BY InitArmed DEF AskedInv
  <1>2. AskedInv /\ [Next]_vars => AskedInv'
    BY TypeStep, ArmedStep, AskedStep DEF AskedInv, ArmedInv
  <1>3. AskedInv => MaskAsAsked
    BY DEF AskedInv, ArmedInv, AllAsAsked, MaskAsAsked, TypeOK, Depth, MaskOf, AskedOf
  <1> QED
    BY <1>1, <1>2, <1>3, PTL DEF Spec
=============================================================================
