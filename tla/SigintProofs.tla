---------------------------- MODULE SigintProofs ----------------------------
(***************************************************************************)
(* What cancel.c gives every thread, however many run transactions at      *)
(* once: its signal mask back, and PAM_IGNORE for its own Ctrl-C only; and *)
(* what it gives the host whenever no two transactions overlap: its        *)
(* disposition back, a Ctrl-C answered, none run in its stead.  With two   *)
(* that overlap these fail: see the run sigint_overlap.                    *)
(***************************************************************************)
EXTENDS Sigint, TLAPS

\* Where the thread's mask is the host's, and where it is open and the host's
\* saved in the struct instead (cancel.c:50-54, 65-72).
MaskInv ==
  \A t \in Txns :
    /\ pc[t] = "cleared" => ~cancel[t].installed
    /\ pc[t] = "installed" => cancel[t].installed
    /\ pc[t] \in {"host", "cleared", "installed", "reblocked", "disarmed"}
         => blocked[t] = hostMask[t]
    /\ pc[t] \in {"waiting", "leaving"}
         => IF cancel[t].installed
              THEN ~blocked[t] /\ cancel[t].wasBlocked = hostMask[t]
              ELSE blocked[t] = hostMask[t]

\* The flag never holds a Ctrl-C older than any armed transaction: each arm
\* clears it (cancel.c:22).
FlagInv ==
  /\ interrupted => \A t \in Txns : Armed(t) => hit[t]
  /\ IgnoreMeansCtrlC

IInv == TypeOK /\ MaskInv /\ FlagInv

-----------------------------------------------------------------------------
\* The host calls nothing yet: no struct is in use and no flag is up
\* (cancel.c:12, 17-24).
LEMMA InvInit == Init => IInv
<1> SUFFICES ASSUME Init PROVE IInv
  OBVIOUS
<1>1. TypeOK
  BY DEF Init, TypeOK, Place, Disposition, Answer, CancelStruct
<1>2. MaskInv
  BY DEF Init, MaskInv
<1>3. FlagInv
  BY DEF Init, FlagInv, IgnoreMeansCtrlC, Armed
<1>4. QED
  BY <1>1, <1>2, <1>3 DEF IInv

\* A signal delivered to on_sigint marks every armed transaction, so the flag
\* and the marks agree (cancel.c:8-15).
LEMMA HandlerKeepsFlagInv ==
  ASSUME TypeOK, FlagInv, RunHandler, rc' = rc,
         \A t \in Txns : Armed(t)' => Armed(t)
  PROVE  FlagInv' /\ interrupted' \in BOOLEAN /\ hit' \in [Txns -> BOOLEAN]
                  /\ toHost' \in Nat
<1>1. CASE disposition = "on_sigint"
  BY <1>1 DEF TypeOK, RunHandler, FlagInv, IgnoreMeansCtrlC, Armed
<1>2. CASE disposition = "host"
  BY <1>2 DEF TypeOK, RunHandler, FlagInv, IgnoreMeansCtrlC, Armed
<1>3. QED
  BY <1>1, <1>2 DEF TypeOK, Disposition

\* The user's Ctrl-C touches no mask and no struct (cancel.c:8-15).
LEMMA CtrlCStep == IInv /\ CtrlC => IInv'
<1> SUFFICES ASSUME IInv, CtrlC PROVE IInv'
  OBVIOUS
<1>1. MaskInv'
  BY DEF IInv, MaskInv, CtrlC
<1>2. CASE \E t \in Txns : ~blocked[t]
  <2>1. /\ FlagInv'
        /\ interrupted' \in BOOLEAN /\ hit' \in [Txns -> BOOLEAN] /\ toHost' \in Nat
    BY <1>2, HandlerKeepsFlagInv DEF IInv, CtrlC, Armed
  <2>2. TypeOK'
    BY <1>2, <2>1 DEF IInv, TypeOK, CtrlC
  <2>3. QED
    BY <1>1, <2>1, <2>2 DEF IInv
<1>3. CASE ~ \E t \in Txns : ~blocked[t]
  BY <1>1, <1>3 DEF IInv, TypeOK, CtrlC, FlagInv, IgnoreMeansCtrlC, Armed
<1>4. QED
  BY <1>2, <1>3

\* Each call of one thread keeps the invariant: its own part by what the call
\* does, every other thread's because it is left alone (cancel.c:17-75,
\* auth.c:897-906).
LEMMA ThreadStep ==
  ASSUME NEW t \in Txns, IInv, ArmClear(t) \/ ModuleStep(t) \/ WaitEnds(t)
  PROVE  IInv'
<1> USE DEF Go
<1>1. CASE ArmClear(t)
  <2>1. TypeOK'
    <3>1. cancel' \in [Txns -> CancelStruct]
      BY <1>1 DEF IInv, TypeOK, ArmClear, CancelStruct
    <3>2. pc' \in [Txns -> Place] /\ rc' \in [Txns -> Answer]
      BY <1>1 DEF IInv, TypeOK, ArmClear, Place, Answer
    <3>3. calls' \in [Txns -> Nat]
      BY <1>1 DEF IInv, TypeOK, ArmClear
    <3>4. hit' \in [Txns -> BOOLEAN] /\ interrupted' \in BOOLEAN
      BY <1>1 DEF IInv, TypeOK, ArmClear, FlagOnArm
    <3>5. QED
      BY <1>1, <3>1, <3>2, <3>3, <3>4 DEF IInv, TypeOK, ArmClear
  <2>2. MaskInv'
    BY <1>1 DEF IInv, TypeOK, ArmClear, MaskInv, CancelStruct
  <2>3. FlagInv'
    BY <1>1 DEF IInv, TypeOK, ArmClear, FlagInv, IgnoreMeansCtrlC, FlagOnArm
  <2>4. QED
    BY <2>1, <2>2, <2>3 DEF IInv
<1>2. CASE ArmInstall(t)
  <2>1. TypeOK'
    BY <1>2 DEF IInv, TypeOK, ArmInstall, CancelStruct, Place, Disposition
  <2>2. MaskInv'
    BY <1>2 DEF IInv, TypeOK, ArmInstall, MaskInv, CancelStruct
  <2>3. FlagInv'
    BY <1>2 DEF IInv, TypeOK, ArmInstall, FlagInv, IgnoreMeansCtrlC, Armed
  <2>4. QED
    BY <2>1, <2>2, <2>3 DEF IInv
<1>3. CASE ArmFails(t)
  <2>1. TypeOK'
    BY <1>3 DEF IInv, TypeOK, ArmFails, Place
  <2>2. MaskInv'
    BY <1>3 DEF IInv, TypeOK, ArmFails, MaskInv
  <2>3. FlagInv'
    BY <1>3 DEF IInv, TypeOK, ArmFails, FlagInv, IgnoreMeansCtrlC, Armed
  <2>4. QED
    BY <2>1, <2>2, <2>3 DEF IInv
<1>4. CASE ArmUnblock(t)
  <2>1. \A u \in Txns : Armed(u)' => Armed(u)
    BY <1>4 DEF IInv, TypeOK, ArmUnblock, Armed
  <2>2. /\ FlagInv'
        /\ interrupted' \in BOOLEAN /\ hit' \in [Txns -> BOOLEAN] /\ toHost' \in Nat
        /\ pending' \in BOOLEAN
    <3>1. CASE pending
      BY <1>4, <2>1, <3>1, HandlerKeepsFlagInv DEF IInv, ArmUnblock, MaskWhileWaiting
    <3>2. CASE ~pending
      BY <1>4, <2>1, <3>2 DEF IInv, TypeOK, ArmUnblock, FlagInv, IgnoreMeansCtrlC
    <3>3. QED
      BY <3>1, <3>2
  <2>3. TypeOK'
    BY <1>4, <2>2 DEF IInv, TypeOK, ArmUnblock, CancelStruct, Place, MaskWhileWaiting
  <2>4. MaskInv'
    BY <1>4 DEF IInv, TypeOK, ArmUnblock, MaskInv, CancelStruct, MaskWhileWaiting
  <2>5. QED
    BY <2>2, <2>3, <2>4 DEF IInv
<1>5. CASE WaitCancelled(t)
  <2>1. TypeOK'
    BY <1>5 DEF IInv, TypeOK, WaitCancelled, Place, Answer
  <2>2. MaskInv'
    BY <1>5 DEF IInv, TypeOK, WaitCancelled, MaskInv
  <2>3. FlagInv'
    BY <1>5 DEF IInv, TypeOK, WaitCancelled, FlagInv, IgnoreMeansCtrlC, Armed
  <2>4. QED
    BY <2>1, <2>2, <2>3 DEF IInv
<1>6. CASE WaitEnds(t)
  <2>1. TypeOK'
    BY <1>6 DEF IInv, TypeOK, WaitEnds, Place, Answer
  <2>2. MaskInv'
    BY <1>6 DEF IInv, TypeOK, WaitEnds, MaskInv
  <2>3. FlagInv'
    BY <1>6 DEF IInv, TypeOK, WaitEnds, FlagInv, IgnoreMeansCtrlC, Armed
  <2>4. QED
    BY <2>1, <2>2, <2>3 DEF IInv
<1>7. CASE DisarmNothing(t)
  <2>1. TypeOK'
    BY <1>7 DEF IInv, TypeOK, DisarmNothing, Place
  <2>2. MaskInv'
    BY <1>7 DEF IInv, TypeOK, DisarmNothing, MaskInv
  <2>3. FlagInv'
    BY <1>7 DEF IInv, TypeOK, DisarmNothing, FlagInv, IgnoreMeansCtrlC, Armed
  <2>4. QED
    BY <2>1, <2>2, <2>3 DEF IInv
<1>8. CASE DisarmReblock(t)
  <2>1. TypeOK'
    BY <1>8 DEF IInv, TypeOK, DisarmReblock, Place, CancelStruct, MaskOnDisarm
  <2>2. MaskInv'
    BY <1>8 DEF IInv, TypeOK, DisarmReblock, MaskInv, CancelStruct, MaskOnDisarm
  <2>3. FlagInv'
    BY <1>8 DEF IInv, TypeOK, DisarmReblock, FlagInv, IgnoreMeansCtrlC, Armed
  <2>4. QED
    BY <2>1, <2>2, <2>3 DEF IInv
<1>9. CASE DisarmRestore(t)
  <2>1. TypeOK'
    BY <1>9 DEF IInv, TypeOK, DisarmRestore, Place, CancelStruct, DispositionOnDisarm
  <2>2. MaskInv'
    BY <1>9 DEF IInv, TypeOK, DisarmRestore, MaskInv, CancelStruct
  <2>3. FlagInv'
    BY <1>9 DEF IInv, TypeOK, DisarmRestore, FlagInv, IgnoreMeansCtrlC, Armed
  <2>4. QED
    BY <2>1, <2>2, <2>3 DEF IInv
<1>10. CASE Return(t)
  <2>1. TypeOK'
    BY <1>10 DEF IInv, TypeOK, Return, Place, Answer, FinalAnswer
  <2>2. MaskInv'
    BY <1>10 DEF IInv, TypeOK, Return, MaskInv
  <2>3. FlagInv'
    BY <1>10 DEF IInv, TypeOK, Return, FlagInv, IgnoreMeansCtrlC, Armed, FinalAnswer
  <2>4. QED
    BY <2>1, <2>2, <2>3 DEF IInv
<1>11. QED
  BY <1>1, <1>2, <1>3, <1>4, <1>5, <1>6, <1>7, <1>8, <1>9, <1>10 DEF ModuleStep

\* The invariant holds throughout (cancel.c:17-80).
LEMMA Invariance == Spec => []IInv
<1>1. IInv /\ [Next]_vars => IInv'
  <2>1. ASSUME IInv, UNCHANGED vars PROVE IInv'
    BY <2>1 DEF IInv, TypeOK, MaskInv, FlagInv, IgnoreMeansCtrlC, Armed, vars
  <2>2. QED
    BY <2>1, CtrlCStep, ThreadStep DEF Next
<1>2. QED
  BY InvInit, <1>1, PTL DEF Spec

-----------------------------------------------------------------------------
\* Every variable keeps its type and the answer is one of the four kinds
\* (cancel.c, auth.c:897-906).
THEOREM TypeCorrect == Spec => []TypeOK
<1>1. IInv => TypeOK
  BY DEF IInv
<1>2. QED
  BY <1>1, Invariance, PTL

\* A thread back in its host has the mask it came with, whatever other threads
\* do meanwhile (cancel.h:21-26).
THEOREM MaskAlwaysRestored == Spec => []MaskRestored
<1>1. IInv => MaskRestored
  BY DEF IInv, MaskInv, MaskRestored
<1>2. QED
  BY <1>1, Invariance, PTL

\* PAM_IGNORE is never answered for a Ctrl-C of an earlier transaction
\* (cancel.c:22, cancel.h:57).
THEOREM IgnoreAlwaysMeansCtrlC == Spec => []IgnoreMeansCtrlC
<1>1. IInv => IgnoreMeansCtrlC
  BY DEF IInv, FlagInv
<1>2. QED
  BY <1>1, Invariance, PTL
-----------------------------------------------------------------------------
(* What needs transactions that do not overlap, as in a host with a thread  *)
(* for them: the disposition and the flag belong to the process, and cancel.c *)
(* keeps one of each (cancel.c:10-12, 35-38).                               *)

OneAtATime == \A t, u \in Txns : Armed(t) /\ Armed(u) => t = u

\* The handler is in exactly while some struct says so, and that struct has the
\* host's disposition in it (cancel.c:35-38, 59-61, 73-74).
DispositionInv ==
  /\ \A t \in Txns :
       /\ pc[t] \in {"host", "cleared", "disarmed"} => ~cancel[t].installed
       /\ pc[t] = "reblocked" => cancel[t].installed
       /\ cancel[t].installed =>
            disposition = "on_sigint" /\ cancel[t].previous = "host"
  /\ (\A t \in Txns : ~cancel[t].installed) => disposition = "host"

\* A Ctrl-C a transaction took stays flagged until it answers (cancel.c:8-22).
AnswerInv ==
  /\ \A t \in Txns : Armed(t) /\ hit[t] => interrupted
  /\ CtrlCAnswered

\* The step of a thread that arms or disarms finds every other in its host.
LEMMA OthersInHost ==
  ASSUME OneAtATime, NEW t \in Txns, Armed(t)
  PROVE  \A u \in Txns \ {t} : pc[u] = "host"
BY DEF OneAtATime, Armed

\* Installing saves the host's disposition, since no other handler is in, and
\* disarming gives it back (cancel.c:35-38, 73-74).
LEMMA DispositionStep ==
  IInv /\ OneAtATime /\ DispositionInv /\ [Next]_vars => DispositionInv'
<1> SUFFICES ASSUME IInv, OneAtATime, DispositionInv, [Next]_vars
             PROVE  DispositionInv'
  OBVIOUS
<1> USE DEF IInv, TypeOK, DispositionInv, Go
<1>1. ASSUME CtrlC PROVE DispositionInv'
  BY <1>1 DEF CtrlC
<1>2. ASSUME NEW t \in Txns, ArmClear(t) PROVE DispositionInv'
  BY <1>2 DEF ArmClear, CancelStruct
<1>3. ASSUME NEW t \in Txns, ArmInstall(t) PROVE DispositionInv'
  <2>1. \A u \in Txns : ~cancel[u].installed
    <3>1. Armed(t)
      BY <1>3 DEF ArmInstall, Armed
    <3>2. QED
      BY <1>3, <3>1, OthersInHost DEF ArmInstall
  <2>2. /\ pc' = [pc EXCEPT ![t] = "installed"]
        /\ cancel'[t].installed /\ cancel'[t].previous = "host"
        /\ \A u \in Txns \ {t} : cancel'[u] = cancel[u]
        /\ disposition' = "on_sigint"
    BY <1>3, <2>1 DEF ArmInstall, CancelStruct
  <2>3. QED
    BY <2>1, <2>2
<1>4. ASSUME NEW t \in Txns, ArmFails(t) PROVE DispositionInv'
  BY <1>4 DEF ArmFails
<1>5. ASSUME NEW t \in Txns, ArmUnblock(t) PROVE DispositionInv'
  BY <1>5 DEF ArmUnblock, CancelStruct
<1>6. ASSUME NEW t \in Txns, WaitCancelled(t) \/ WaitEnds(t) PROVE DispositionInv'
  BY <1>6 DEF WaitCancelled, WaitEnds
<1>7. ASSUME NEW t \in Txns, DisarmNothing(t) PROVE DispositionInv'
  BY <1>7 DEF DisarmNothing
<1>8. ASSUME NEW t \in Txns, DisarmReblock(t) PROVE DispositionInv'
  BY <1>8 DEF DisarmReblock, CancelStruct
<1>9. ASSUME NEW t \in Txns, DisarmRestore(t) PROVE DispositionInv'
  <2>1. \A u \in Txns \ {t} : ~cancel[u].installed
    <3>1. Armed(t)
      BY <1>9 DEF DisarmRestore, Armed
    <3>2. QED
      BY <3>1, OthersInHost
  <2>2. /\ pc' = [pc EXCEPT ![t] = "disarmed"]
        /\ ~cancel'[t].installed
        /\ \A u \in Txns \ {t} : cancel'[u] = cancel[u]
        /\ disposition' = "host"
    BY <1>9 DEF DisarmRestore, DispositionOnDisarm, CancelStruct
  <2>3. QED
    BY <2>1, <2>2
<1>10. ASSUME NEW t \in Txns, Return(t) PROVE DispositionInv'
  BY <1>10 DEF Return
<1>11. CASE UNCHANGED vars
  BY <1>11 DEF vars
<1>12. QED
  BY <1>1, <1>2, <1>3, <1>4, <1>5, <1>6, <1>7, <1>8, <1>9, <1>10, <1>11
  DEF Next, ModuleStep

\* Only the arm of a transaction clears the flag, and then no other one is
\* waiting to read it (cancel.c:22, auth.c:900-905).
LEMMA AnswerStep ==
  IInv /\ OneAtATime /\ OneAtATime' /\ AnswerInv /\ [Next]_vars => AnswerInv'
<1> SUFFICES ASSUME IInv, OneAtATime, OneAtATime', AnswerInv, [Next]_vars
             PROVE  AnswerInv'
  OBVIOUS
<1> USE DEF IInv, TypeOK, AnswerInv, CtrlCAnswered, Armed, Go
<1>1. ASSUME CtrlC PROVE AnswerInv'
  BY <1>1 DEF CtrlC, RunHandler
<1>2. ASSUME NEW t \in Txns, ArmClear(t) PROVE AnswerInv'
  BY <1>2 DEF ArmClear, OneAtATime
<1>3. ASSUME NEW t \in Txns, ArmInstall(t) \/ ArmFails(t) PROVE AnswerInv'
  BY <1>3 DEF ArmInstall, ArmFails
<1>4. ASSUME NEW t \in Txns, ArmUnblock(t) PROVE AnswerInv'
  BY <1>4 DEF ArmUnblock, RunHandler
<1>5. ASSUME NEW t \in Txns, WaitCancelled(t) \/ WaitEnds(t) PROVE AnswerInv'
  BY <1>5 DEF WaitCancelled, WaitEnds
<1>6. ASSUME NEW t \in Txns,
             DisarmNothing(t) \/ DisarmReblock(t) \/ DisarmRestore(t)
      PROVE  AnswerInv'
  BY <1>6 DEF DisarmNothing, DisarmReblock, DisarmRestore
<1>7. ASSUME NEW t \in Txns, Return(t) PROVE AnswerInv'
  BY <1>7 DEF Return, FinalAnswer
<1>8. CASE UNCHANGED vars
  BY <1>8 DEF vars
<1>9. QED
  BY <1>1, <1>2, <1>3, <1>4, <1>5, <1>6, <1>7, <1>8 DEF Next, ModuleStep

\* Both hold throughout while no two transactions overlap (cancel.c:17-80).
LEMMA AloneInvariance ==
  Spec /\ []OneAtATime => [](IInv /\ DispositionInv /\ AnswerInv)
<1>1. Init => DispositionInv /\ AnswerInv
  BY DEF Init, DispositionInv, AnswerInv, CtrlCAnswered, Armed
<1>2. QED
  BY <1>1, Invariance, DispositionStep, AnswerStep, PTL DEF Spec

\* While no two transactions overlap, whatever number of threads take turns, the
\* host has its own disposition back after each (cancel.h:12-15).
THEOREM DispositionAlwaysRestored ==
  Spec /\ []OneAtATime => []DispositionRestored
<1>1. DispositionInv => DispositionRestored
  BY DEF DispositionInv, DispositionRestored
<1>2. QED
  BY <1>1, AloneInvariance, PTL

\* A Ctrl-C the handler took while a transaction ran alone is what that one
\* answers, unless it succeeded (cancel.h:47-50, auth.c:900-905).
THEOREM CtrlCAlwaysAnswered == Spec /\ []OneAtATime => []CtrlCAnswered
<1>1. AnswerInv => CtrlCAnswered
  BY DEF AnswerInv
<1>2. QED
  BY <1>1, AloneInvariance, PTL

\* A host that blocks SIGINT everywhere never has its own disposition run by
\* one, if transactions do not overlap: the mask is open only while the
\* module's handler is in (cancel.c:44-54, 62-74).
THEOREM AlwaysHeldForHost == Spec /\ []OneAtATime => HeldForHost
<1>1. IInv /\ DispositionInv /\ [Next]_vars =>
        [(\A t \in Txns : hostMask[t]) => toHost' = toHost]_vars
  <2> SUFFICES ASSUME IInv, DispositionInv, [Next]_vars,
                      \A t \in Txns : hostMask[t]
               PROVE  toHost' = toHost
    OBVIOUS
  <2>1. CASE CtrlC
    <3>1. ASSUME NEW t \in Txns, ~blocked[t] PROVE disposition = "on_sigint"
      <4>1. pc[t] \in {"waiting", "leaving"} /\ cancel[t].installed
        BY <3>1 DEF IInv, TypeOK, Place, MaskInv
      <4>2. QED
        BY <4>1 DEF DispositionInv
    <3>2. QED
      BY <2>1, <3>1 DEF CtrlC, RunHandler
  <2>2. ASSUME NEW t \in Txns, ArmUnblock(t) PROVE toHost' = toHost
    <3>1. disposition = "on_sigint"
      BY <2>2 DEF ArmUnblock, Go, IInv, MaskInv, DispositionInv
    <3>2. QED
      BY <2>2, <3>1 DEF ArmUnblock, RunHandler
  <2>3. CASE UNCHANGED vars
    BY <2>3 DEF vars
  <2>4. QED
    BY <2>1, <2>2, <2>3
    DEF Next, ModuleStep, ArmClear, WaitEnds, ArmInstall, ArmFails,
        WaitCancelled, DisarmNothing, DisarmReblock, DisarmRestore, Return
<1>2. QED
  BY <1>1, AloneInvariance, PTL DEF Spec, HeldForHost
=============================================================================
