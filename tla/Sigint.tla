------------------------------- MODULE Sigint -------------------------------
(***************************************************************************)
(* The Ctrl-C handling of src/src/cancel.c, called by auth.c around the    *)
(* create call and the wait (auth.c:668 and auth.c:897-906).               *)
(*                                                                         *)
(* Each member of Txns is a thread that runs PAM transactions, one after   *)
(* another.  The SIGINT disposition, the `interrupted' flag and a pending  *)
(* SIGINT belong to the process; the signal mask belongs to the thread.    *)
(* arm and disarm are several system calls each, and a Ctrl-C or another   *)
(* thread may come between any two of them: each call is a step.           *)
(***************************************************************************)
EXTENDS Naturals

CONSTANTS Txns,        \* threads that run PAM transactions
          MaxCtrlC,    \* bound: how many times the user presses Ctrl-C
          MaxCalls     \* bound: transactions one thread runs in its life

ASSUME SigintAssumption == MaxCtrlC \in Nat /\ MaxCalls \in Nat

VARIABLES
  pc,           \* where each thread is in arm, the wait, or disarm
  disposition,  \* who handles SIGINT: the host's disposition or on_sigint
  interrupted,  \* the sig_atomic_t flag
  pending,      \* a SIGINT no thread could take
  blocked,      \* per thread: SIGINT is in its mask
  cancel,       \* per thread: the ssoossh_cancel struct
  rc,           \* per thread: what the transaction answers, by kind
  hostMask,     \* history: the mask the host calls the module with
  hit,          \* history: on_sigint ran since the thread's arm
  pressed,      \* number of Ctrl-C so far
  toHost,       \* history: how many ran the host's own disposition
  calls         \* transactions begun, per thread

vars == <<pc, disposition, interrupted, pending, blocked, cancel, rc,
          hostMask, hit, pressed, toHost, calls>>

Disposition == {"host", "on_sigint"}
Answer == {"none", "success", "failure", "ignore"}
Place == {"host", "cleared", "installed", "waiting", "leaving", "reblocked",
          "disarmed"}
CancelStruct == [installed: BOOLEAN, previous: Disposition, wasBlocked: BOOLEAN]

TypeOK ==
  /\ pc \in [Txns -> Place]
  /\ disposition \in Disposition
  /\ interrupted \in BOOLEAN /\ pending \in BOOLEAN
  /\ blocked \in [Txns -> BOOLEAN]
  /\ cancel \in [Txns -> CancelStruct]
  /\ rc \in [Txns -> Answer]
  /\ hostMask \in [Txns -> BOOLEAN]
  /\ hit \in [Txns -> BOOLEAN]
  /\ pressed \in Nat /\ toHost \in Nat
  /\ calls \in [Txns -> Nat]

\* A host such as sudo calls the module with SIGINT blocked; login does not.
Init ==
  /\ pc = [t \in Txns |-> "host"]
  /\ disposition = "host"
  /\ interrupted = FALSE /\ pending = FALSE
  /\ hostMask \in [Txns -> BOOLEAN]
  /\ blocked = hostMask
  /\ cancel = [t \in Txns |-> [installed |-> FALSE, previous |-> "host",
                               wasBlocked |-> FALSE]]
  /\ rc = [t \in Txns |-> "none"]
  /\ hit = [t \in Txns |-> FALSE]
  /\ pressed = 0 /\ toHost = 0
  /\ calls = [t \in Txns |-> 0]

-----------------------------------------------------------------------------
(***************************************************************************)
(* What arm and disarm write, named one by one.  An operator whose name    *)
(* ends in an underscored word is a seeded fault: a plausible slip in the  *)
(* definition that follows it, which some property below must notice.      *)
(***************************************************************************)

\* cancel.c:22
FlagOnArm_Kept == interrupted
FlagOnArm == FALSE

\* cancel.c:52: this thread's mask once the handler is in.
MaskWhileWaiting_Left(t) == blocked[t]
MaskWhileWaiting(t) == FALSE

\* cancel.c:65-72
MaskOnDisarm_Left(t) == blocked[t]
MaskOnDisarm(t) == blocked[t] \/ cancel[t].wasBlocked

\* cancel.c:73
DispositionOnDisarm_Own(t) == disposition
DispositionOnDisarm(t) == cancel[t].previous

\* auth.c:900-905: a Ctrl-C the wait did not see still means PAM_IGNORE,
\* unless the attempt succeeded.
FinalAnswer_AsTheWaitLeftIt(t) == rc[t]
FinalAnswer(t) == IF rc[t] # "success" /\ interrupted THEN "ignore" ELSE rc[t]

-----------------------------------------------------------------------------
Go(t, from, to) == pc[t] = from /\ pc' = [pc EXCEPT ![t] = to]

Armed(t) == pc[t] # "host"

\* One SIGINT runs the disposition in force.  on_sigint only sets the flag.
RunHandler ==
  \/ /\ disposition = "on_sigint"
     /\ interrupted' = TRUE
     /\ hit' = [t \in Txns |-> hit[t] \/ Armed(t)]
     /\ UNCHANGED toHost
  \/ /\ disposition = "host"
     /\ toHost' = toHost + 1
     /\ UNCHANGED <<interrupted, hit>>

\* The user presses Ctrl-C.  The kernel gives the signal to any thread that
\* does not block it; if every thread does, it stays pending, once.
CtrlC ==
  /\ pressed < MaxCtrlC
  /\ pressed' = pressed + 1
  /\ IF \E t \in Txns : ~blocked[t]
       THEN RunHandler /\ UNCHANGED pending
       ELSE pending' = TRUE /\ UNCHANGED <<interrupted, hit, toHost>>
  /\ UNCHANGED <<pc, disposition, blocked, cancel, rc, hostMask, calls>>

\* cancel.c:22-24: the flag and the struct are reset before anything else.
ArmClear(t) ==
  /\ calls[t] < MaxCalls
  /\ Go(t, "host", "cleared")
  /\ interrupted' = FlagOnArm
  /\ cancel' = [cancel EXCEPT ![t].installed = FALSE, ![t].wasBlocked = FALSE]
  /\ hit' = [hit EXCEPT ![t] = FALSE]
  /\ rc' = [rc EXCEPT ![t] = "none"]
  /\ calls' = [calls EXCEPT ![t] = @ + 1]
  /\ UNCHANGED <<disposition, pending, blocked, hostMask, pressed, toHost>>

\* cancel.c:35-38: sigaction saves the previous disposition.
ArmInstall(t) ==
  /\ Go(t, "cleared", "installed")
  /\ cancel' = [cancel EXCEPT ![t].previous = disposition, ![t].installed = TRUE]
  /\ disposition' = "on_sigint"
  /\ UNCHANGED <<interrupted, pending, blocked, rc, hostMask, hit, pressed,
                 toHost, calls>>

\* cancel.c:35-37: sigaction failed; the wait goes on without the handler.
ArmFails(t) ==
  /\ Go(t, "cleared", "waiting")
  /\ UNCHANGED <<disposition, interrupted, pending, blocked, cancel, rc,
                 hostMask, hit, pressed, toHost, calls>>

\* cancel.c:50-54: unblock SIGINT on this thread.  A pending one is delivered
\* before pthread_sigmask returns.
ArmUnblock(t) ==
  /\ Go(t, "installed", "waiting")
  /\ cancel' = [cancel EXCEPT ![t].wasBlocked = blocked[t]]
  /\ blocked' = [blocked EXCEPT ![t] = MaskWhileWaiting(t)]
  /\ IF pending /\ ~MaskWhileWaiting(t) THEN RunHandler /\ pending' = FALSE
                ELSE UNCHANGED <<interrupted, hit, toHost, pending>>
  /\ UNCHANGED <<disposition, rc, hostMask, pressed, calls>>

\* The wait saw the flag (httpc.c:367, 575, 684) and auth.c maps it to
\* PAM_IGNORE.
WaitCancelled(t) ==
  /\ interrupted
  /\ Go(t, "waiting", "leaving")
  /\ rc' = [rc EXCEPT ![t] = "ignore"]
  /\ UNCHANGED <<disposition, interrupted, pending, blocked, cancel, hostMask,
                 hit, pressed, toHost, calls>>

\* The wait ended for any other reason: an answer, the deadline, an error.
WaitEnds(t) ==
  /\ Go(t, "waiting", "leaving")
  /\ \E a \in {"success", "failure"} : rc' = [rc EXCEPT ![t] = a]
  /\ UNCHANGED <<disposition, interrupted, pending, blocked, cancel, hostMask,
                 hit, pressed, toHost, calls>>

\* cancel.c:59-61: nothing was installed, nothing is undone.
DisarmNothing(t) ==
  /\ ~cancel[t].installed
  /\ Go(t, "leaving", "disarmed")
  /\ UNCHANGED <<disposition, interrupted, pending, blocked, cancel, rc,
                 hostMask, hit, pressed, toHost, calls>>

\* cancel.c:62-72: block SIGINT again if that is how it was found.
DisarmReblock(t) ==
  /\ cancel[t].installed
  /\ Go(t, "leaving", "reblocked")
  /\ blocked' = [blocked EXCEPT ![t] = MaskOnDisarm(t)]
  /\ cancel' = [cancel EXCEPT ![t].wasBlocked = FALSE]
  /\ UNCHANGED <<disposition, interrupted, pending, rc, hostMask, hit, pressed,
                 toHost, calls>>

\* cancel.c:73-74: hand the saved disposition back.
DisarmRestore(t) ==
  /\ Go(t, "reblocked", "disarmed")
  /\ disposition' = DispositionOnDisarm(t)
  /\ cancel' = [cancel EXCEPT ![t].installed = FALSE]
  /\ UNCHANGED <<interrupted, pending, blocked, rc, hostMask, hit, pressed,
                 toHost, calls>>

\* auth.c:900-906, 915.
Return(t) ==
  /\ Go(t, "disarmed", "host")
  /\ rc' = [rc EXCEPT ![t] = FinalAnswer(t)]
  /\ UNCHANGED <<disposition, interrupted, pending, blocked, cancel, hostMask,
                 hit, pressed, toHost, calls>>

ModuleStep(t) ==
  \/ ArmInstall(t) \/ ArmFails(t) \/ ArmUnblock(t)
  \/ WaitCancelled(t)
  \/ DisarmNothing(t) \/ DisarmReblock(t) \/ DisarmRestore(t) \/ Return(t)

Next == CtrlC \/ \E t \in Txns : ArmClear(t) \/ ModuleStep(t) \/ WaitEnds(t)

Spec == Init /\ [][Next]_vars

\* The scheduler runs a thread that can move.  Neither the user nor whatever
\* else may end the wait is fair: an approval may never come.
FairSpec == Spec /\ \A t \in Txns : WF_vars(ModuleStep(t))

-----------------------------------------------------------------------------
\* A thread that is back in its host has the signal mask it came with,
\* whatever the other threads are doing (cancel.h:21-26).
MaskRestored == \A t \in Txns : pc[t] = "host" => blocked[t] = hostMask[t]

\* PAM_IGNORE is answered only if a Ctrl-C reached the handler since this
\* transaction's own arm: not for one that an earlier transaction already
\* answered (cancel.c:22, cancel.h:57).
IgnoreMeansCtrlC == \A t \in Txns : rc[t] = "ignore" => hit[t]

\* Once no transaction is in the module the host has its own disposition back
\* (cancel.h:12-15).
DispositionRestored ==
  (\A t \in Txns : pc[t] = "host") => disposition = "host"

\* A Ctrl-C the handler took in a transaction's life is what that transaction
\* answers, unless it had succeeded (cancel.h:47-50, auth.c:900-905).
CtrlCAnswered ==
  \A t \in Txns : pc[t] = "host" /\ hit[t] => rc[t] \in {"ignore", "success"}

\* A host that keeps SIGINT blocked in every thread never has its own
\* disposition run while the module is in between (cancel.c:44-49, 62-64).
HeldForHost == [][(\A t \in Txns : hostMask[t]) => toHost' = toHost]_vars

\* A Ctrl-C that is pending or flagged while a transaction waits with the
\* handler installed ends that wait (cancel.h:21-26).
CtrlCEndsWait ==
  \A t \in Txns :
    (pc[t] = "waiting" /\ cancel[t].installed /\ (pending \/ interrupted))
      ~> pc[t] = "host"
=============================================================================
